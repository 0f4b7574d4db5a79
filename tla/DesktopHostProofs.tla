-------------------------- MODULE DesktopHostProofs --------------------------
(***************************************************************************)
(* The event loop of the host for any profiles, monitors within i32, places *)
(* and number of edits, requests, closes and failures: windows are restored *)
(* in sight whatever was recorded, no edit is lost on its way from the      *)
(* watcher to the windows, closing windows never strands the host, and a    *)
(* quit leaves no background agent behind.                                  *)
(***************************************************************************)
EXTENDS DesktopHost, WellFoundedInduction, TLAPS

-----------------------------------------------------------------------------
(* The arithmetic of window_state.rs. *)

\* Ord::clamp returns a number between its bounds.
LEMMA ClampBounds ==
    ASSUME NEW n \in Int, NEW low \in Int, NEW high \in Int, low <= high
    PROVE  /\ clamp(n, low, high) \in Int
           /\ low <= clamp(n, low, high) /\ clamp(n, low, high) <= high
BY DEF clamp, AtMost, AtLeast

\* Saturating arithmetic stays within i32 and changes nothing that is in it.
LEMMA Saturates ==
    ASSUME NEW n \in Int
    PROVE  /\ saturating(n) \in Int
           /\ IntMin <= saturating(n) /\ saturating(n) <= IntMax
           /\ (IntMin <= n /\ n <= IntMax => saturating(n) = n)
           /\ (n < IntMin => saturating(n) = IntMin)
BY GeometryAssumption DEF saturating, clamp, AtMost, AtLeast

\* Rounding a scaled number gives an integer.
LEMMA RoundedIsInt ==
    ASSUME NEW n \in Int, NEW num \in Nat, NEW den \in Nat, 0 < den
    PROVE  rounded(n, num, den) \in Int
<1>1. \A a \in Int : a \div (2 * den) \in Int
  OBVIOUS
<1>2. 2 * n * num + den \in Int /\ -2 * n * num + den \in Int
  OBVIOUS
<1>. QED
  BY <1>1, <1>2 DEF rounded

\* What windows.json holds for a window, and where a window can be.
Recorded(s) == s.x \in Int /\ s.y \in Int /\ s.w \in Int /\ s.h \in Int /\ s.scale \in Nat
Placed(g) == g.x \in Int /\ g.y \in Int /\ g.w \in Int /\ g.h \in Int

\* The ratio of two scales is a fraction.
LEMMA RatioIsFraction ==
    ASSUME NEW s, NEW m, Recorded(s), m.scale \in Nat
    PROVE  Ratio(s, m).num \in Nat /\ Ratio(s, m).den \in Nat /\ 0 < Ratio(s, m).den
<1>. DEFINE old == AtLeast(s.scale, 1)
<1>1. old \in Nat /\ 1 <= old
  BY DEF Recorded, AtLeast
<1>. HIDE DEF old
<1>2. Ratio(s, m) = CASE 4 * m.scale < old -> [num |-> 1, den |-> 4]
                      [] m.scale > 4 * old -> [num |-> 4, den |-> 1]
                      [] OTHER -> [num |-> m.scale, den |-> old]
  BY DEF Ratio, old
<1>. QED
  BY <1>1, <1>2

\* The width or height remap gives a window.
LEMMA SizeInBounds ==
    ASSUME NEW n \in Int, NEW least \in Nat, NEW most \in Nat
    PROVE  LET size == clamp(n, least, AtLeast(most, least)) IN
           size \in Int /\ least <= size /\ size <= AtLeast(most, least)
BY DEF clamp, AtMost, AtLeast

\* The smallest x remap admits: MIN_VISIBLE of the width is right of the left
\* edge of the monitor.
LEMMA LeftmostPlace ==
    ASSUME NEW at \in Int, NEW width \in Int, MinVisible <= width, width <= IntMax,
           IntMin <= at - width, at <= IntMax
    PROVE  saturating(saturating(at - AtMost(width, IntMax)) + MinVisible) = at - width + MinVisible
BY GeometryAssumption DEF saturating, clamp, AtMost, AtLeast

\* The greatest x remap admits.
LEMMA RightmostPlace ==
    ASSUME NEW at \in Int, NEW size \in Nat, MinVisible <= size, size <= IntMax,
           IntMin <= at, at + size <= IntMax
    PROVE  saturating(saturating(at + AtMost(size, IntMax)) - MinVisible) = at + size - MinVisible
BY GeometryAssumption DEF saturating, clamp, AtMost, AtLeast

\* The greatest y remap admits, also on a monitor lower than MIN_VISIBLE.
LEMMA LowestPlace ==
    ASSUME NEW at \in Int, NEW size \in Nat, size <= IntMax, IntMin <= at, at + size <= IntMax
    PROVE  LET low == saturating(saturating(at + AtMost(size, IntMax)) - MinVisible) IN
           low \in Int /\ at <= AtLeast(low, at) /\ AtLeast(low, at) \in Int
           /\ AtLeast(low, at) <= at + AtLeast(size - MinVisible, 0)
BY GeometryAssumption DEF saturating, clamp, AtMost, AtLeast

\* remap puts a window on its monitor: at least MIN_VISIBLE of its width and
\* its upper edge are there, whatever was recorded.
LEMMA RemapInSight ==
    ASSUME NEW s, NEW m, Recorded(s), Fits(m)
    PROVE  Placed(remap(s, m)) /\ InSight(remap(s, m), m)
<1>. DEFINE r == Ratio(s, m)
            sw == rounded(s.w, r.num, r.den)
            sh == rounded(s.h, r.num, r.den)
            sx == rounded(s.x, r.num, r.den)
            sy == rounded(s.y, r.num, r.den)
            width == clamp(sw, MinWidth, AtLeast(m.w, MinWidth))
            height == clamp(sh, MinHeight, AtLeast(m.h, MinHeight))
            minX == saturating(saturating(m.x - AtMost(width, IntMax)) + MinVisible)
            maxX == saturating(saturating(m.x + AtMost(m.w, IntMax)) - MinVisible)
            maxY == saturating(saturating(m.y + AtMost(m.h, IntMax)) - MinVisible)
            x == saturating(m.x + saturating(sx))
            y == saturating(m.y + saturating(sy))
            cx == clamp(x, minX, AtLeast(maxX, minX))
            cy == clamp(y, m.y, AtLeast(maxY, m.y))
<1>1. sw \in Int /\ sh \in Int /\ sx \in Int /\ sy \in Int
  BY RatioIsFraction, RoundedIsInt DEF Recorded, Fits
<1>2. remap(s, m) = [monitor |-> m.name, x |-> cx, y |-> cy, w |-> width, h |-> height]
  BY DEF remap
<1>. HIDE DEF r, sw, sh, sx, sy
<1>3. /\ m.x \in Int /\ m.y \in Int /\ m.w \in Nat /\ m.h \in Nat
      /\ MinVisible <= m.w /\ AtLeast(m.w, MinWidth) <= IntMax /\ m.h <= IntMax
      /\ IntMin <= m.x - AtLeast(m.w, MinWidth) /\ m.x + m.w <= IntMax
      /\ IntMin <= m.y /\ m.y + m.h <= IntMax
  BY DEF Fits
<1>. DEFINE broad == AtLeast(m.w, MinWidth)
<1>4. broad \in Int /\ m.w <= broad /\ MinWidth <= broad
  BY <1>3, GeometryAssumption DEF AtLeast
<1>5. width \in Int /\ MinWidth <= width /\ width <= broad
  BY <1>1, <1>3, SizeInBounds, GeometryAssumption
<1>6. height \in Int
  BY <1>1, <1>3, SizeInBounds, GeometryAssumption
<1>7. x \in Int /\ y \in Int
  BY <1>1, <1>3, Saturates
<1>. HIDE DEF broad, width, height, x, y
<1>8. broad <= IntMax /\ IntMin <= m.x - broad
  BY <1>3 DEF broad
<1>9. minX = m.x - width + MinVisible
  <2>1. MinVisible <= width /\ width <= IntMax /\ IntMin <= m.x - width /\ m.x <= IntMax
    BY <1>3, <1>4, <1>5, <1>8, GeometryAssumption
  <2>. QED
    BY <2>1, <1>3, <1>5, LeftmostPlace
<1>10. maxX = m.x + m.w - MinVisible
  <2>1. m.w <= IntMax /\ IntMin <= m.x
    BY <1>3, <1>4, <1>8, GeometryAssumption
  <2>. QED
    BY <2>1, <1>3, RightmostPlace
<1>11. /\ maxY \in Int /\ m.y <= AtLeast(maxY, m.y) /\ AtLeast(maxY, m.y) \in Int
       /\ AtLeast(maxY, m.y) <= m.y + AtLeast(m.h - MinVisible, 0)
  BY <1>3, LowestPlace
<1>. HIDE DEF minX, maxX, maxY
<1>12. cx \in Int /\ minX <= cx /\ cx <= maxX
  <2>1. minX \in Int /\ maxX \in Int /\ minX <= maxX
    BY <1>3, <1>5, <1>9, <1>10, GeometryAssumption
  <2>2. AtLeast(maxX, minX) = maxX
    BY <2>1 DEF AtLeast
  <2>. QED
    BY <1>7, <2>1, <2>2, ClampBounds
<1>13. cy \in Int /\ m.y <= cy /\ cy <= AtLeast(maxY, m.y)
  BY <1>3, <1>7, <1>11, ClampBounds
<1>. HIDE DEF cx, cy
<1>14. AtLeast(m.h - MinVisible, 0) \in Int
  BY <1>3, GeometryAssumption DEF AtLeast
<1>15. cy <= m.y + AtLeast(m.h - MinVisible, 0)
  BY <1>3, <1>11, <1>13, <1>14
<1>. QED
  BY <1>2, <1>3, <1>5, <1>6, <1>9, <1>10, <1>12, <1>13, <1>15, GeometryAssumption
     DEF Placed, InSight

-----------------------------------------------------------------------------
(* restore: the monitor it picks is connected. *)

\* A set of positions has a first one.
LEMMA FirstExists ==
    ASSUME NEW T \in SUBSET Nat, T # {}
    PROVE  \E i \in T : \A j \in T : i <= j
<1>1. PICK i \in T : \A j \in T : ~(<<j, i>> \in OpToRel(<, Nat))
  BY NatLessThanWellFounded, WFMin, Zenon
<1>2. \A j \in T : ~(j < i)
  BY <1>1 DEF OpToRel
<1>. QED
  BY <1>2

\* restore picks a connected monitor.
LEMMA HomeIsConnected ==
    ASSUME NEW d \in Displays, d # <<>>, NEW s, NEW remember
    PROVE  \E i \in DOMAIN d : HomeMonitor(s, d, remember) = d[i] /\ Fits(d[i])
<1>1. d \in Seq([name : STRING, x : Int, y : Int, w : Nat, h : Nat, scale : Nat])
  BY ProfileAssumption
<1>2. DOMAIN d = 1..Len(d) /\ Len(d) \in Nat /\ 1 \in DOMAIN d
  BY <1>1
<1>3. \A i \in DOMAIN d : Fits(d[i])
  BY <1>2, GeometryOfDisplays
<1>. DEFINE same == {i \in DOMAIN d : d[i].name = s.monitor}
<1>4. CASE remember /\ same # {}
  <2>1. \E i \in same : \A j \in same : i <= j
    <3>1. same \in SUBSET Nat
      BY <1>2
    <3>. QED
      BY <1>4, <3>1, FirstExists
  <2>2. (CHOOSE i \in same : \A j \in same : i <= j) \in same
    BY <2>1
  <2>3. HomeMonitor(s, d, remember) = d[CHOOSE i \in same : \A j \in same : i <= j]
    BY <1>4 DEF HomeMonitor
  <2>. QED
    BY <2>2, <2>3, <1>3
<1>5. CASE ~(remember /\ same # {})
  BY <1>2, <1>3, <1>5 DEF HomeMonitor
<1>. QED
  BY <1>4, <1>5

-----------------------------------------------------------------------------
(* The invariant: monitors are known ones, and what was recorded or is shown  *)
(* has numbers for a geometry.                                                *)

Geometry ==
    /\ displays \in Displays
    /\ saved = None \/ Recorded(saved)
    /\ place = None \/ Placed(place)

\* record writes down numbers.
LEMMA RecordRecords ==
    ASSUME NEW m, Fits(m), NEW x \in Int, NEW y \in Int, NEW w \in Int, NEW h \in Int
    PROVE  Recorded(record(m, x, y, w, h))
<1>1. m.x \in Int /\ m.y \in Int /\ m.scale \in Nat
  BY DEF Fits
<1>2. saturating(x - m.x) \in Int /\ saturating(y - m.y) \in Int
  BY <1>1, Saturates
<1>3. AtLeast(m.scale, 1) \in Nat
  BY <1>1 DEF AtLeast
<1>. QED
  BY <1>2, <1>3 DEF record, Recorded

\* Whatever profile is configured, the main window is created without a place
\* or at one that is in sight.
LEMMA RestoredPlace ==
    ASSUME Geometry, NEW p, Restored(p) # None
    PROVE  /\ Placed(Restored(p))
           /\ \E i \in DOMAIN displays : InSight(Restored(p), displays[i])
<1>1. saved # None /\ displays # <<>>
      /\ Restored(p) = remap(saved, HomeMonitor(saved, displays, p.remember))
  BY DEF Restored
<1>2. PICK i \in DOMAIN displays :
        HomeMonitor(saved, displays, p.remember) = displays[i] /\ Fits(displays[i])
  BY <1>1, HomeIsConnected DEF Geometry
<1>. QED
  BY <1>1, <1>2, RemapInSight DEF Geometry

\* The same for configure, which may leave the main window without a place.
LEMMA ConfiguredPlace ==
    ASSUME Geometry, NEW v, NEW bad, configure(v, bad)
    PROVE  place' = None \/ (/\ Placed(place')
                             /\ \E i \in DOMAIN displays : InSight(place', displays[i]))
<1>1. place' = None \/ place' = Restored(Declared(v))
  BY DEF configure
<1>. QED
  BY <1>1, RestoredPlace

\* The monitor a window is on, and every other one, is within i32.
LEMMA MonitorsFit ==
    ASSUME Geometry
    PROVE  \A i \in DOMAIN displays : Fits(displays[i])
<1>1. displays \in Seq([name : STRING, x : Int, y : Int, w : Nat, h : Nat, scale : Nat])
  BY ProfileAssumption DEF Geometry
<1>2. DOMAIN displays = 1..Len(displays)
  BY <1>1
<1>. QED
  BY <1>2, GeometryOfDisplays DEF Geometry

\* Every step keeps the invariant, and a step that creates the windows again
\* puts the main window in sight if it puts it anywhere.
LEMMA GeometryStep ==
    ASSUME Geometry, [Next]_vars
    PROVE  /\ Geometry'
           /\ gen' # gen /\ place' # None
                => \E i \in DOMAIN displays : InSight(place', displays[i])
<1>1. CASE Resumed
  <2>1. PICK fails \in BOOLEAN : resumed(fails)
    BY <1>1 DEF Resumed
  <2>2. UNCHANGED <<displays, saved>>
    BY <2>1 DEF resumed
  <2>3. UNCHANGED <<gen, place>> \/ \E bad : configure(1, bad)
    BY <2>1 DEF resumed
  <2>. QED
    BY <2>2, <2>3, ConfiguredPlace DEF Geometry
<1>2. CASE Reconfigure
  <2>1. UNCHANGED <<displays, saved>> /\ \E v, bad : configure(v, bad)
    BY <1>2 DEF Reconfigure
  <2>. QED
    BY <2>1, ConfiguredPlace DEF Geometry
<1>3. CASE CloseRequested
  <2>1. UNCHANGED <<gen, displays, place>> /\ (saved' = saved \/ (OnMonitor /\ saved' = record_window_state))
    BY <1>3 DEF CloseRequested
  <2>2. CASE OnMonitor /\ saved' = record_window_state /\ saved' # saved
    <3>. DEFINE i == CHOOSE i \in DOMAIN displays : displays[i].name = place.monitor
    <3>1. place # None /\ \E k \in DOMAIN displays : displays[k].name = place.monitor
      BY <2>2 DEF OnMonitor
    <3>2. i \in DOMAIN displays
      BY <3>1
    <3>3. saved' = record(displays[i], place.x, place.y, place.w, place.h)
      BY <2>2 DEF record_window_state
    <3>4. Fits(displays[i])
      BY <3>2, MonitorsFit
    <3>5. place.x \in Int /\ place.y \in Int /\ place.w \in Int /\ place.h \in Int
      BY <3>1 DEF Geometry, Placed
    <3>. HIDE DEF i
    <3>. QED
      BY <2>1, <3>3, <3>4, <3>5, RecordRecords DEF Geometry
  <2>. QED
    BY <2>1, <2>2 DEF Geometry
<1>4. CASE Moved
  <2>1. UNCHANGED <<gen, displays>>
    BY <1>4 DEF Moved
  <2>2. PICK g \in Places, i \in DOMAIN displays :
          /\ place' = [monitor |-> displays[i].name, x |-> displays[i].x + g.x,
                       y |-> displays[i].y + g.y, w |-> g.w, h |-> g.h]
          /\ saved' = IF Declared(host).restore
                      THEN record(displays[i], displays[i].x + g.x, displays[i].y + g.y, g.w, g.h)
                      ELSE saved
    BY <1>4 DEF Moved
  <2>3. Fits(displays[i])
    BY MonitorsFit
  <2>4. displays[i].x + g.x \in Int /\ displays[i].y + g.y \in Int /\ g.w \in Int /\ g.h \in Int
    BY <2>3, GeometryOfDisplays DEF Fits
  <2>5. Placed(place')
    BY <2>2, <2>4 DEF Placed
  <2>6. saved' = saved \/ Recorded(saved')
    BY <2>2, <2>3, <2>4, RecordRecords
  <2>. QED
    BY <2>1, <2>5, <2>6 DEF Geometry
<1>5. CASE MonitorsChange
  BY <1>5 DEF MonitorsChange, Geometry
<1>6. CASE UNCHANGED <<gen, displays, place, saved>>
  BY <1>6 DEF Geometry
<1>7. CASE ApplyEffects \/ ReloadViews \/ ShellEvent \/ ExitEvent \/ \E w \in DOMAIN windows : UserCloses(w)
  BY <1>6, <1>7 DEF ApplyEffects, ReloadViews, ShellEvent, ExitEvent, UserCloses, loop
<1>8. CASE Serve \/ process_response \/ SystemEvent \/ WorkerFails
  BY <1>6, <1>8 DEF Serve, process_response, SystemEvent, WorkerFails, loop
<1>9. CASE Edit \/ Poll \/ Restart \/ Validate \/ Prepare
  BY <1>6, <1>9 DEF Edit, Poll, Restart, Validate, Prepare, Stage, loop
<1>10. CASE Swap \/ Agent \/ Notify
  BY <1>6, <1>10 DEF Swap, Agent, Notify, loop
<1>11. CASE UNCHANGED vars
  BY <1>6, <1>11 DEF vars
<1>. QED
  BY <1>1, <1>2, <1>3, <1>4, <1>5, <1>7, <1>8, <1>9, <1>10, <1>11 DEF Next

\* Whatever was recorded, a main window that the event loop creates again at a
\* remembered place is in sight on a connected monitor (servo_engine.rs
\* configure, window_state.rs restore and remap), for any profiles, monitors
\* within i32, places and number of moves and faults.
THEOREM WindowsAreRestoredInSight == Spec => RestoredInSight
<1>1. Init => Geometry
  BY DEF Init, Geometry
<1>2. Geometry /\ [Next]_vars => Geometry'
  BY GeometryStep
<1>3. Geometry /\ [Next]_vars
        => [gen' # gen /\ place' # None
              => \E i \in DOMAIN displays : InSight(place', displays[i])]_vars
  BY GeometryStep
<1>. QED
  BY <1>1, <1>2, <1>3, PTL DEF Spec, RestoredInSight

-----------------------------------------------------------------------------
(* The reload: what the watcher, the gateway, the queue and the event loop    *)
(* know of each other.                                                        *)

Orders == [kind : {"hide", "show", "close", "quit", "trayHide"}, window : WindowIds \cup {Main}]
Events == [kind : {"effects"}, effect : Orders] \cup [kind : {"views", "shell", "exit"}]
              \cup [kind : {"reconfigure"}, version : Nat]
Snapshots == [run : Nat, assets : Nat]

\* Versions exist, what is queued is a HostEvent, windows and shell are records.
Shapes ==
    /\ source \in Seq(Names) /\ Len(source) >= 1 /\ assets \in Nat
    /\ watcher \in [pc : {"sleep", "restart", "validate", "prepare", "swap", "agent", "notify"},
                    seen : Snapshots, snap : Snapshots, boot : Nat, failed : BOOLEAN]
    /\ watcher.seen.run <= Len(source) /\ watcher.snap.run <= Len(source)
    /\ watcher.boot \in 1..Len(source)
    /\ worker \in 0..Len(source) /\ gateway \in 1..Len(source) /\ host \in 1..Len(source)
    /\ answers \subseteq Orders
    /\ queue \in Seq(Events)
    /\ \A i \in 1..Len(queue) :
           queue[i].kind = "reconfigure" => queue[i].version \in 1..Len(source)

Shown ==
    /\ shell \in [tray : {"none", "shown", "hidden"}, close : {"Exit", "Hide"}]
    /\ gen \in Nat
    /\ windows \in [DOMAIN windows -> [shows : {"yes", "profile", "effect", "user"}, gen : Nat]]

\* A reload boots a version at least as new as the snapshot it answers to, and
\* one that did not fail leaves gateway and worker there.
CatchesUp ==
    /\ watcher.pc \in {"validate", "prepare", "swap", "agent", "notify"}
           => watcher.snap.run <= watcher.boot /\ (worker = 0 \/ watcher.boot <= worker)
    /\ watcher.pc \in {"agent", "notify"} => gateway = watcher.boot
    /\ watcher.pc = "sleep" /\ ~watcher.failed
           => watcher.seen.run <= gateway /\ (worker = 0 \/ watcher.seen.run <= worker)

\* The event loop h has been told of version g, or the last Reconfigure in its
\* queue q will tell it.
Told(q, h, g) ==
    \/ h = g /\ \A i \in 1..Len(q) : q[i].kind # "reconfigure"
    \/ \E i \in 1..Len(q) :
           /\ q[i].kind = "reconfigure" /\ q[i].version = g
           /\ \A j \in 1..Len(q) : q[j].kind = "reconfigure" => j <= i

Informed == watcher.pc \notin {"agent", "notify"} => Told(queue, host, gateway)

\* Once the agent's step of a reload is done, no agent runs under the
\* identifier of the start for a profile of that identifier that has none.
AgentMatches ==
    watcher.pc # "agent" /\ ~Declared(gateway).agent
        /\ Declared(gateway).identifier = application_id
            => application_id \notin agents

\* The user hides the main window only where a tray or the services keep the
\* host, and the shell that hides on close has a tray.
MainWindow ==
    /\ shell.close = "Hide" => shell.tray # "none"
    /\ Main \in DOMAIN windows /\ windows[Main].shows = "user"
           => shell.close = "Hide" \/ keep_alive_without_windows

\* The inductive invariant.
IInv == Shapes /\ Shown /\ CatchesUp /\ Informed /\ AgentMatches /\ MainWindow

-----------------------------------------------------------------------------
(* Sequences, and what is told by a queue. *)

\* What a sequence is with an element at its end.
LEMMA Appended ==
    ASSUME NEW S, NEW q \in Seq(S), NEW e \in S
    PROVE  /\ Append(q, e) \in Seq(S)
           /\ Len(q) \in Nat /\ Len(Append(q, e)) = Len(q) + 1
           /\ \A i \in 1..Len(q) : Append(q, e)[i] = q[i]
           /\ Append(q, e)[Len(q) + 1] = e
  OBVIOUS

\* What it is without its first one.
LEMMA Taken ==
    ASSUME NEW S, NEW q \in Seq(S), q # <<>>
    PROVE  /\ Tail(q) \in Seq(S)
           /\ Len(q) \in Nat /\ Len(q) >= 1 /\ Len(Tail(q)) = Len(q) - 1
           /\ \A i \in 1..Len(Tail(q)) : Tail(q)[i] = q[i + 1]
           /\ Head(q) = q[1] /\ Head(q) \in S
  OBVIOUS

\* An event of another kind tells nothing.
LEMMA ToldAppended ==
    ASSUME NEW q \in Seq(Events), NEW e \in Events, NEW h, NEW g, Told(q, h, g),
           e.kind # "reconfigure"
    PROVE  Told(Append(q, e), h, g)
<1>. DEFINE r == Append(q, e)
<1>1. /\ Len(q) \in Nat /\ Len(r) = Len(q) + 1
      /\ \A i \in 1..Len(q) : r[i] = q[i]
      /\ r[Len(q) + 1] = e
  BY Appended
<1>. HIDE DEF r
<1>. QED
  BY <1>1 DEF Told, r

\* A Reconfigure at the end of the queue tells of its version.
LEMMA ToldNew ==
    ASSUME NEW q \in Seq(Events), NEW h, NEW g \in Nat
    PROVE  Told(Append(q, [kind |-> "reconfigure", version |-> g]), h, g)
<1>. DEFINE e == [kind |-> "reconfigure", version |-> g]
            r == Append(q, e)
<1>1. e \in Events
  BY DEF Events
<1>2. /\ Len(q) \in Nat /\ Len(r) = Len(q) + 1
      /\ r[Len(q) + 1] = e
  BY <1>1, Appended
<1>. HIDE DEF r
<1>. QED
  BY <1>2 DEF Told, r

\* The event loop takes an event of another kind, or is reconfigured.
LEMMA ToldTaken ==
    ASSUME NEW q \in Seq(Events), q # <<>>, NEW h, NEW g, Told(q, h, g)
    PROVE  /\ Head(q).kind # "reconfigure" => Told(Tail(q), h, g)
           /\ Head(q).kind = "reconfigure" => Told(Tail(q), Head(q).version, g)
<1>. DEFINE r == Tail(q)
<1>1. /\ Len(q) \in Nat /\ Len(q) >= 1 /\ Len(r) = Len(q) - 1
      /\ \A i \in 1..Len(r) : r[i] = q[i + 1]
      /\ Head(q) = q[1]
  BY Taken
<1>. HIDE DEF r
<1>2. ASSUME h = g, \A i \in 1..Len(q) : q[i].kind # "reconfigure"
      PROVE  Head(q).kind # "reconfigure" /\ Told(r, h, g)
  BY <1>1, <1>2 DEF Told
<1>3. ASSUME NEW i \in 1..Len(q), q[i].kind = "reconfigure", q[i].version = g,
             \A j \in 1..Len(q) : q[j].kind = "reconfigure" => j <= i
      PROVE  /\ Head(q).kind # "reconfigure" => Told(r, h, g)
             /\ Head(q).kind = "reconfigure" => Told(r, Head(q).version, g)
  <2>1. CASE i = 1
    <3>1. \A j \in 1..Len(r) : r[j].kind # "reconfigure"
      BY <1>1, <1>3, <2>1
    <3>. QED
      BY <1>1, <1>3, <2>1, <3>1 DEF Told
  <2>2. CASE i # 1
    <3>1. /\ i - 1 \in 1..Len(r)
          /\ r[i - 1].kind = "reconfigure" /\ r[i - 1].version = g
          /\ \A j \in 1..Len(r) : r[j].kind = "reconfigure" => j <= i - 1
      <4>1. i - 1 \in 1..Len(r) /\ (i - 1) + 1 = i
        BY <1>1, <1>3, <2>2
      <4>2. r[i - 1] = q[i]
        BY <1>1, <4>1
      <4>3. ASSUME NEW j \in 1..Len(r), r[j].kind = "reconfigure"
            PROVE  j <= i - 1
        <5>1. j + 1 \in 1..Len(q) /\ r[j] = q[j + 1]
          BY <1>1
        <5>2. j + 1 <= i
          BY <1>3, <4>3, <5>1
        <5>. QED
          BY <5>2
      <4>. QED
        BY <1>3, <4>1, <4>2, <4>3
    <3>. QED
      BY <3>1 DEF Told
  <2>. QED
    BY <2>1, <2>2
<1>. QED
  BY <1>2, <1>3 DEF Told, r

-----------------------------------------------------------------------------
LEMMA InitIInv == Init => IInv
<1>. SUFFICES ASSUME Init
              PROVE  IInv
  OBVIOUS
<1>1. Shapes
  <2>1. PICK n \in Starts : source = <<n>>
    BY DEF Init
  <2>2. source \in Seq(Names) /\ Len(source) = 1
    BY <2>1, ProfileAssumption
  <2>3. /\ assets = 1 /\ worker = 1 /\ gateway = 1 /\ host = 1 /\ answers = {} /\ queue = <<>>
        /\ watcher = [pc |-> "sleep", seen |-> [run |-> 1, assets |-> 1],
                      snap |-> [run |-> 1, assets |-> 1], boot |-> 1, failed |-> FALSE]
    BY DEF Init
  <2>. QED
    BY <2>2, <2>3 DEF Shapes, Snapshots
<1>2. Shown
  BY DEF Init, Shown, NoShell
<1>3. CatchesUp /\ Informed
  BY DEF Init, CatchesUp, Informed, Told
<1>4. AgentMatches
  BY DEF Init, AgentMatches
<1>5. MainWindow
  BY DEF Init, MainWindow, NoShell
<1>. QED
  BY <1>1, <1>2, <1>3, <1>4, <1>5 DEF IInv

\* The effects a response can carry are for windows of some profile.
LEMMA EffectsAreOrders ==
    ASSUME Shapes, NEW v \in 1..Len(source), NEW e \in Effects(v)
    PROVE  e \in Orders
<1>1. source[v] \in Names
  BY DEF Shapes
<1>2. Declared(v).order \in Seq(WindowIds)
  BY <1>1, ProfileAssumption DEF Declared
<1>3. Range(Declared(v).order) \subseteq WindowIds
  BY <1>2 DEF Range
<1>. QED
  BY <1>3 DEF Effects, Orders

\* Every action keeps the shapes.
LEMMA NextShapes == IInv /\ [Next]_vars => Shapes'
<1>. SUFFICES ASSUME IInv, [Next]_vars
              PROVE  Shapes'
  OBVIOUS
<1>. USE DEF IInv
<1>. DEFINE others == <<source, assets, watcher, worker, gateway, host, answers>>
\* What an event at the end of the queue, or its first one taken, keeps.
<1>1. ASSUME NEW e \in Events, queue' = Append(queue, e), UNCHANGED source,
             e.kind = "reconfigure" => e.version \in 1..Len(source)
      PROVE  queue' \in Seq(Events) /\ \A i \in 1..Len(queue') :
                 queue'[i].kind = "reconfigure" => queue'[i].version \in 1..Len(source')
  <2>1. /\ queue' \in Seq(Events)
        /\ Len(queue) \in Nat /\ Len(queue') = Len(queue) + 1
        /\ \A i \in 1..Len(queue) : queue'[i] = queue[i]
        /\ queue'[Len(queue) + 1] = e
    BY <1>1, Appended DEF Shapes
  <2>. QED
    BY <1>1, <2>1 DEF Shapes
<1>2. ASSUME queue # <<>>, queue' = Tail(queue), UNCHANGED source
      PROVE  queue' \in Seq(Events) /\ \A i \in 1..Len(queue') :
                 queue'[i].kind = "reconfigure" => queue'[i].version \in 1..Len(source')
  <2>1. /\ queue' \in Seq(Events)
        /\ Len(queue) \in Nat /\ Len(queue') = Len(queue) - 1
        /\ \A i \in 1..Len(queue') : queue'[i] = queue[i + 1]
    BY <1>2, Taken DEF Shapes
  <2>. QED
    BY <1>2, <2>1 DEF Shapes
<1>3. CASE UNCHANGED <<others, queue>>
  BY <1>3 DEF Shapes
<1>4. CASE Resumed \/ CloseRequested \/ Moved \/ MonitorsChange \/ \E w \in DOMAIN windows : UserCloses(w)
  BY <1>3, <1>4 DEF Resumed, resumed, CloseRequested, Moved, MonitorsChange, UserCloses, project, served, loop
<1>5. CASE ApplyEffects \/ ReloadViews \/ ShellEvent \/ ExitEvent
  <2>1. UNCHANGED others /\ queue # <<>> /\ queue' = Tail(queue)
    BY <1>5 DEF ApplyEffects, ReloadViews, ShellEvent, ExitEvent, Take, project, served, loop
  <2>. QED
    BY <1>2, <2>1 DEF Shapes
<1>6. CASE Reconfigure
  <2>1. /\ UNCHANGED <<source, assets, watcher, worker, gateway, answers>>
        /\ queue # <<>> /\ queue' = Tail(queue)
        /\ Head(queue).kind = "reconfigure" /\ host' = Head(queue).version
    BY <1>6 DEF Reconfigure, Take, project, served
  <2>2. host' \in 1..Len(source)
    BY <2>1, Taken DEF Shapes
  <2>. QED
    BY <1>2, <2>1, <2>2 DEF Shapes
<1>7. CASE Serve
  <2>1. /\ UNCHANGED <<source, assets, watcher, gateway, host, queue>>
        /\ worker' = IF worker = 0 THEN Latest ELSE worker
    BY <1>7 DEF Serve, project, loop
  <2>2. PICK e \in Effects(worker') : answers' = answers \cup {e}
    BY <1>7 DEF Serve
  <2>3. worker' \in 1..Len(source)
    BY <2>1 DEF Shapes, Latest
  <2>4. e \in Orders
    BY <2>3, EffectsAreOrders
  <2>. QED
    BY <2>1, <2>2, <2>3, <2>4 DEF Shapes
<1>8. CASE process_response
  <2>1. UNCHANGED <<source, assets, watcher, worker, gateway, host>>
    BY <1>8 DEF process_response, project, served, loop
  <2>2. PICK e \in answers : /\ answers' = answers \ {e}
                             /\ queue' = Append(queue, [kind |-> "effects", effect |-> e])
    BY <1>8 DEF process_response
  <2>3. [kind |-> "effects", effect |-> e] \in Events
    BY DEF Events, Shapes
  <2>. QED
    BY <1>1, <2>1, <2>2, <2>3 DEF Shapes
<1>9. CASE SystemEvent
  <2>1. UNCHANGED others
    BY <1>9 DEF SystemEvent, project, served, loop
  <2>2. PICK k \in {"shell", "exit"} : queue' = Append(queue, [kind |-> k])
    BY <1>9 DEF SystemEvent
  <2>3. [kind |-> k] \in Events
    BY DEF Events
  <2>. QED
    BY <1>1, <2>1, <2>2, <2>3 DEF Shapes
<1>10. CASE WorkerFails
  BY <1>10 DEF WorkerFails, Shapes, Latest, project, loop
<1>11. CASE Edit
  <2>1. UNCHANGED <<watcher, worker, gateway, host, answers, queue>>
    BY <1>11 DEF Edit, served, loop
  <2>2. \/ assets' = assets + 1 /\ UNCHANGED source
        \/ UNCHANGED assets /\ \E n \in Names : source' = Append(source, n)
    BY <1>11 DEF Edit
  <2>3. /\ source' \in Seq(Names) /\ assets' \in Nat
        /\ Len(source) \in Nat /\ Len(source') \in Nat /\ Len(source') >= Len(source)
    <3>1. source \in Seq(Names) /\ assets \in Nat /\ Len(source) \in Nat
      BY DEF Shapes
    <3>2. ASSUME NEW n \in Names, source' = Append(source, n)
          PROVE  source' \in Seq(Names) /\ Len(source') = Len(source) + 1
      BY <3>1, <3>2, Appended
    <3>. QED
      BY <2>2, <3>1, <3>2
  <2>4. 1..Len(source) \subseteq 1..Len(source') /\ 0..Len(source) \subseteq 0..Len(source')
    BY <2>3
  <2>5. watcher.seen.run \in Nat /\ watcher.snap.run \in Nat
    BY DEF Shapes, Snapshots
  <2>. QED
    BY <2>1, <2>3, <2>4, <2>5 DEF Shapes
<1>12. CASE Poll
  <2>1. /\ UNCHANGED <<source, assets, worker, gateway, host, answers>>
        /\ snapshot \in Snapshots /\ snapshot.run <= Len(source)
    BY <1>12 DEF Poll, project, served, loop, snapshot, Snapshots, Shapes, Latest
  <2>2. CASE changed_kind(watcher.seen, snapshot) = "Assets"
    <3>1. /\ queue' = Append(queue, [kind |-> "views"])
          /\ watcher' = Finished([watcher EXCEPT !.snap = snapshot], watcher.failed)
      BY <1>12, <2>2 DEF Poll
    <3>2. [kind |-> "views"] \in Events
      BY DEF Events
    <3>3. /\ watcher' \in [pc : {"sleep", "restart", "validate", "prepare", "swap", "agent", "notify"},
                           seen : Snapshots, snap : Snapshots, boot : Nat, failed : BOOLEAN]
          /\ watcher'.seen = snapshot /\ watcher'.snap = snapshot /\ watcher'.boot = watcher.boot
      BY <2>1, <3>1 DEF Finished, Remembered, Shapes
    <3>. QED
      BY <1>1, <2>1, <3>1, <3>2, <3>3 DEF Shapes
  <2>3. CASE changed_kind(watcher.seen, snapshot) # "Assets"
    <3>1. /\ UNCHANGED queue
          /\ watcher' = [watcher EXCEPT !.pc = "restart", !.snap = snapshot]
      BY <1>12, <2>3 DEF Poll
    <3>. QED
      BY <2>1, <3>1 DEF Shapes
  <2>. QED
    BY <2>2, <2>3
<1>13. CASE Restart
  <2>1. UNCHANGED <<source, assets, gateway, host, answers, queue>>
    BY <1>13 DEF Restart, project, loop
  <2>2. \/ worker' = Latest /\ watcher' = [watcher EXCEPT !.pc = "validate", !.boot = Latest]
        \/ worker' = 0 /\ watcher' = Finished(watcher, TRUE)
    BY <1>13 DEF Restart
  <2>3. Latest \in 1..Len(source) /\ Latest \in Nat /\ Latest \in 0..Len(source) /\ 0 \in 0..Len(source)
    BY DEF Shapes, Latest
  <2>4. CASE worker' = Latest /\ watcher' = [watcher EXCEPT !.pc = "validate", !.boot = Latest]
    BY <2>1, <2>3, <2>4 DEF Shapes
  <2>5. CASE worker' = 0 /\ watcher' = Finished(watcher, TRUE)
    BY <2>1, <2>3, <2>5 DEF Shapes, Finished, Remembered
  <2>. QED
    BY <2>2, <2>4, <2>5
<1>14. CASE Validate \/ Prepare \/ Swap \/ Agent
  <2>1. /\ UNCHANGED <<source, assets, worker, host, answers, queue>>
        /\ gateway' = gateway \/ gateway' = watcher.boot
        /\ \/ watcher' = Finished(watcher, TRUE)
           \/ \E to \in {"prepare", "swap", "agent", "notify"} : watcher' = [watcher EXCEPT !.pc = to]
    BY <1>14 DEF Validate, Prepare, Stage, Swap, Agent, project, served, loop
  <2>. QED
    BY <2>1 DEF Shapes, Finished, Remembered
<1>15. CASE Notify
  <2>1. /\ UNCHANGED <<source, assets, worker, gateway, host, answers>>
        /\ queue' = Append(queue, [kind |-> "reconfigure", version |-> watcher.boot])
        /\ watcher' = Finished(watcher, FALSE)
    BY <1>15 DEF Notify, project, served, loop
  <2>2. [kind |-> "reconfigure", version |-> watcher.boot] \in Events
    BY DEF Events, Shapes
  <2>3. watcher.boot \in 1..Len(source)
    BY DEF Shapes
  <2>4. queue' \in Seq(Events) /\ \A i \in 1..Len(queue') :
                 queue'[i].kind = "reconfigure" => queue'[i].version \in 1..Len(source')
    BY <1>1, <2>1, <2>2, <2>3
  <2>. QED
    BY <2>1, <2>4 DEF Shapes, Finished, Remembered
<1>16. CASE UNCHANGED vars
  BY <1>3, <1>16 DEF vars
<1>. QED
  BY <1>4, <1>5, <1>6, <1>7, <1>8, <1>9, <1>10, <1>11, <1>12, <1>13, <1>14, <1>15, <1>16 DEF Next

\* Every action keeps the kinds of windows and shell.
LEMMA NextShown == IInv /\ [Next]_vars => Shown'
<1>. SUFFICES ASSUME IInv, [Next]_vars
              PROVE  Shown'
  OBVIOUS
<1>. USE DEF IInv
<1>1. CASE UNCHANGED <<shell, gen, windows>>
  BY <1>1 DEF Shown
<1>2. ASSUME NEW v \in 1..Len(source)
      PROVE  Prepared(v) \in [tray : {"none", "shown", "hidden"}, close : {"Exit", "Hide"}]
  <2>1. Declared(v).tray \in {"none", "Exit", "Hide"}
    BY ProfileAssumption DEF Shapes, Declared
  <2>. QED
    BY <2>1 DEF Prepared, PlatformTray
<1>3. ASSUME NEW v, NEW bad, configure(v, bad)
      PROVE  /\ gen' \in Nat
             /\ windows' \in [DOMAIN windows' -> [shows : {"yes", "profile", "effect", "user"}, gen : Nat]]
  <2>1. PICK open, shown : windows' = [w \in open |-> [shows |-> IF w \in shown THEN "yes" ELSE "profile",
                                                    gen |-> gen + 1]]
    BY <1>3 DEF configure
  <2>2. gen' = gen + 1 /\ gen \in Nat
    BY <1>3 DEF configure, Shown
  <2>. QED
    BY <2>1, <2>2
<1>4. CASE Resumed
  <2>1. \/ UNCHANGED <<shell, gen, windows>>
        \/ shell' = Prepared(1) /\ \E bad : configure(1, bad)
    BY <1>4 DEF Resumed, resumed
  <2>2. 1 \in 1..Len(source)
    BY DEF Shapes
  <2>. QED
    BY <1>1, <1>2, <1>3, <2>1, <2>2 DEF Shown
<1>5. CASE Reconfigure
  <2>1. /\ shell' \in {NoShell, Prepared(Head(queue).version)}
        /\ \E bad : configure(Head(queue).version, bad)
        /\ queue # <<>> /\ Head(queue).kind = "reconfigure"
    BY <1>5 DEF Reconfigure, Take
  <2>2. Head(queue).version \in 1..Len(source)
    BY <2>1, Taken DEF Shapes
  <2>. QED
    BY <1>2, <1>3, <2>1, <2>2 DEF Shown, NoShell
\* A window that changes how it shows, or goes.
<1>6. ASSUME NEW w \in DOMAIN windows, NEW why \in {"yes", "profile", "effect", "user"}, Hide(w, why)
      PROVE  windows' \in [DOMAIN windows' -> [shows : {"yes", "profile", "effect", "user"}, gen : Nat]]
  BY <1>6 DEF Hide, Shown
<1>7. ASSUME NEW w, windows' = [v \in DOMAIN windows \ {w} |-> windows[v]]
      PROVE  windows' \in [DOMAIN windows' -> [shows : {"yes", "profile", "effect", "user"}, gen : Nat]]
  BY <1>7 DEF Shown
<1>8. CASE CloseRequested
  <2>1. /\ UNCHANGED <<shell, gen>>
        /\ UNCHANGED windows \/ \E c : Hide(c.window, "user") /\ IsOpen(c)
    BY <1>8 DEF CloseRequested, close_requested
  <2>. QED
    BY <1>6, <2>1 DEF Shown, IsOpen
<1>9. CASE ApplyEffects
  <2>. DEFINE e == Head(queue).effect
  <2>1. /\ UNCHANGED gen
        /\ queue # <<>> /\ Head(queue).kind = "effects" /\ apply_effect(e)
    BY <1>9 DEF ApplyEffects, Take
  <2>2. e \in Orders
    BY <2>1, Taken DEF Shapes, Events
  <2>. HIDE DEF e
  <2>3. CASE ShellEffect(e)
    BY <2>1, <2>3 DEF apply_effect, Shown
  <2>4. CASE e.kind = "quit"
    BY <2>1, <2>4, <1>1 DEF apply_effect, ShellEffect, quit
  <2>5. CASE ~ShellEffect(e) /\ e.kind # "quit"
    <3>1. WindowEffect(e) /\ UNCHANGED shell
      BY <2>1, <2>5 DEF apply_effect
    <3>2. e.kind \in {"hide", "show", "close"}
      BY <2>2, <2>5 DEF Orders, ShellEffect
    <3>3. \/ UNCHANGED windows
          \/ e.window \in DOMAIN windows /\ \E why \in {"effect", "yes", "user"} : Hide(e.window, why)
          \/ windows' = [v \in DOMAIN windows \ {e.window} |-> windows[v]]
      BY <3>1, <3>2 DEF WindowEffect, CloseWindow
    <3>. QED
      BY <1>6, <1>7, <2>1, <3>1, <3>3 DEF Shown
  <2>. QED
    BY <2>3, <2>4, <2>5
<1>10. CASE ReloadViews \/ ShellEvent \/ ExitEvent \/ \E w \in DOMAIN windows : UserCloses(w)
  BY <1>1, <1>10 DEF ReloadViews, ShellEvent, ExitEvent, UserCloses, quit, loop
<1>11. CASE Moved \/ MonitorsChange \/ Serve \/ process_response \/ SystemEvent \/ WorkerFails
  BY <1>1, <1>11 DEF Moved, MonitorsChange, Serve, process_response, SystemEvent, WorkerFails, loop
<1>12. CASE Edit \/ Poll \/ Restart \/ Validate \/ Prepare \/ Swap \/ Agent \/ Notify
  BY <1>1, <1>12 DEF Edit, Poll, Restart, Validate, Prepare, Stage, Swap, Agent, Notify, loop
<1>13. CASE UNCHANGED vars
  BY <1>1, <1>13 DEF vars
<1>. QED
  BY <1>4, <1>5, <1>8, <1>9, <1>10, <1>11, <1>12, <1>13 DEF Next

\* Every action keeps what a reload has caught up with.
LEMMA NextCatchesUp == IInv /\ [Next]_vars => CatchesUp'
<1>. SUFFICES ASSUME IInv, [Next]_vars
              PROVE  CatchesUp'
  OBVIOUS
<1>. USE DEF IInv
<1>1. CASE UNCHANGED <<watcher, worker, gateway>>
  BY <1>1 DEF CatchesUp
\* The versions the conjuncts compare are numbers, none above the latest.
<1>2. /\ Latest \in Nat /\ watcher.boot \in Nat /\ watcher.snap.run \in Nat /\ watcher.seen.run \in Nat
      /\ worker \in Nat /\ gateway \in Nat
      /\ watcher.boot <= Latest /\ watcher.snap.run <= Latest /\ watcher.seen.run <= Latest
      /\ Latest # 0
  BY DEF Shapes, Snapshots, Latest
<1>3. CASE Serve \/ WorkerFails
  <2>1. UNCHANGED <<watcher, gateway>> /\ worker' \in {0, worker, Latest}
    BY <1>3 DEF Serve, WorkerFails
  <2>. QED
    BY <1>2, <2>1 DEF CatchesUp
<1>4. CASE Poll
  <2>1. UNCHANGED <<worker, gateway>> /\ watcher.pc = "sleep"
    BY <1>4 DEF Poll, served
  <2>2. CASE changed_kind(watcher.seen, snapshot) = "Assets"
    <3>1. watcher' = Finished([watcher EXCEPT !.snap = snapshot], watcher.failed)
      BY <1>4, <2>2 DEF Poll
    <3>2. /\ watcher'.pc = "sleep" /\ watcher'.failed = watcher.failed /\ watcher'.seen = snapshot
      BY <3>1 DEF Finished, Remembered, Shapes
    <3>3. snapshot.run = watcher.seen.run
      BY <2>2 DEF changed_kind
    <3>. QED
      BY <2>1, <3>2, <3>3 DEF CatchesUp
  <2>3. CASE changed_kind(watcher.seen, snapshot) # "Assets"
    <3>1. watcher'.pc = "restart"
      BY <1>4, <2>3 DEF Poll, Shapes
    <3>. QED
      BY <3>1 DEF CatchesUp
  <2>. QED
    BY <2>2, <2>3
<1>5. CASE Restart
  <2>1. CASE /\ worker' = Latest
             /\ watcher' = [watcher EXCEPT !.pc = "validate", !.boot = Latest]
    <3>1. watcher'.pc = "validate" /\ watcher'.boot = Latest /\ watcher'.snap = watcher.snap
      BY <2>1 DEF Shapes
    <3>. QED
      BY <1>2, <2>1, <3>1 DEF CatchesUp
  <2>2. CASE watcher' = Finished(watcher, TRUE)
    <3>1. watcher'.pc = "sleep" /\ watcher'.failed
      BY <2>2 DEF Finished, Shapes
    <3>. QED
      BY <3>1 DEF CatchesUp
  <2>. QED
    BY <1>5, <2>1, <2>2 DEF Restart
<1>6. ASSUME NEW from, NEW to, <<from, to>> \in {<<"validate", "prepare">>, <<"prepare", "swap">>},
             Stage(from, to)
      PROVE  CatchesUp'
  <2>1. UNCHANGED <<worker, gateway>> /\ watcher.pc \in {"validate", "prepare"}
    BY <1>6 DEF Stage, served
  <2>2. CASE watcher' = [watcher EXCEPT !.pc = to]
    <3>1. /\ watcher'.pc \in {"prepare", "swap"}
          /\ watcher'.boot = watcher.boot /\ watcher'.snap = watcher.snap
      BY <1>6, <2>2 DEF Shapes
    <3>. QED
      BY <2>1, <3>1 DEF CatchesUp
  <2>3. CASE watcher' = Finished(watcher, TRUE)
    <3>1. watcher'.pc = "sleep" /\ watcher'.failed
      BY <2>3 DEF Finished, Shapes
    <3>. QED
      BY <3>1 DEF CatchesUp
  <2>. QED
    BY <1>6, <2>2, <2>3 DEF Stage
<1>7. CASE Swap \/ Agent
  <2>1. /\ UNCHANGED worker /\ watcher.pc \in {"swap", "agent"}
        /\ \/ watcher.pc = "swap" /\ gateway' = watcher.boot
           \/ watcher.pc = "agent" /\ gateway' = gateway
        /\ \E to \in {"agent", "notify"} : watcher' = [watcher EXCEPT !.pc = to]
    BY <1>7 DEF Swap, Agent
  <2>2. /\ watcher'.pc \in {"agent", "notify"}
        /\ watcher'.boot = watcher.boot /\ watcher'.snap = watcher.snap
    BY <2>1 DEF Shapes
  <2>. QED
    BY <2>1, <2>2 DEF CatchesUp
<1>8. CASE Notify
  <2>1. /\ UNCHANGED <<worker, gateway>> /\ watcher.pc = "notify"
        /\ watcher' = Finished(watcher, FALSE)
    BY <1>8 DEF Notify, served
  <2>2. watcher'.pc = "sleep" /\ watcher'.seen = watcher.snap
    BY <2>1 DEF Finished, Remembered, Shapes
  <2>3. /\ gateway = watcher.boot /\ watcher.snap.run <= watcher.boot
        /\ worker = 0 \/ watcher.boot <= worker
    BY <2>1 DEF CatchesUp
  <2>4. watcher.snap.run <= gateway /\ (worker = 0 \/ watcher.snap.run <= worker)
    BY <1>2, <2>3
  <2>. QED
    BY <2>1, <2>2, <2>4 DEF CatchesUp
<1>9. CASE Resumed \/ ApplyEffects \/ ReloadViews \/ Reconfigure \/ ShellEvent \/ ExitEvent
  BY <1>1, <1>9 DEF Resumed, resumed, ApplyEffects, ReloadViews, Reconfigure, ShellEvent, ExitEvent, served
<1>10. CASE CloseRequested \/ Moved \/ MonitorsChange \/ \E w \in DOMAIN windows : UserCloses(w)
  BY <1>1, <1>10 DEF CloseRequested, Moved, MonitorsChange, UserCloses, served
<1>11. CASE process_response \/ SystemEvent \/ Edit
  BY <1>1, <1>11 DEF process_response, SystemEvent, Edit, served
<1>12. CASE UNCHANGED vars
  BY <1>1, <1>12 DEF vars
<1>. QED
  BY <1>3, <1>4, <1>5, <1>6, <1>7, <1>8, <1>9, <1>10, <1>11, <1>12 DEF Next, Validate, Prepare

\* Every action keeps what the event loop knows or will be told.
LEMMA NextInformed == IInv /\ [Next]_vars => Informed'
<1>. SUFFICES ASSUME IInv, [Next]_vars, watcher'.pc \notin {"agent", "notify"}
              PROVE  Told(queue', host', gateway')
  BY DEF Informed
<1>. USE DEF IInv
<1>1. queue \in Seq(Events)
  BY DEF Shapes
<1>2. ASSUME watcher.pc \notin {"agent", "notify"}, UNCHANGED <<queue, host, gateway>>
      PROVE  Told(queue', host', gateway')
  BY <1>2 DEF Informed
<1>3. CASE ApplyEffects \/ ReloadViews \/ ShellEvent \/ ExitEvent
  <2>1. /\ UNCHANGED <<watcher, host, gateway>> /\ queue # <<>> /\ queue' = Tail(queue)
        /\ Head(queue).kind # "reconfigure"
    BY <1>3 DEF ApplyEffects, ReloadViews, ShellEvent, ExitEvent, Take, served, loop
  <2>2. Told(queue, host, gateway)
    BY <2>1 DEF Informed
  <2>3. Told(Tail(queue), host, gateway)
    BY <1>1, <2>1, <2>2, ToldTaken
  <2>. QED
    BY <2>1, <2>3
<1>4. CASE Reconfigure
  <2>1. /\ UNCHANGED <<watcher, gateway>> /\ queue # <<>> /\ queue' = Tail(queue)
        /\ Head(queue).kind = "reconfigure" /\ host' = Head(queue).version
    BY <1>4 DEF Reconfigure, Take, served
  <2>2. Told(queue, host, gateway)
    BY <2>1 DEF Informed
  <2>3. Told(Tail(queue), Head(queue).version, gateway)
    BY <1>1, <2>1, <2>2, ToldTaken
  <2>. QED
    BY <2>1, <2>3
<1>5. CASE process_response \/ SystemEvent
  <2>1. UNCHANGED <<watcher, host, gateway>>
    BY <1>5 DEF process_response, SystemEvent, served, loop
  <2>2. PICK e \in Events : queue' = Append(queue, e) /\ e.kind # "reconfigure"
    <3>1. CASE process_response
      <4>1. PICK o \in answers : queue' = Append(queue, [kind |-> "effects", effect |-> o])
        BY <3>1 DEF process_response
      <4>2. [kind |-> "effects", effect |-> o] \in Events
        BY DEF Events, Shapes
      <4>. QED
        BY <4>1, <4>2
    <3>2. CASE SystemEvent
      <4>1. PICK k \in {"shell", "exit"} : queue' = Append(queue, [kind |-> k])
        BY <3>2 DEF SystemEvent
      <4>2. [kind |-> k] \in Events
        BY DEF Events
      <4>. QED
        BY <4>1, <4>2
    <3>. QED
      BY <1>5, <3>1, <3>2
  <2>3. Told(queue, host, gateway)
    BY <2>1 DEF Informed
  <2>4. Told(Append(queue, e), host, gateway)
    BY <1>1, <2>2, <2>3, ToldAppended
  <2>. QED
    BY <2>1, <2>2, <2>4
<1>6. CASE Poll
  <2>1. UNCHANGED <<host, gateway>> /\ watcher.pc = "sleep"
        /\ (queue' = queue \/ queue' = Append(queue, [kind |-> "views"]))
    BY <1>6 DEF Poll, served, loop
  <2>2. Told(queue, host, gateway)
    BY <2>1 DEF Informed
  <2>3. [kind |-> "views"] \in Events
    BY DEF Events
  <2>4. Told(Append(queue, [kind |-> "views"]), host, gateway)
    BY <1>1, <2>2, <2>3, ToldAppended
  <2>. QED
    BY <2>1, <2>2, <2>4
<1>7. CASE Restart \/ Validate \/ Prepare
  BY <1>2, <1>7 DEF Restart, Validate, Prepare, Stage, served, loop
<1>8. CASE Swap \/ Agent
  BY <1>8 DEF Swap, Agent, Shapes
<1>9. CASE Notify
  <2>1. /\ UNCHANGED <<host, gateway>> /\ gateway = watcher.boot /\ gateway \in Nat
        /\ queue' = Append(queue, [kind |-> "reconfigure", version |-> gateway])
    BY <1>9 DEF Notify, served, loop, CatchesUp, Shapes
  <2>2. Told(Append(queue, [kind |-> "reconfigure", version |-> gateway]), host, gateway)
    BY <1>1, <2>1, ToldNew
  <2>. QED
    BY <2>1, <2>2
<1>10. CASE Resumed \/ CloseRequested \/ Moved \/ MonitorsChange \/ \E w \in DOMAIN windows : UserCloses(w)
  BY <1>2, <1>10 DEF Resumed, resumed, CloseRequested, Moved, MonitorsChange, UserCloses, served, loop
<1>11. CASE Serve \/ WorkerFails \/ Edit
  BY <1>2, <1>11 DEF Serve, WorkerFails, Edit, served, loop
<1>12. CASE UNCHANGED vars
  BY <1>2, <1>12 DEF vars
<1>. QED
  BY <1>3, <1>4, <1>5, <1>6, <1>7, <1>8, <1>9, <1>10, <1>11, <1>12 DEF Next

\* What a version declares is settled when it exists: source only grows.
LEMMA DeclaredStays ==
    ASSUME Shapes, [Next]_vars, NEW v \in 1..Len(source)
    PROVE  Declared(v)' = Declared(v)
<1>1. source' = source \/ \E n \in Names : source' = Append(source, n)
  <2>1. CASE Edit
    BY <2>1 DEF Edit
  <2>2. CASE ~Edit
    BY <2>2 DEF Next, vars, project, Resumed, resumed, ApplyEffects, ReloadViews, Reconfigure, ShellEvent,
           ExitEvent, UserCloses, CloseRequested, Moved, MonitorsChange, Serve, process_response,
           SystemEvent, WorkerFails, Poll, Restart, Validate, Prepare, Stage, Swap, Agent, Notify
  <2>. QED
    BY <2>1, <2>2
<1>2. ASSUME NEW n \in Names, source' = Append(source, n)
      PROVE  source'[v] = source[v]
  BY <1>2, Appended DEF Shapes
<1>3. source'[v] = source[v]
  BY <1>1, <1>2
<1>. QED
  BY <1>3 DEF Declared

\* Every action keeps the agent of the application in step with the gateway.
LEMMA NextAgentMatches == IInv /\ [Next]_vars => AgentMatches'
<1>. SUFFICES ASSUME IInv, [Next]_vars
              PROVE  AgentMatches'
  OBVIOUS
<1>. USE DEF IInv
<1>1. 1 \in 1..Len(source) /\ gateway \in 1..Len(source) /\ watcher.boot \in 1..Len(source)
  BY DEF Shapes
<1>2. \A v \in 1..Len(source) : Declared(v)' = Declared(v)
  BY DeclaredStays
<1>3. application_id' = application_id
  BY <1>1, <1>2 DEF application_id
<1>4. ASSUME watcher.pc # "agent", UNCHANGED gateway, agents' \subseteq agents
      PROVE  AgentMatches'
  BY <1>1, <1>2, <1>3, <1>4 DEF AgentMatches
<1>5. CASE Swap
  BY <1>5 DEF Swap, AgentMatches, Shapes
<1>6. CASE Agent
  <2>1. /\ gateway' = gateway /\ gateway = watcher.boot
        /\ ~Declared(watcher.boot).agent => agents' = agents \ {Declared(watcher.boot).identifier}
    BY <1>6 DEF Agent, CatchesUp
  <2>. QED
    BY <1>1, <1>2, <1>3, <2>1 DEF AgentMatches
\* The steps that leave gateway and agents alone.
<1>7. ASSUME UNCHANGED <<gateway, agents>>, watcher'.pc # "agent" => watcher.pc # "agent"
      PROVE  AgentMatches'
  BY <1>4, <1>7 DEF AgentMatches
<1>8. CASE Resumed \/ ReloadViews \/ Reconfigure \/ ShellEvent \/ CloseRequested \/ Moved
           \/ MonitorsChange \/ \E w \in DOMAIN windows : UserCloses(w)
  BY <1>7, <1>8 DEF Resumed, resumed, ReloadViews, Reconfigure, ShellEvent, CloseRequested, Moved,
         MonitorsChange, UserCloses, served
<1>9. CASE Serve \/ process_response \/ SystemEvent \/ WorkerFails \/ Edit
  BY <1>7, <1>9 DEF Serve, process_response, SystemEvent, WorkerFails, Edit, served
<1>10. CASE Poll \/ Restart \/ Validate \/ Prepare \/ Notify
  BY <1>7, <1>10 DEF Poll, Restart, Validate, Prepare, Stage, Notify, served
<1>11. CASE ApplyEffects \/ ExitEvent
  <2>1. UNCHANGED <<watcher, gateway>> /\ agents' \subseteq agents
    <3>1. CASE ExitEvent
      BY <3>1 DEF ExitEvent, quit
    <3>2. CASE ApplyEffects
      BY <3>2 DEF ApplyEffects, apply_effect, quit
    <3>. QED
      BY <1>11, <3>1, <3>2
  <2>. QED
    BY <1>4, <2>1 DEF AgentMatches
<1>12. CASE UNCHANGED vars
  BY <1>7, <1>12 DEF vars
<1>. QED
  BY <1>5, <1>6, <1>8, <1>9, <1>10, <1>11, <1>12 DEF Next

\* Every action keeps the main window reachable or wanted hidden.
LEMMA NextMainWindow == IInv /\ [Next]_vars => MainWindow'
<1>. SUFFICES ASSUME IInv, [Next]_vars
              PROVE  MainWindow'
  OBVIOUS
<1>. USE DEF IInv
\* The services of the profile stay with the version the host runs.
<1>1. UNCHANGED host => keep_alive_without_windows' = keep_alive_without_windows
  <2>1. host \in 1..Len(source)
    BY DEF Shapes
  <2>2. UNCHANGED host => Declared(host)' = Declared(host)
    <3>1. source'[host] = source[host] \/ Profile[source'[host]] = Profile[source[host]]
      BY <2>1, DeclaredStays DEF Declared
    <3>. QED
      BY <3>1 DEF Declared
  <2>. QED
    BY <2>2 DEF keep_alive_without_windows
<1>2. ASSUME UNCHANGED <<host, shell, windows>>
      PROVE  MainWindow'
  BY <1>1, <1>2 DEF MainWindow
<1>3. ASSUME NEW v \in 1..Len(source)
      PROVE  Prepared(v).close = "Hide" => Prepared(v).tray # "none"
  BY DEF Prepared, PlatformTray
\* Windows that were just created are not hidden by the user.
<1>4. ASSUME NEW v, NEW bad, configure(v, bad)
      PROVE  ~(Main \in DOMAIN windows' /\ windows'[Main].shows = "user")
  <2>1. PICK open, shown : windows' = [w \in open |-> [shows |-> IF w \in shown THEN "yes" ELSE "profile",
                                                    gen |-> gen + 1]]
    BY <1>4 DEF configure
  <2>. QED
    BY <2>1
<1>5. CASE Resumed
  <2>1. /\ UNCHANGED host
        /\ \/ UNCHANGED <<shell, windows>>
           \/ shell' = Prepared(1) /\ \E bad : configure(1, bad)
    BY <1>5 DEF Resumed, resumed
  <2>2. 1 \in 1..Len(source)
    BY DEF Shapes
  <2>. QED
    BY <1>2, <1>3, <1>4, <2>1, <2>2 DEF MainWindow
<1>6. CASE Reconfigure
  <2>1. /\ shell' \in {NoShell, Prepared(Head(queue).version)}
        /\ \E bad : configure(Head(queue).version, bad)
        /\ queue # <<>> /\ Head(queue).kind = "reconfigure"
    BY <1>6 DEF Reconfigure, Take
  <2>2. Head(queue).version \in 1..Len(source)
    BY <2>1, Taken DEF Shapes
  <2>. QED
    BY <1>3, <1>4, <2>1, <2>2 DEF MainWindow, NoShell
\* A window that is hidden or shown: the others stay as they are.
<1>7. ASSUME NEW w \in DOMAIN windows, NEW why, Hide(w, why), UNCHANGED <<host, shell>>,
             w = Main /\ why = "user" => shell.close = "Hide" \/ keep_alive_without_windows
      PROVE  MainWindow'
  <2>1. /\ DOMAIN windows' = DOMAIN windows
        /\ w # Main /\ Main \in DOMAIN windows => windows'[Main] = windows[Main]
        /\ windows'[w].shows = why
    BY <1>7 DEF Hide, Shown
  <2>. QED
    BY <1>1, <1>7, <2>1 DEF MainWindow
<1>8. CASE CloseRequested
  <2>1. UNCHANGED <<host, shell>>
    BY <1>8 DEF CloseRequested
  <2>2. PICK c : close_requested(c)
    BY <1>8 DEF CloseRequested
  <2>3. \/ UNCHANGED windows
        \/ /\ Hide(c.window, "user") /\ c.window \in DOMAIN windows
           /\ c.window = Main => shell.close = "Hide" \/ keep_alive_without_windows
    BY <2>2 DEF close_requested, IsOpen
  <2>. QED
    BY <1>2, <1>7, <2>1, <2>3
<1>9. CASE ApplyEffects
  <2>. DEFINE e == Head(queue).effect
  <2>1. /\ UNCHANGED host
        /\ queue # <<>> /\ Head(queue).kind = "effects" /\ apply_effect(e)
    BY <1>9 DEF ApplyEffects, Take
  <2>2. e \in Orders
    BY <2>1, Taken DEF Shapes, Events
  <2>. HIDE DEF e
  <2>3. CASE ShellEffect(e)
    <3>1. UNCHANGED windows /\ shell'.close = shell.close /\ (shell.tray # "none" => shell'.tray # "none")
      BY <2>1, <2>3 DEF apply_effect, Shown
    <3>. QED
      BY <1>1, <2>1, <3>1 DEF MainWindow
  <2>4. CASE e.kind = "quit"
    BY <1>2, <2>1, <2>4 DEF apply_effect, ShellEffect, quit
  <2>5. CASE ~ShellEffect(e) /\ e.kind # "quit"
    <3>1. WindowEffect(e) /\ UNCHANGED shell
      BY <2>1, <2>5 DEF apply_effect
    <3>2. e.kind \in {"hide", "show", "close"}
      BY <2>2, <2>5 DEF Orders, ShellEffect
    <3>3. \/ UNCHANGED windows
          \/ /\ e.window \in DOMAIN windows
             /\ \/ Hide(e.window, "effect") \/ Hide(e.window, "yes")
                \/ Hide(e.window, "user") /\ keep_alive_without_windows
          \/ windows' = [v \in DOMAIN windows \ {e.window} |-> windows[v]]
      BY <3>1, <3>2 DEF WindowEffect, CloseWindow
    <3>4. CASE windows' = [v \in DOMAIN windows \ {e.window} |-> windows[v]]
      BY <1>1, <2>1, <3>1, <3>4 DEF MainWindow
    <3>. QED
      BY <1>2, <1>7, <2>1, <3>1, <3>3, <3>4
  <2>. QED
    BY <2>3, <2>4, <2>5
<1>10. CASE ReloadViews \/ ShellEvent \/ ExitEvent \/ \E w \in DOMAIN windows : UserCloses(w)
  BY <1>2, <1>10 DEF ReloadViews, ShellEvent, ExitEvent, UserCloses, quit, loop
<1>11. CASE Moved \/ MonitorsChange \/ Serve \/ process_response \/ SystemEvent \/ WorkerFails
  BY <1>2, <1>11 DEF Moved, MonitorsChange, Serve, process_response, SystemEvent, WorkerFails, loop
<1>12. CASE Edit \/ Poll \/ Restart \/ Validate \/ Prepare \/ Swap \/ Agent \/ Notify
  BY <1>2, <1>12 DEF Edit, Poll, Restart, Validate, Prepare, Stage, Swap, Agent, Notify, loop
<1>13. CASE UNCHANGED vars
  BY <1>2, <1>13 DEF vars
<1>. QED
  BY <1>5, <1>6, <1>8, <1>9, <1>10, <1>11, <1>12, <1>13 DEF Next

LEMMA AlwaysIInv == Spec => []IInv
<1>1. IInv /\ [Next]_vars => IInv'
  BY NextShapes, NextShown, NextCatchesUp, NextInformed, NextAgentMatches, NextMainWindow DEF IInv
<1>. QED
  BY <1>1, InitIInv, PTL DEF Spec

-----------------------------------------------------------------------------
\* No edit is lost between the watcher's thread and the event loop: when the
\* watcher has nothing new and the queue is empty, gateway, windows and worker
\* come from the project as it is on disk, unless the last reload failed
\* (gateway.rs reload, watcher.rs start), for any profiles and any number of
\* edits, requests, worker deaths and failures.
THEOREM EditsReachTheWindows == Spec => []ReloadConverges
<1>1. IInv => ReloadConverges
  <2>. SUFFICES ASSUME IInv, Quiet, ~watcher.failed
                PROVE  gateway = Latest /\ host = Latest /\ worker \in {0, Latest}
    BY DEF ReloadConverges
  <2>1. watcher.pc = "sleep" /\ watcher.seen.run = Latest /\ Len(queue) = 0
    BY DEF Quiet, snapshot
  <2>2. Latest <= gateway /\ (worker = 0 \/ Latest <= worker)
    BY <2>1 DEF IInv, CatchesUp
  <2>3. gateway = Latest /\ worker \in {0, Latest}
    BY <2>2 DEF IInv, Shapes, Latest
  <2>4. Told(queue, host, gateway)
    BY <2>1 DEF IInv, Informed
  <2>. QED
    BY <2>1, <2>3, <2>4 DEF Told
<1>. QED
  BY <1>1, AlwaysIInv, PTL

\* Closing windows never strands the host (servo_engine.rs close_requested and
\* the Close effect): with its main window open and none shown, there is a
\* tray, a service or a wish of the application, for any profiles, windows and
\* order of closes, effects and reloads.
THEOREM NeverStranded == Spec => []ClosedHasWayBack
<1>1. IInv => ClosedHasWayBack
  BY DEF IInv, Shown, MainWindow, ClosedHasWayBack
<1>. QED
  BY <1>1, AlwaysIInv, PTL

\* A quit with no reload on its way stops the agent the host was started with,
\* or the application has another identifier by now (apply_effects and
\* HostEvent::Exit), for any order of reloads, failed agent starts and quits.
THEOREM QuitLeavesNoAgent == Spec => QuitStopsAgent
<1>. DEFINE Stops == phase = "running" /\ phase' = "exited" /\ cause' = "quit" /\ ~ReloadOnItsWay
                        => application_id \notin agents'
                           \/ Declared(gateway).identifier # application_id
<1>1. IInv /\ [Next]_vars => Stops
  <2>. SUFFICES ASSUME IInv, [Next]_vars, phase = "running", phase' = "exited", cause' = "quit",
                       ~ReloadOnItsWay, Declared(gateway).identifier = application_id
                PROVE  application_id \notin agents'
    OBVIOUS
  <2>1. watcher.pc = "sleep" /\ \A i \in 1..Len(queue) : queue[i].kind # "reconfigure"
    BY DEF ReloadOnItsWay, IInv, Shapes
  <2>2. host = gateway
    BY <2>1 DEF IInv, Informed, Told
  <2>3. ~Declared(gateway).agent => application_id \notin agents
    BY <2>1 DEF IInv, AgentMatches
  <2>4. CASE quit
    BY <2>2, <2>3, <2>4 DEF quit
  <2>5. CASE ApplyEffects
    <3>. DEFINE e == Head(queue).effect
    <3>1. queue # <<>> /\ Head(queue).kind = "effects" /\ apply_effect(e)
      BY <2>5 DEF ApplyEffects, Take
    <3>2. e \in Orders
      BY <3>1, Taken DEF IInv, Shapes, Events
    <3>. HIDE DEF e
    <3>3. CASE e.kind = "quit"
      BY <2>4, <3>1, <3>3 DEF apply_effect, ShellEffect
    <3>4. CASE e.kind # "quit"
      <4>1. UNCHANGED phase \/ cause' = "closed"
        <5>1. CASE ShellEffect(e)
          BY <3>1, <5>1 DEF apply_effect
        <5>2. CASE ~ShellEffect(e)
          <6>1. WindowEffect(e) /\ e.kind \in {"hide", "show", "close"}
            BY <3>1, <3>2, <3>4, <5>2 DEF apply_effect, Orders, ShellEffect
          <6>. QED
            BY <6>1 DEF WindowEffect, CloseWindow, Exit
        <5>. QED
          BY <5>1, <5>2
      <4>. QED
        BY <4>1
    <3>. QED
      BY <3>3, <3>4
  <2>6. CASE ExitEvent
    BY <2>4, <2>6 DEF ExitEvent
  <2>7. CASE CloseRequested
    <3>1. UNCHANGED phase \/ cause' = "closed"
      BY <2>7 DEF CloseRequested, close_requested, Exit
    <3>. QED
      BY <3>1
  <2>8. CASE Resumed
    BY <2>8 DEF Resumed, resumed
  \* No other step ends the event loop.
  <2>9. CASE UNCHANGED phase
    BY <2>9
  <2>10. CASE ReloadViews \/ Reconfigure \/ ShellEvent \/ \E w \in DOMAIN windows : UserCloses(w)
    BY <2>9, <2>10 DEF ReloadViews, Reconfigure, ShellEvent, UserCloses, loop
  <2>11. CASE Moved \/ MonitorsChange \/ Serve \/ process_response \/ SystemEvent \/ WorkerFails
    BY <2>9, <2>11 DEF Moved, MonitorsChange, Serve, process_response, SystemEvent, WorkerFails, loop
  <2>12. CASE Edit \/ Poll \/ Restart \/ Validate \/ Prepare \/ Swap \/ Agent \/ Notify
    BY <2>9, <2>12 DEF Edit, Poll, Restart, Validate, Prepare, Stage, Swap, Agent, Notify, loop
  <2>13. CASE UNCHANGED vars
    BY <2>9, <2>13 DEF vars
  <2>. QED
    BY <2>5, <2>6, <2>7, <2>8, <2>10, <2>11, <2>12, <2>13 DEF Next
<1>2. IInv /\ [Next]_vars => [Stops]_vars
  BY <1>1
<1>. HIDE DEF Stops
<1>3. Spec => [][Stops]_vars
  BY <1>2, AlwaysIInv, PTL DEF Spec
<1>. QED
  BY <1>3 DEF QuitStopsAgent, Stops
=============================================================================
