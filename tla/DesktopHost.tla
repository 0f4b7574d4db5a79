----------------------------- MODULE DesktopHost -----------------------------
(***************************************************************************)
(* The windows of the host and the hot reload that replaces them: the      *)
(* winit event loop of servo_engine.rs (windows, native shell, effects,    *)
(* close requests), the project watcher of watcher.rs, and the reload the  *)
(* watcher's thread runs in gateway.rs.  The event loop, the watcher and   *)
(* the gateway's request threads run side by side; what the other two send *)
(* to the event loop goes through its queue of HostEvents.                 *)
(*                                                                         *)
(* The runtime files of the project are numbered by edit: version v of the *)
(* project declares the profile source[v].  A profile holds what the       *)
(* bootstrap says about windows, tray and background services; titles,     *)
(* sizes, menus and decorations change nothing that is stated here.        *)
(***************************************************************************)
EXTENDS WindowState, FiniteSets, Sequences, SequencesExt

CONSTANTS
    Profile,        \* name of a profile -> what its bootstrap declares
    Starts,         \* the profiles the project may start with
    Main,           \* MAIN_WINDOW_ID
    NoParent,
    Displays,       \* the lists of monitors that may be connected
    Places,         \* where on a monitor a user may move the main window
    MaxMoves,       \* edits, requests, closes, moves and events together
    MaxFaults       \* steps of the host that fail

Names == DOMAIN Profile
WindowIds == UNION {{Profile[n].order[i] : i \in DOMAIN Profile[n].order} : n \in Names}

ASSUME ProfileAssumption ==
    /\ Starts \subseteq Names
    /\ \A n \in Names : LET p == Profile[n] IN
        /\ p.order \in Seq(WindowIds) /\ Main \in Range(p.order)
        /\ p.parent \in [Range(p.order) -> Range(p.order) \cup {NoParent}]
        /\ p.shown \subseteq Range(p.order)
        /\ p.tray \in {"none", "Exit", "Hide"}
        /\ {p.persistent, p.agent, p.restore, p.remember} \subseteq BOOLEAN
    /\ \A d \in Displays : d \in Seq([name : STRING, x : Int, y : Int, w : Nat, h : Nat, scale : Nat])

\* Monitors as a window system reports them, and where windows are on them.
ASSUME GeometryOfDisplays ==
    /\ \A d \in Displays : \A i \in 1..Len(d) : Fits(d[i])
    /\ \A g \in Places : g.x \in Int /\ g.y \in Int /\ g.w \in Nat /\ g.h \in Nat

VARIABLES
    source,     \* the profile declared by each version of the runtime files
    assets,     \* the version of the files under resources/
    watcher,    \* the watcher's thread: what it last saw, and its reload
    worker,     \* the version the PHP worker booted from, 0 when there is none
    gateway,    \* the version of the bootstrap the gateway serves
    agents,     \* the identifiers a background agent runs for
    answers,    \* responses with effects, in the hands of request threads
    queue,      \* the HostEvents waiting for the event loop
    phase,      \* "initial", "running" or "exited"
    cause,      \* why the event loop exited
    host,       \* the version the event loop is configured from
    shell,      \* the native shell: its tray and its close behaviour
    windows,    \* the open windows by identifier
    gen,        \* how many times configure ran
    closes,     \* CloseRequested events on their way
    displays,   \* the connected monitors, the primary one first
    place,      \* where the main window is
    saved,      \* what window_states holds for the main window
    left        \* the moves of the environment and the faults still to come

vars == <<source, assets, watcher, worker, gateway, agents, answers, queue, phase, cause,
          host, shell, windows, gen, closes, displays, place, saved, left>>
project == <<source, assets>>
served == <<worker, gateway, agents>>
loop == <<phase, cause, host, shell, windows, gen, displays, place, saved>>

None == [none |-> TRUE]
NoShell == [tray |-> "none", close |-> "Exit"]
Latest == Len(source)
Declared(v) == Profile[source[v]]

\* AppState keeps the identifier of the bootstrap the host started with.
application_id == Declared(1).identifier

\* A move of the environment that is counted.
Use(kind) == left[kind] > 0 /\ left' = [left EXCEPT ![kind] = @ - 1]
Keep == UNCHANGED left

Init ==
    /\ source \in {<<n>> : n \in Starts} /\ assets = 1
    /\ watcher = [pc |-> "sleep", seen |-> [run |-> 1, assets |-> 1],
                  snap |-> [run |-> 1, assets |-> 1], boot |-> 1, failed |-> FALSE]
    /\ worker = 1 /\ gateway = 1
    /\ agents = IF Declared(1).agent THEN {application_id} ELSE {}
    /\ answers = {} /\ queue = <<>>
    /\ phase = "initial" /\ cause = "none" /\ host = 1
    /\ shell = NoShell /\ windows = <<>> /\ gen = 0 /\ closes = {}
    /\ displays \in Displays /\ place = None /\ saved = None
    /\ left = [move |-> MaxMoves, fault |-> MaxFaults]

-----------------------------------------------------------------------------
(* The windows. *)

\* One pass of configure over its pending windows: those whose parent is not
\* open yet wait, and a window that cannot be created stays pending while the
\* pass goes on with the others.
Pass(p, open, bad) ==
    FoldLeft(LAMBDA acc, w : IF w \in acc \/ w \in bad THEN acc
                             ELSE IF p.parent[w] = NoParent \/ p.parent[w] \in acc
                             THEN acc \cup {w} ELSE acc, open, p.order)

\* The windows open after k passes.  A pass with a failure is the last one,
\* and so is one that opens nothing.
Opened(p, bad) ==
    LET after[k \in 0..Len(p.order)] ==
            IF k = 0 THEN {}
            ELSE LET open == after[k-1]
                     met == {w \in bad : p.parent[w] = NoParent \/ p.parent[w] \in open}
                 IN  IF k > 1 /\ met # {} THEN open ELSE Pass(p, open, bad)
    IN  after[Len(p.order)]

\* restore for the main window, at its creation.
Restored(p) ==
    IF p.restore /\ saved # None /\ displays # <<>>
    THEN remap(saved, HomeMonitor(saved, displays, p.remember)) ELSE None

\* configure with the windows of version v, of which bad cannot be created:
\* the previous windows are dropped first, whatever happens after.
configure(v, bad) ==
    LET p == Declared(v)
        open == Opened(p, bad)
    IN  /\ windows' = [w \in open |-> [shows |-> IF w \in p.shown THEN "yes" ELSE "profile",
                                       gen |-> gen + 1]]
        /\ gen' = gen + 1
        /\ place' = IF Main \in open THEN Restored(p) ELSE None

\* The tray of a profile that declares one starts shown.
PlatformTray(p) == IF p.tray = "none" THEN "none" ELSE "shown"

\* NativeShell::prepare
Prepared(v) ==
    LET p == Declared(v)
    IN  [tray |-> PlatformTray(p), close |-> IF p.tray = "none" THEN "Exit" ELSE p.tray]

\* A step that can fail: the set of windows that cannot be created, empty
\* while nothing fails.
Failing(v) ==
    {{}} \cup (IF left.fault > 0 THEN {{w} : w \in Range(Declared(v).order)} ELSE {})

Charge(faulty) == left' = IF faulty THEN [left EXCEPT !.fault = @ - 1] ELSE left

\* resumed: shell, window states and windows, or the host exits.
resumed(fails) ==
    /\ phase = "initial"
    /\ \E bad \in Failing(1) :
        /\ fails => bad = {}
        /\ Charge(fails \/ bad # {})
        /\ IF fails THEN phase' = "exited" /\ cause' = "startup" /\ UNCHANGED <<shell, windows, gen, place>>
           ELSE /\ shell' = Prepared(1)
                /\ configure(1, bad)
                /\ IF Opened(Declared(1), bad) = Range(Declared(1).order)
                   THEN phase' = "running" /\ UNCHANGED cause
                   ELSE phase' = "exited" /\ cause' = "startup"
    /\ fails => left.fault > 0
    /\ UNCHANGED <<project, watcher, served, answers, queue, host, closes, displays, saved>>

Resumed == \E fails \in BOOLEAN : resumed(fails)

\* keep_alive_without_windows
keep_alive_without_windows == Declared(host).persistent /\ ~Declared(host).agent

Exit(why) == phase' = "exited" /\ cause' = why

Hide(w, why) == windows' = [windows EXCEPT ![w].shows = why]

quit_of_the_start ==
    /\ agents' = IF Declared(1).agent THEN agents \ {application_id} ELSE agents
    /\ Exit("quit")
    /\ UNCHANGED <<shell, windows>>

\* HostEvent::Exit and the QuitApplication effect stop the background agent of
\* the identifier the host started with.
quit ==
    /\ agents' = IF Declared(host).agent THEN agents \ {application_id} ELSE agents
    /\ Exit("quit")
    /\ UNCHANGED <<shell, windows>>

\* apply_effects, one effect: the native shell first, then the application,
\* then the window the effect names; an effect for a window that is not open
\* is ignored.
ShellEffect(e) == e.kind \in {"trayHide", "trayShow"}

CloseWindow(w) ==
    LET last == w = Main \/ Cardinality(DOMAIN windows) = 1
    IN  IF last /\ keep_alive_without_windows THEN Hide(w, "user") /\ UNCHANGED <<phase, cause>>
        ELSE IF last THEN Exit("closed") /\ UNCHANGED windows
        ELSE /\ windows' = [v \in DOMAIN windows \ {w} |-> windows[v]]
             /\ UNCHANGED <<phase, cause>>

WindowEffect(e) ==
    IF e.window \notin DOMAIN windows THEN UNCHANGED <<windows, phase, cause>>
    ELSE CASE e.kind = "hide" -> Hide(e.window, "effect") /\ UNCHANGED <<phase, cause>>
           [] e.kind \in {"show", "focus"} -> Hide(e.window, "yes") /\ UNCHANGED <<phase, cause>>
           [] e.kind = "close" -> CloseWindow(e.window)

apply_effect(e) ==
    IF ShellEffect(e)
    THEN /\ shell' = IF shell.tray = "none" THEN shell
                     ELSE [shell EXCEPT !.tray = IF e.kind = "trayHide" THEN "hidden" ELSE "shown"]
         /\ UNCHANGED <<windows, phase, cause, agents>>
    ELSE IF e.kind = "quit" THEN quit
    ELSE WindowEffect(e) /\ UNCHANGED <<shell, agents>>

-----------------------------------------------------------------------------
(* The event loop: HostEvents from the queue, window events from the system. *)

Take(kind) == phase = "running" /\ queue # <<>> /\ Head(queue).kind = kind /\ queue' = Tail(queue)

ApplyEffects ==
    /\ Take("effects")
    /\ apply_effect(Head(queue).effect)
    /\ UNCHANGED <<project, watcher, worker, gateway, answers, host, gen, closes, displays, place, saved, left>>

\* reload_views: every page is loaded again, which moves no window.
ReloadViews ==
    /\ Take("views")
    /\ UNCHANGED <<project, watcher, served, answers, loop, closes, left>>

\* Reconfigure: the workstation first, then an empty shell in place of the old
\* one, then the new shell, then the windows.  A shell that cannot be prepared
\* and windows that cannot be created are reported and leave the host running.
Reconfigure ==
    /\ Take("reconfigure")
    /\ \E bad \in Failing(Head(queue).version), noShell \in BOOLEAN :
        LET v == Head(queue).version IN
        /\ noShell => bad = {} /\ left.fault > 0
        /\ Charge(noShell \/ bad # {})
        /\ host' = v
        /\ shell' = IF noShell THEN NoShell ELSE Prepared(v)
        /\ configure(v, bad)
    /\ UNCHANGED <<project, watcher, served, answers, phase, cause, closes, displays, saved>>

\* A tray activation or a menu item reaches PHP, on a thread of its own, and
\* may come back with an effect.
ShellEvent ==
    /\ Take("shell")
    /\ UNCHANGED <<project, watcher, served, answers, loop, closes, left>>

\* HostEvent::Exit, sent once an update has been staged.
ExitEvent ==
    /\ Take("exit")
    /\ quit
    /\ UNCHANGED <<project, watcher, worker, gateway, answers, host, gen, closes, displays, place, saved, left>>

\* The user closes a window that is shown; the event names the native window,
\* which a reload may have dropped when it is handled.
UserCloses(w) ==
    /\ phase = "running" /\ windows[w].shows = "yes"
    /\ [window |-> w, gen |-> windows[w].gen] \notin closes
    /\ closes' = closes \cup {[window |-> w, gen |-> windows[w].gen]}
    /\ Use("move")
    /\ UNCHANGED <<project, watcher, served, answers, queue, loop>>

IsOpen(c) == c.window \in DOMAIN windows /\ windows[c.window].gen = c.gen

\* record_window_state for the main window, on a move and before a close.
record_window_state == IF Declared(host).restore /\ place # None
                       THEN LET i == CHOOSE i \in DOMAIN displays : displays[i].name = place.monitor
                            IN  record(displays[i], place.x, place.y, place.w, place.h)
                       ELSE saved

\* A window that has a monitor: current_monitor is not None.
OnMonitor == place # None /\ \E i \in DOMAIN displays : displays[i].name = place.monitor

close_requested_hides(c) ==
    IF ~IsOpen(c) \/ Cardinality(DOMAIN windows) = 1 THEN Exit("closed") /\ UNCHANGED windows
    ELSE Hide(c.window, "user") /\ UNCHANGED <<phase, cause>>

\* close_requested: the main window is hidden when a tray or the persistent
\* services keep the host; otherwise the main window, the only window or a
\* window that is no longer open ends the application, and another one is
\* hidden.
close_requested(c) ==
    LET main == c.window = Main
        stays == shell.close = "Hide" \/ keep_alive_without_windows
    IN  IF IsOpen(c) /\ main /\ stays THEN Hide(c.window, "user") /\ UNCHANGED <<phase, cause>>
        ELSE IF ~IsOpen(c) \/ main \/ Cardinality(DOMAIN windows) = 1
        THEN Exit("closed") /\ UNCHANGED windows
        ELSE Hide(c.window, "user") /\ UNCHANGED <<phase, cause>>

CloseRequested ==
    /\ phase = "running"
    /\ \E c \in closes :
        /\ closes' = closes \ {c}
        /\ saved' = IF IsOpen(c) /\ c.window = Main /\ OnMonitor THEN record_window_state ELSE saved
        /\ close_requested(c)
    /\ UNCHANGED <<project, watcher, served, answers, queue, host, shell, gen, displays, place, left>>

\* The user moves the main window; a Moved event records it.
Moved ==
    /\ phase = "running" /\ Main \in DOMAIN windows /\ windows[Main].shows = "yes"
    /\ \E g \in Places : \E i \in DOMAIN displays :
        LET m == displays[i] IN
        /\ place' = [monitor |-> m.name, x |-> m.x + g.x, y |-> m.y + g.y, w |-> g.w, h |-> g.h]
        /\ saved' = IF Declared(host).restore
                    THEN record(m, m.x + g.x, m.y + g.y, g.w, g.h) ELSE saved
    /\ Use("move")
    /\ UNCHANGED <<project, watcher, served, answers, queue, phase, cause, host, shell, windows,
                   gen, closes, displays>>

\* Monitors come and go; the window system moves what it shows itself.
MonitorsChange ==
    /\ phase = "running"
    /\ displays' \in Displays \ {displays}
    /\ place' = None
    /\ Use("move")
    /\ UNCHANGED <<project, watcher, served, answers, queue, phase, cause, host, shell, windows,
                   gen, closes, saved>>

-----------------------------------------------------------------------------
(* Requests of the pages, native events and background jobs. *)

\* A request of the supervisor: a missing worker is started from the project
\* as it is on disk.
Effects(v) ==
    [kind : {"hide", "show", "close"}, window : Range(Declared(v).order)]
        \cup [kind : {"quit", "trayHide"}, window : {Main}]

Serve ==
    /\ phase = "running"
    /\ worker' = IF worker = 0 THEN Latest ELSE worker
    /\ \E e \in Effects(worker') : answers' = answers \cup {e}
    /\ Use("move")
    /\ UNCHANGED <<project, watcher, gateway, agents, queue, loop, closes>>

\* process_response hands the effects to the event loop.
process_response ==
    /\ \E e \in answers :
        /\ answers' = answers \ {e}
        /\ queue' = Append(queue, [kind |-> "effects", effect |-> e])
    /\ phase = "running"
    /\ UNCHANGED <<project, watcher, served, loop, closes, left>>

\* A tray activation, and the event sent after an update was staged.
SystemEvent ==
    /\ phase = "running"
    /\ \/ shell.tray = "shown" /\ queue' = Append(queue, [kind |-> "shell"])
       \/ queue' = Append(queue, [kind |-> "exit"])
    /\ Use("move")
    /\ UNCHANGED <<project, watcher, served, answers, loop, closes>>

\* The worker dies or times out: request takes it and starts another one, from
\* the project as it is on disk, or leaves none.
WorkerFails ==
    /\ phase = "running" /\ worker # 0
    /\ worker' \in {0, Latest}
    /\ Use("fault")
    /\ UNCHANGED <<project, watcher, gateway, agents, answers, queue, loop, closes>>

-----------------------------------------------------------------------------
(* The watcher and its reload, on one thread. *)

Edit ==
    /\ phase = "running"
    /\ \/ \E n \in Names : source' = Append(source, n) /\ UNCHANGED assets
       \/ assets' = assets + 1 /\ UNCHANGED source
    /\ Use("move")
    /\ UNCHANGED <<watcher, served, answers, queue, loop, closes>>

snapshot == [run |-> Latest, assets |-> assets]

\* changed_kind
changed_kind(previous, current) ==
    IF current.run # previous.run THEN "Runtime"
    ELSE IF current.assets # previous.assets THEN "Assets" ELSE "none"

Remembered_after(current) == snapshot

\* What the thread remembers once on_change has returned: the snapshot taken
\* before it, so that a change made during the reload is still a change.
Remembered(current) == current

Finished(w, failed) == [w EXCEPT !.pc = "sleep", !.seen = Remembered(w.snap), !.failed = failed]

Poll ==
    /\ phase = "running" /\ watcher.pc = "sleep"
    /\ LET kind == changed_kind(watcher.seen, snapshot) IN
        /\ kind # "none"
        /\ IF kind = "Assets"
           THEN /\ queue' = Append(queue, [kind |-> "views"])
                /\ watcher' = Finished([watcher EXCEPT !.snap = snapshot], watcher.failed)
           ELSE /\ watcher' = [watcher EXCEPT !.pc = "restart", !.snap = snapshot]
                /\ UNCHANGED queue
    /\ Keep /\ UNCHANGED <<project, served, answers, loop, closes>>

\* reload: the supervisor's worker is replaced before anything is validated.
Restart ==
    /\ watcher.pc = "restart"
    /\ \/ /\ worker' = Latest
          /\ watcher' = [watcher EXCEPT !.pc = "validate", !.boot = Latest]
          /\ Keep
       \/ /\ worker' = 0
          /\ watcher' = Finished(watcher, TRUE)
          /\ Use("fault")
    /\ UNCHANGED <<project, gateway, agents, answers, queue, loop, closes>>

\* A step of the reload whose failure ends it.
Stage(from, to) ==
    /\ watcher.pc = from
    /\ \/ watcher' = [watcher EXCEPT !.pc = to] /\ Keep
       \/ watcher' = Finished(watcher, TRUE) /\ Use("fault")
    /\ UNCHANGED <<project, served, answers, queue, loop, closes>>

\* validate_bootstrap looks for the entries, the icon and the plugins' files,
Validate == Stage("validate", "prepare")

\* then the native services, the plugins and the worker pool are prepared.
Prepare == Stage("prepare", "swap")

\* finish_runtime_reload: services and bootstrap are replaced,
Swap ==
    /\ watcher.pc = "swap"
    /\ gateway' = watcher.boot
    /\ watcher' = [watcher EXCEPT !.pc = "agent"]
    /\ Keep /\ UNCHANGED <<project, worker, agents, answers, queue, loop, closes>>

\* the agent is started or stopped, a failure being reported only,
Agent ==
    /\ watcher.pc = "agent"
    /\ LET p == Declared(watcher.boot) IN
        IF p.agent
        THEN \/ agents' = agents \cup {p.identifier} /\ Keep
             \/ agents' = agents /\ Use("fault")
        ELSE agents' = agents \ {p.identifier} /\ Keep
    /\ watcher' = [watcher EXCEPT !.pc = "notify"]
    /\ UNCHANGED <<project, worker, gateway, answers, queue, loop, closes>>

\* and the event loop is told.
Notify ==
    /\ watcher.pc = "notify"
    /\ queue' = Append(queue, [kind |-> "reconfigure", version |-> watcher.boot])
    /\ watcher' = Finished(watcher, FALSE)
    /\ Keep /\ UNCHANGED <<project, served, answers, loop, closes>>

-----------------------------------------------------------------------------
Next ==
    \/ Resumed \/ ApplyEffects \/ ReloadViews \/ Reconfigure \/ ShellEvent \/ ExitEvent
    \/ \E w \in DOMAIN windows : UserCloses(w)
    \/ CloseRequested \/ Moved \/ MonitorsChange
    \/ Serve \/ process_response \/ SystemEvent \/ WorkerFails
    \/ Edit \/ Poll \/ Restart \/ Validate \/ Prepare \/ Swap \/ Agent \/ Notify

Spec == Init /\ [][Next]_vars

-----------------------------------------------------------------------------
(* Properties. *)

\* The kinds of the state's parts, each open window coming from the last
\* configure.
TypeOK ==
    /\ source \in Seq(Names) /\ assets \in Nat
    /\ watcher.pc \in {"sleep", "restart", "validate", "prepare", "swap", "agent", "notify"}
    /\ worker \in 0..Latest /\ gateway \in 1..Latest /\ host \in 1..Latest
    /\ phase \in {"initial", "running", "exited"}
    /\ shell.tray \in {"none", "shown", "hidden"} /\ shell.close \in {"Exit", "Hide"}
    /\ DOMAIN windows \subseteq WindowIds
    /\ \A w \in DOMAIN windows :
        windows[w].shows \in {"yes", "profile", "effect", "user"} /\ windows[w].gen = gen

Quiet == watcher.pc = "sleep" /\ watcher.seen = snapshot /\ queue = <<>>

\* No edit is lost: once the watcher has nothing new to report and the event
\* loop has handled what it was sent, the gateway and the windows come from the
\* project as it is on disk, and so does the worker, unless the last reload
\* failed (gateway.rs reload, watcher.rs start).
ReloadConverges ==
    phase = "running" /\ Quiet /\ ~watcher.failed
        => gateway = Latest /\ host = Latest /\ worker \in {0, Latest}

\* Closing windows never strands the host: when it runs with its main window
\* open and shows none, the tray is shown, or the persistent services keep it,
\* or the application itself asked for it, by a window its profile or an effect
\* hides or by an effect that hides the tray (close_requested, CloseWindow).
ClosedHasWayBack ==
    phase = "running" /\ Main \in DOMAIN windows /\ (\A w \in DOMAIN windows : windows[w].shows # "yes")
        => \/ shell.tray # "none" /\ shell.close = "Hide"
           \/ keep_alive_without_windows
           \/ \E w \in DOMAIN windows : windows[w].shows \in {"profile", "effect"}

\* A quit stops the background agent the host was started with, unless a reload
\* is on its way: the event loop's profile then is not yet the gateway's
\* (apply_effects, HostEvent::Exit).
ReloadOnItsWay ==
    \/ watcher.pc # "sleep"
    \/ \E i \in DOMAIN queue : queue[i].kind = "reconfigure"

QuitStopsAgent ==
    [][phase = "running" /\ phase' = "exited" /\ cause' = "quit" /\ ~ReloadOnItsWay
        => application_id \notin agents'
           \/ Declared(gateway).identifier # application_id]_vars

\* Whatever monitors are connected, a main window that is created again at a
\* remembered place is in sight on one of them (window_state.rs restore).
RestoredInSight ==
    [][gen' # gen /\ place' # None
        => \E i \in DOMAIN displays : InSight(place', displays[i])]_vars

==============================================================================
