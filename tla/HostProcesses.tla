---------------------------- MODULE HostProcesses ----------------------------
(***************************************************************************)
(* The processes of one application and how they find each other: desktop   *)
(* hosts started by the user, which become the primary instance or hand     *)
(* their arguments to it (lifecycle.rs); the background agents hosts spawn, *)
(* wait for and stop (background_agent.rs); and the startup snapshot a host *)
(* uses before its PHP worker is up (startup_snapshot.rs, runtime.rs).  A   *)
(* process may be killed at any step.                                       *)
(*                                                                         *)
(* PHP boots from the sources, which the snapshot's fingerprint covers, and *)
(* from what it leaves out (vendor/, the environment).  Of the bootstrap,   *)
(* its profile matters here: "agent" (a background agent runs the jobs),    *)
(* "inproc" (the host does), "nosnapshot" (the host does, and no startup    *)
(* snapshot is kept).  Both builds of lifecycle.rs are here: "linux" binds  *)
(* a socket file, "portable" an endpoint of the system that ends with its   *)
(* owner.                                                                   *)
(***************************************************************************)
EXTENDS Naturals, FiniteSets

CONSTANTS Hosts, Agents,   \* processes the user starts; processes for `agent`
          Boots,           \* [fp, ext] -> the profile PHP boots from these inputs
          None, Failed,    \* no value; a PHP worker that did not start
          MaxEvents        \* bound: kinds of event from outside in one behaviour

Profiles == {"agent", "inproc", "nosnapshot"}

ASSUME HostAssumption ==
    /\ Hosts \cap Agents = {} /\ None \notin Hosts \cup Agents
    /\ DOMAIN Boots \subseteq [fp : Nat, ext : Nat] /\ {None, Failed} \cap DOMAIN Boots = {}
    /\ None # Failed
    /\ \A i \in DOMAIN Boots : Boots[i] \in Profiles
    /\ MaxEvents \in Nat

Procs == Hosts \cup Agents
Endpoints == {"app", "agent"}
Inputs == DOMAIN Boots

Own(p) == IF p \in Hosts THEN "app" ELSE "agent"

VARIABLES platform, \* which lifecycle module is compiled in
          project,  \* [fp, ext]: the sources, and the inputs they are not
          snapshot, \* the published snapshot: None or [fp, from]
          socket,   \* endpoint -> the process bound to its name
          guard,    \* the processes that got an InstanceGuard of their own endpoint
          listens,  \* those whose listener thread accepts
          pc,       \* process -> its next step
          fp,       \* process -> the fingerprint it took
          cached,   \* process -> the inputs its loaded snapshot was booted from
          fresh,    \* process -> the inputs its worker was booted from
          calls,    \* process -> [at, args, then]: its InstanceGuard::acquire
          peer,     \* process -> the process it connected to
          acked,    \* the callers that have been acknowledged
          serving,  \* process -> [from, args] acknowledged and not yet handled
          stopping, \* agents with a message in their stop channel
          child,    \* host -> the agent it waits for
          ready,    \* agent -> its readiness file: None, "empty", "marker"
          scheduling, \* the processes whose scheduler runs
          events    \* what has happened from outside: each kind once at most

bootvars == <<fp, cached, fresh>>
linkvars == <<calls, peer, acked>>
agentvars == <<stopping, child, ready>>
procvars == <<listens, serving, scheduling, socket>>   \* what a kill takes away
vars == <<platform, project, snapshot, bootvars, guard, linkvars, agentvars, procvars, pc,
          events>>

Steps == {"new", "boot", "decide", "poll", "status", "bind",
          "connect", "await", "recover", "rebind", "join", "start", "listen", "running",
          "replace", "services", "create", "mark", "serve", "drop", "unlink", "drain",
          "gone"}

Init ==
    /\ platform \in {"linux", "portable"}
    /\ project \in {i \in Inputs : i.ext = 0}
    /\ snapshot = None
    /\ socket = [e \in Endpoints |-> None] /\ guard = {} /\ listens = {}
    /\ pc = [p \in Procs |-> "new"]
    /\ fp = [p \in Procs |-> 0]
    /\ cached = [p \in Procs |-> None] /\ fresh = [p \in Procs |-> None]
    /\ calls = [p \in Procs |-> [at |-> Own(p), args |-> "open", then |-> "run"]]
    /\ peer = [p \in Procs |-> None] /\ serving = [p \in Procs |-> None]
    /\ acked = {} /\ stopping = {} /\ scheduling = {}
    /\ child = [h \in Hosts |-> None] /\ ready = [a \in Agents |-> None]
    /\ events = {}

Goto(p, s) == pc' = [pc EXCEPT ![p] = s]

\* A `?` that returns: the guard, if there is one, is dropped on the way out.
Leave(p) == Goto(p, IF p \in guard THEN "drop" ELSE "gone")

Alive(p) == pc[p] \notin {"new", "gone"}

\* Something from outside happens, once in a behaviour.
Happens(e) ==
    /\ e \notin events /\ Cardinality(events) < MaxEvents
    /\ events' = events \cup {e}

\* The listener of p is open.
Bound(p) == p \in guard /\ pc[p] \notin {"unlink", "drain", "gone"}

-----------------------------------------------------------------------------
\* What the fingerprint of the project's files tells apart.
project_fingerprint == project.fp

\* A snapshot is used whatever its fingerprint.
load_any(p) == IF snapshot = None THEN None ELSE snapshot.from

load(p) == IF snapshot = None THEN None
           ELSE IF snapshot.fp = project_fingerprint THEN snapshot.from ELSE None

\* prepare_interactive: a host takes the fingerprint and looks for a snapshot.
prepare_interactive(h) ==
    /\ pc[h] = "new"
    /\ fp' = [fp EXCEPT ![h] = project_fingerprint]
    /\ cached' = [cached EXCEPT ![h] = load(h)]
    /\ Goto(h, IF load(h) # None THEN "decide" ELSE "boot")
    /\ UNCHANGED <<platform, project, snapshot, fresh, guard, linkvars, agentvars, procvars,
                   events>>

\* publish: a snapshot of the fingerprint taken and the bootstrap got, in place
\* of the one before, or none when this profile keeps none.
publish(fingerprint, from) ==
    snapshot' = IF Boots[from] = "nosnapshot" THEN None
                ELSE [fp |-> fingerprint, from |-> from]

\* WorkerSupervisor::start and validate_bootstrap for a host: on its own thread,
\* and then the snapshot is published, or, beside a snapshot, on the thread
\* pam-desktop-startup-worker.
WorkerStarts(h) ==
    /\ fresh[h] = None
    /\ pc[h] = "boot" \/ (cached[h] # None /\ Alive(h))
    /\ \/ /\ fresh' = [fresh EXCEPT ![h] = project]
          /\ IF pc[h] = "boot" THEN Goto(h, "decide") /\ publish(fp[h], project)
             ELSE UNCHANGED <<pc, snapshot>>
          /\ UNCHANGED events
       \/ /\ Happens("fail")
          /\ fresh' = [fresh EXCEPT ![h] = Failed]
          /\ IF pc[h] = "boot" THEN Leave(h) ELSE UNCHANGED pc
          /\ UNCHANGED snapshot
    /\ UNCHANGED <<platform, project, fp, cached, guard, linkvars, agentvars, procvars>>

\* DesktopRuntime::prepare in an agent, which goes on if it is still wanted.
prepare(a) ==
    /\ pc[a] = "new" /\ \E h \in Hosts : child[h] = a
    /\ \/ /\ fresh' = [fresh EXCEPT ![a] = project]
          /\ publish(project_fingerprint, project)
          /\ IF Boots[project] = "agent" THEN Goto(a, "bind") ELSE Leave(a)
          /\ UNCHANGED events
       \/ /\ Happens("fail")
          /\ fresh' = [fresh EXCEPT ![a] = Failed]
          /\ Leave(a) /\ UNCHANGED snapshot
    /\ UNCHANGED <<platform, project, fp, cached, guard, linkvars, agentvars, procvars>>

\* The project changes.
Edit ==
    /\ Happens("edit")
    /\ project' \in Inputs \ {project}
    /\ UNCHANGED <<platform, snapshot, bootvars, guard, linkvars, agentvars, procvars, pc>>

-----------------------------------------------------------------------------
\* InstanceGuard::acquire at calls[p].at, with calls[p].args.
Call(p, at, args, then) ==
    calls' = [calls EXCEPT ![p] = [at |-> at, args |-> args, then |-> then]]

At(p) == calls[p].at

\* What the caller does with a guard: keep it or, in stop(), drop it at once,
\* which removes the name again.
Acquired(p) ==
    /\ socket[At(p)] = None
    /\ IF calls[p].then = "run"
       THEN /\ socket' = [socket EXCEPT ![At(p)] = p]
            /\ guard' = guard \cup {p}
            /\ Goto(p, IF p \in Agents THEN "listen"
                       ELSE IF cached[p] = None THEN "start" ELSE "join")
       ELSE Goto(p, calls[p].then) /\ UNCHANGED <<socket, guard>>

acquire(p) ==
    /\ pc[p] = "bind"
    /\ \/ Acquired(p)
       \/ /\ socket[At(p)] # None
          /\ Goto(p, "connect")
          /\ UNCHANGED <<socket, guard>>
    /\ UNCHANGED <<platform, project, snapshot, bootvars, linkvars, agentvars, listens,
                   serving, scheduling, events>>

\* A failed stop() is only logged; a failed start ends the process.
GiveUp(p) == IF calls[p].then = "run" THEN Leave(p) ELSE Goto(p, calls[p].then)

\* A failed forward takes the endpoint over on every platform.
recover_everywhere(p) == Goto(p, "recover")

ForwardFails(p) == IF platform = "linux" THEN Goto(p, "recover") ELSE GiveUp(p)

\* connect() succeeds as soon as the socket is bound, accepting or not.
forward(p) ==
    /\ pc[p] = "connect"
    /\ IF calls[p].args # "large" /\ socket[At(p)] # None /\ Bound(socket[At(p)])
       THEN /\ peer' = [peer EXCEPT ![p] = socket[At(p)]]
            /\ acked' = acked \ {p}
            /\ Goto(p, "await")
       ELSE ForwardFails(p) /\ UNCHANGED <<peer, acked>>
    /\ UNCHANGED <<platform, project, snapshot, bootvars, guard, calls, agentvars, procvars,
                   events>>

\* The Linux caller reads to the end of the stream, which the primary closes
\* after its handler; the portable one reads the acknowledgement only.
Serving(p, q) == serving[p] # None /\ serving[p].from = q

Confirmed(p) == p \in acked /\ (platform = "linux" => ~Serving(peer[p], p))

Disconnected(p) == p \notin acked /\ ~Bound(peer[p])

NextAfterForward(p) ==
    IF calls[p].then # "run" THEN calls[p].then
    ELSE IF p \in Agents THEN "create" ELSE "gone"

ReadAck(p) ==
    /\ pc[p] = "await"
    /\ \/ Confirmed(p) /\ Goto(p, NextAfterForward(p)) /\ UNCHANGED events
       \/ Disconnected(p) /\ ForwardFails(p) /\ UNCHANGED events
       \/ /\ platform = "linux" /\ ~Confirmed(p) /\ Happens("timeout")
          /\ Goto(p, "recover")
    /\ UNCHANGED <<platform, project, snapshot, bootvars, guard, linkvars, agentvars, procvars>>

\* remove_file, whoever is bound to the name, then a second bind.
Recover(p) ==
    /\ pc[p] = "recover"
    /\ IF socket[At(p)] = None
       THEN GiveUp(p) /\ UNCHANGED socket
       ELSE socket' = [socket EXCEPT ![At(p)] = None] /\ Goto(p, "rebind")
    /\ UNCHANGED <<platform, project, snapshot, bootvars, guard, linkvars, agentvars, listens,
                   serving, scheduling, events>>

Rebind(p) ==
    /\ pc[p] = "rebind"
    /\ \/ Acquired(p)
       \/ /\ socket[At(p)] # None
          /\ GiveUp(p)
          /\ UNCHANGED <<socket, guard>>
    /\ UNCHANGED <<platform, project, snapshot, bootvars, linkvars, agentvars, listens,
                   serving, scheduling, events>>

\* The agent goes on without a listener thread.
no_listener(a) ==
    /\ pc[a] = "listen"
    /\ Goto(a, "services")
    /\ UNCHANGED <<platform, project, snapshot, bootvars, guard, linkvars, agentvars, procvars,
                   events>>

listen(a) ==
    /\ pc[a] = "listen"
    /\ listens' = listens \cup {a}
    /\ Goto(a, "services")
    /\ UNCHANGED <<platform, project, snapshot, bootvars, guard, linkvars, agentvars, serving,
                   scheduling, socket, events>>

\* The listener thread takes one connection: it reads the envelope, writes the
\* acknowledgement ...
Accept(p) ==
    /\ p \in listens /\ serving[p] = None
    /\ \E q \in Procs :
         /\ pc[q] = "await" /\ peer[q] = p /\ q \notin acked
         /\ acked' = acked \cup {q}
         /\ serving' = [serving EXCEPT ![p] = [from |-> q, args |-> calls[q].args]]
    /\ UNCHANGED <<platform, project, snapshot, bootvars, guard, calls, peer,
                   agentvars, listens, scheduling, socket, pc, events>>

\* ... and runs the handler: a host publishes the activation, an agent puts a
\* stop into its channel, which has room for one.
Sends(p) == p \in Agents /\ serving[p].args = "stop"

Handle(p) ==
    /\ p \in listens /\ serving[p] # None
    /\ stopping' = IF Sends(p) THEN stopping \cup {p} ELSE stopping
    /\ serving' = [serving EXCEPT ![p] = None]
    /\ UNCHANGED <<platform, project, snapshot, bootvars, guard, calls, peer, acked, child,
                   ready, listens, scheduling, socket, pc, events>>

\* Drop for InstanceGuard: raise the flag and join the thread, which closes the
\* listener when it is between two connections ...
drop(p) ==
    /\ pc[p] = "drop" /\ serving[p] = None
    /\ listens' = listens \ {p}
    /\ socket' = IF platform = "portable" THEN [socket EXCEPT ![Own(p)] = None] ELSE socket
    /\ Goto(p, IF platform = "linux" THEN "unlink" ELSE "drain")
    /\ UNCHANGED <<platform, project, snapshot, bootvars, guard, linkvars, agentvars, serving,
                   scheduling, events>>

\* ... then remove the name, whoever is bound to it by now.
Unlink(p) ==
    /\ pc[p] = "unlink"
    /\ socket' = [socket EXCEPT ![Own(p)] = None]
    /\ Goto(p, "drain")
    /\ UNCHANGED <<platform, project, snapshot, bootvars, guard, linkvars, agentvars, listens,
                   serving, scheduling, events>>

\* The rest of the process's values go last, its scheduler among them.
Drain(p) ==
    /\ pc[p] = "drain"
    /\ scheduling' = scheduling \ {p}
    /\ Goto(p, "gone")
    /\ UNCHANGED <<platform, project, snapshot, bootvars, guard, linkvars, agentvars, listens,
                   serving, socket, events>>

-----------------------------------------------------------------------------
\* kill: the system closes the process's descriptors; on Linux the name stays.
Killed(ps) ==
    /\ listens' = listens \ ps
    /\ scheduling' = scheduling \ ps
    /\ serving' = [p \in Procs |-> IF p \in ps THEN None ELSE serving[p]]
    /\ socket' = [e \in Endpoints |->
                    IF platform = "portable" /\ socket[e] \in ps THEN None ELSE socket[e]]

\* background_agent::spawn: a new process, as long as the model has one.
Unused == {a \in Agents : pc[a] = "new" /\ \A h \in Hosts : child[h] # a}

Spawn(h) ==
    /\ Unused # {}
    /\ child' = [child EXCEPT ![h] = CHOOSE a \in Unused : TRUE]
    /\ Goto(h, "poll")

\* Its arguments may be too many for an activation.
Arguments(h) ==
    \/ UNCHANGED <<calls, events>>
    \/ Call(h, "app", "large", "run") /\ Happens("large")

\* run_desktop goes by the bootstrap at hand, the cached one beside a snapshot.
Decide(h) ==
    /\ pc[h] = "decide"
    /\ IF Boots[IF cached[h] # None THEN cached[h] ELSE fresh[h]] = "agent"
       THEN Spawn(h) /\ UNCHANGED <<calls, events>>
       ELSE Goto(h, "bind") /\ Arguments(h) /\ UNCHANGED child
    /\ UNCHANGED <<platform, project, snapshot, bootvars, guard, peer, acked, stopping, ready,
                   procvars>>

\* A start goes on to its own endpoint, or ends when the agent did not come up;
\* a reload only logs that.
SpawnEnds(h, ok, killed) ==
    LET next == IF h \in guard THEN "running" ELSE IF ok THEN "bind" ELSE "gone"
    IN /\ child' = [child EXCEPT ![h] = None]
       /\ ready' = [ready EXCEPT ![child[h]] = None]
       /\ pc' = [p \in Procs |-> IF p = h THEN next ELSE IF p \in killed THEN "gone" ELSE pc[p]]
       /\ Killed(killed)

ReadReadiness(h) ==
    LET mark == ready[child[h]]
    IN /\ pc[h] = "poll"
       /\ IF mark = None
          THEN Goto(h, "status") /\ UNCHANGED <<child, ready, procvars>>
          ELSE SpawnEnds(h, mark = "marker", IF mark = "empty" THEN {child[h]} ELSE {})
       /\ UNCHANGED <<platform, project, snapshot, bootvars, guard, linkvars, stopping,
                      events>>

Exited(h) == pc[child[h]] = "gone"

TryWait(h) ==
    /\ pc[h] = "status"
    /\ \/ Exited(h) /\ SpawnEnds(h, FALSE, {}) /\ UNCHANGED events
       \/ /\ ~Exited(h) /\ Goto(h, "poll")
          /\ UNCHANGED <<child, ready, procvars, events>>
       \/ ~Exited(h) /\ Happens("timeout") /\ SpawnEnds(h, FALSE, {child[h]})
    /\ UNCHANGED <<platform, project, snapshot, bootvars, guard, linkvars, stopping>>

\* run, after the endpoint: the local services, then the scheduler.
Services(a) ==
    /\ pc[a] = "services"
    /\ \/ scheduling' = scheduling \cup {a} /\ Goto(a, "create") /\ UNCHANGED events
       \/ Happens("fail") /\ Leave(a) /\ UNCHANGED scheduling
    /\ UNCHANGED <<platform, project, snapshot, bootvars, guard, linkvars, agentvars, listens,
                   serving, socket>>

\* The file is created, then the marker is written.
publish_readiness(a) ==
    /\ \/ /\ pc[a] = "create"
          /\ ready' = [ready EXCEPT ![a] = "empty"]
          /\ Goto(a, "mark")
       \/ /\ pc[a] = "mark"
          /\ ready' = [ready EXCEPT ![a] = IF @ = "empty" THEN "marker" ELSE @]
          /\ Goto(a, IF a \in guard THEN "serve" ELSE "gone")
    /\ UNCHANGED <<platform, project, snapshot, bootvars, guard, linkvars, stopping, child,
                   procvars, events>>

ReceiveStop(a) ==
    /\ pc[a] = "serve" /\ a \in stopping
    /\ Goto(a, "drop")
    /\ UNCHANGED <<platform, project, snapshot, bootvars, guard, linkvars, agentvars, procvars,
                   events>>

-----------------------------------------------------------------------------
\* The host once it is primary: into_parts, for one that began beside a snapshot.
Join(h) ==
    /\ pc[h] = "join" /\ fresh[h] # None
    /\ IF fresh[h] = Failed THEN Leave(h) /\ UNCHANGED snapshot
       ELSE Goto(h, "start") /\ publish(fp[h], fresh[h])
    /\ UNCHANGED <<platform, project, bootvars, guard, linkvars, agentvars, procvars,
                   events>>

\* The host runs a schedule beside the agent's.
always_own_schedule(h) == {h}

\* Gateway::start, where the host's own schedule runs unless PHP asked for an
\* agent, and then the listener.
OwnSchedule(h) == IF Boots[fresh[h]] = "agent" THEN {} ELSE {h}

Start(h) ==
    /\ pc[h] = "start"
    /\ \/ /\ scheduling' = scheduling \cup OwnSchedule(h)
          /\ listens' = listens \cup {h}
          /\ Goto(h, "running") /\ UNCHANGED events
       \/ Happens("fail") /\ Leave(h) /\ UNCHANGED <<scheduling, listens>>
    /\ UNCHANGED <<platform, project, snapshot, bootvars, guard, linkvars, agentvars, serving,
                   socket>>

\* QuitApplication and HostEvent::Exit stop the agent first; closing the last
\* window does not.
Quit(h) ==
    /\ pc[h] = "running"
    /\ \/ Goto(h, "drop") /\ UNCHANGED calls
       \/ Boots[fresh[h]] = "agent" /\ Call(h, "agent", "stop", "drop") /\ Goto(h, "bind")
    /\ UNCHANGED <<platform, project, snapshot, bootvars, guard, peer, acked,
                   agentvars, procvars, events>>

\* The project changes under the watcher: finish_runtime_reload, as far as it
\* concerns the agent and the schedule.
Reload(h) ==
    /\ pc[h] = "running" /\ Happens("reload")
    /\ project' \in Inputs
    /\ fresh' = [fresh EXCEPT ![h] = project']
    /\ IF Boots[project'] = "agent"
       THEN /\ scheduling' = scheduling \ {h}
            /\ Spawn(h) /\ UNCHANGED calls
       ELSE /\ Call(h, "agent", "stop", "replace")
            /\ Goto(h, "bind")
            /\ UNCHANGED <<child, scheduling>>
    /\ UNCHANGED <<platform, snapshot, fp, cached, guard, peer, acked, stopping, ready,
                   listens, serving, socket>>

replace_scheduler(h) ==
    /\ pc[h] = "replace"
    /\ scheduling' = scheduling \cup {h}
    /\ Goto(h, "running")
    /\ UNCHANGED <<platform, project, snapshot, bootvars, guard, linkvars, agentvars, listens,
                   serving, socket, events>>

\* A process is killed from outside, or the session ends it.
Crash(p) ==
    /\ Alive(p) /\ Happens("kill")
    /\ Killed({p})
    /\ Goto(p, "gone")
    /\ UNCHANGED <<platform, project, snapshot, bootvars, guard, linkvars, agentvars>>

-----------------------------------------------------------------------------
Next ==
    \/ \E h \in Hosts :
         \/ prepare_interactive(h) \/ WorkerStarts(h) \/ Decide(h) \/ ReadReadiness(h)
         \/ TryWait(h) \/ Join(h) \/ Start(h) \/ Quit(h) \/ Reload(h) \/ replace_scheduler(h)
    \/ \E a \in Agents :
         \/ prepare(a) \/ listen(a) \/ Services(a) \/ publish_readiness(a) \/ ReceiveStop(a)
    \/ \E p \in Procs :
         \/ acquire(p) \/ forward(p) \/ ReadAck(p) \/ Recover(p) \/ Rebind(p)
         \/ Accept(p) \/ Handle(p) \/ drop(p) \/ Unlink(p) \/ Drain(p) \/ Crash(p)
    \/ Edit

Spec == Init /\ [][Next]_vars

-----------------------------------------------------------------------------
Files == {None} \cup [fp : 0..1, from : Inputs]

TypeOK ==
    /\ platform \in {"linux", "portable"} /\ project \in Inputs
    /\ snapshot \in Files
    /\ socket \in [Endpoints -> Procs \cup {None}]
    /\ \A e \in Endpoints : socket[e] # None => Own(socket[e]) = e
    /\ guard \subseteq Procs /\ listens \subseteq guard /\ scheduling \subseteq guard
    /\ pc \in [Procs -> Steps]
    /\ fresh \in [Procs -> Inputs \cup {None, Failed}]
    /\ cached \in [Procs -> Inputs \cup {None}]
    /\ peer \in [Procs -> Procs \cup {None}]
    /\ serving \in [Procs -> [from : Procs, args : {"open", "stop"}] \cup {None}]
    /\ acked \subseteq Procs /\ stopping \subseteq Agents
    /\ child \in [Hosts -> Agents \cup {None}]
    /\ ready \in [Agents -> {None, "empty", "marker"}]

Primaries(e) == {p \in Procs : Own(p) = e /\ Bound(p)}

\* An oversized activation was attempted, or a primary of e has gone.
Excused(e) ==
    \/ "timeout" \in events
    \/ e = "app" /\ "large" \in events
    \/ \E p \in guard : Own(p) = e /\ ~Bound(p)

\* acquire leaves one primary per endpoint: always in the portable build; on
\* Linux unless a wait of 2 s went unanswered, an activation was too large to
\* forward, or an earlier primary of this endpoint left or died, whose name two
\* starters (or its own late remove_file) may take from a successor.
SinglePrimary ==
    \A e \in Endpoints : Cardinality(Primaries(e)) > 1 => platform = "linux" /\ Excused(e)

\* The schedules that are not about to end: their process has not been told to.
ToldToStop(p) == p \in stopping \/ (serving[p] # None /\ serving[p].args = "stop")

LiveSchedules == {p \in scheduling : Bound(p) /\ ~ToldToStop(p)}

\* The jobs have one schedule: processes that booted from the same project never
\* run it at once, except where two primaries may exist.  (From different ones
\* they may: an agent outlives its host, and a new host that is to run the jobs
\* itself does not stop it.)
OneSchedule ==
    \A p, q \in LiveSchedules :
        p # q /\ fresh[p] = fresh[q] =>
            platform = "linux" /\ \E e \in Endpoints : Excused(e)

\* A host starts beside a snapshot only if PHP would boot the same from the
\* present sources, or if what the fingerprint leaves out differs, or if the
\* sources changed between the publisher's fingerprint and its PHP worker.
SnapshotHitIsCurrent ==
    [][\A h \in Hosts : cached'[h] # cached[h] =>
         \/ cached'[h] = project
         \/ snapshot.from.ext # project.ext
         \/ snapshot.from.fp # snapshot.fp]_vars

\* Nobody waits for ever, in the build without a timeout either: a caller that
\* has connected and got no answer faces a listener, or a process that has yet
\* to start or close its own and that waits for no other process meanwhile.
NoCircularWait ==
    \A p \in Procs :
        pc[p] = "await" /\ p \notin acked /\ Bound(peer[p]) =>
            peer[p] \in listens \/ pc[peer[p]] \in {"join", "start", "listen", "drop"}

=============================================================================
