------------------------ MODULE HostProcessesProofs ------------------------
(***************************************************************************)
(* The processes of an application for any number of hosts and agents, any *)
(* project and any number of kills, timeouts and failures: one primary per *)
(* endpoint, one schedule for the jobs, no circle of waiting processes, and *)
(* snapshots that are current.                                             *)
(***************************************************************************)
EXTENDS HostProcesses, FiniteSetTheorems, TLAPS

Results == Inputs \cup {None, Failed}
Requests == [at : Endpoints, args : {"open", "large", "stop"}, then : {"run", "drop", "replace"}]

\* A name is bound to a guard of its endpoint, and who listens or runs the jobs
\* has a guard.
Names ==
    /\ platform \in {"linux", "portable"}
    /\ socket \in [Endpoints -> Procs \cup {None}]
    /\ \A e \in Endpoints : socket[e] # None => socket[e] \in guard /\ Own(socket[e]) = e
    /\ guard \subseteq Procs /\ listens \subseteq guard /\ scheduling \subseteq guard

\* The kinds of what processes read and remember.
Values ==
    /\ project \in Inputs
    /\ snapshot = None \/ snapshot.from \in Inputs
    /\ fresh \in [Procs -> Results] /\ cached \in [Procs -> Inputs \cup {None}]
    /\ calls \in [Procs -> Requests]
    /\ peer \in [Procs -> Procs \cup {None}]

\* The steps, of which two have a child to wait for.
Stages ==
    /\ pc \in [Procs -> Steps]
    /\ child \in [Hosts -> Agents \cup {None}]
    /\ \A h \in Hosts : pc[h] \in {"poll", "status"} => child[h] # None

Shapes == Names /\ Values /\ Stages

Acquiring == {"bind", "connect", "await", "recover", "rebind"}

\* The guard a process has, by its step, and what it acquires next.
Guarded(p) ==
    /\ p \in guard => pc[p] \notin {"new", "boot", "decide"}
    /\ pc[p] = "replace" => calls[p].then = "replace"
    /\ pc[p] = "new" => cached[p] = None
    /\ pc[p] \in {"join", "start", "listen", "services", "running", "replace", "serve", "drop",
                  "unlink", "drain"} => p \in guard
    /\ calls[p].then = "run" => calls[p].at = Own(p)
    /\ calls[p].then # "run" => p \in guard
    /\ calls[p].args = "large" => calls[p].at = "app" /\ "large" \in events

\* A guard without a listener thread is one that has not started it, or has
\* ended it.
Listening(p) ==
    p \in guard => \/ p \in listens
                   \/ pc[p] \in {"join", "start", "listen", "drop", "unlink", "drain", "gone"}

\* A name that a caller finds taken, or takes from somebody, and why.
Taking(p) ==
    /\ pc[p] = "connect" => \/ platform = "portable" \/ Excused(calls[p].at)
                            \/ socket[calls[p].at] # None
    /\ pc[p] = "await" => peer[p] \in guard /\ Own(peer[p]) = calls[p].at
    /\ pc[p] \in {"recover", "rebind"} => platform = "linux" /\ Excused(calls[p].at)
    /\ pc[p] = "unlink" => platform = "linux"

\* A host runs the jobs only without an agent, an agent only with one.
Scheduled(p) ==
    /\ p \in Agents /\ p \in guard \cup {a \in Agents : pc[a] \in Acquiring}
          => fresh[p] \in Inputs /\ Boots[fresh[p]] = "agent"
    /\ p \in Hosts /\ cached[p] = None /\ pc[p] \notin {"new", "boot", "gone"} => fresh[p] # None
    /\ p \in Hosts /\ pc[p] = "start" => fresh[p] # None
    /\ p \in Hosts /\ p \in scheduling => fresh[p] # None /\ Boots[fresh[p]] # "agent"
    /\ p \in Hosts /\ calls[p].then = "replace" /\ pc[p] \in Acquiring \cup {"replace"}
          => fresh[p] # None /\ Boots[fresh[p]] # "agent"

InOrder(p) == Guarded(p) /\ Listening(p) /\ Taking(p) /\ Scheduled(p)

\* The name of an endpoint is bound to its primary, unless something excuses.
Named ==
    \A e \in Endpoints : \/ platform = "linux" /\ Excused(e)
                         \/ \A p \in guard : Own(p) = e /\ Bound(p) => socket[e] = p

IInv == Shapes /\ Named /\ \A p \in Procs : InOrder(p)

-----------------------------------------------------------------------------
(* What a step of some processes leaves alone. *)

\* A step of the processes in S: the others stay where they are, nobody loses
\* a guard, and a listener that is closed stays closed.
Frame(S) ==
    /\ platform' = platform /\ guard \subseteq guard' /\ events \subseteq events'
    /\ \A q \in Procs \ S :
          /\ pc'[q] = pc[q] /\ calls'[q] = calls[q] /\ peer'[q] = peer[q]
          /\ fresh'[q] = fresh[q] /\ cached'[q] = cached[q]
          /\ q \in guard' <=> q \in guard
          /\ q \in listens' <=> q \in listens
          /\ q \in scheduling' <=> q \in scheduling
    /\ \A q \in S : q \in guard /\ ~Bound(q) => ~Bound(q)'

\* A name that goes, goes in the portable build or where that is excused.
NamesKept ==
    \A e \in Endpoints : socket[e] # None /\ socket'[e] = None => platform = "portable" \/ Excused(e)'

\* A host and an agent have different endpoints, and both are endpoints.
LEMMA Owners ==
    /\ \A p \in Procs : Own(p) \in Endpoints
    /\ \A p \in Hosts : Own(p) = "app" /\ p \notin Agents
    /\ \A p \in Agents : Own(p) = "agent" /\ p \notin Hosts
    /\ None \notin Procs /\ None \notin Inputs /\ Failed \notin Inputs /\ None # Failed
BY HostAssumption DEF Own, Procs, Endpoints, Inputs

\* What excuses once excuses for ever.
LEMMA ExcusedForEver ==
    ASSUME Shapes, NEW S, Frame(S)
    PROVE  \A e \in Endpoints : Excused(e) => Excused(e)'
<1>1. \A q \in guard : ~Bound(q) => q \in guard' /\ ~Bound(q)'
  BY DEF Frame, Bound, Shapes, Names
<1>. QED
  BY <1>1 DEF Excused, Frame

\* Where a step goes.
LEMMA Goes ==
    ASSUME Stages, NEW p \in Procs, NEW s \in Steps, Goto(p, s), child' = child,
           s \in {"poll", "status"} /\ p \in Hosts => child[p] # None
    PROVE  Stages' /\ pc'[p] = s
BY DEF Stages, Goto

\* The processes that take no part stay in order.
LEMMA OthersStay ==
    ASSUME IInv, NEW S, Frame(S), NamesKept, NEW q \in Procs \ S
    PROVE  InOrder(q)'
<1>1. InOrder(q) /\ \A e \in Endpoints : Excused(e) => Excused(e)'
  BY ExcusedForEver DEF IInv
<1>2. /\ platform' = platform /\ pc'[q] = pc[q] /\ calls'[q] = calls[q] /\ peer'[q] = peer[q]
      /\ fresh'[q] = fresh[q] /\ cached'[q] = cached[q] /\ guard \subseteq guard'
      /\ q \in guard' <=> q \in guard
      /\ q \in listens' <=> q \in listens
      /\ q \in scheduling' <=> q \in scheduling
  BY DEF Frame
<1>3. calls[q].at \in Endpoints
  BY DEF IInv, Shapes, Values, Requests
<1>4. Guarded(q)' /\ Listening(q)'
  BY <1>1, <1>2 DEF InOrder, Guarded, Listening, Frame
<1>5. Taking(q)'
  BY <1>1, <1>2, <1>3 DEF InOrder, Taking, NamesKept
<1>6. Scheduled(q)'
  BY <1>1, <1>2 DEF InOrder, Scheduled
<1>. QED
  BY <1>4, <1>5, <1>6 DEF InOrder

\* A step of one process that binds and unbinds no name.
LEMMA OneMoves ==
    ASSUME IInv, NEW p \in Procs, Frame({p}), UNCHANGED <<socket, guard>>, Shapes', InOrder(p)'
    PROVE  IInv'
<1>1. NamesKept
  BY DEF NamesKept
<1>2. \A q \in Procs : InOrder(q)'
  BY <1>1, OthersStay
<1>3. \A q \in guard : Bound(q)' => Bound(q)
  BY DEF IInv, Shapes, Names, Frame, Bound
<1>4. Named'
  BY <1>3, ExcusedForEver DEF IInv, Named, Frame
<1>. QED
  BY <1>2, <1>4 DEF IInv

\* A start that finds a snapshot, or none.
LEMMA prepare_interactiveKeeps == ASSUME IInv, NEW h \in Hosts, prepare_interactive(h) PROVE IInv'
<1>0. h \in Procs
  BY DEF Procs
<1>1. Frame({h}) /\ UNCHANGED <<socket, guard>>
  BY <1>0, SMT
     DEF IInv, Shapes, Names, Values, Stages, Frame, Bound, prepare_interactive, Goto, load,
         linkvars, agentvars, procvars, bootvars
<1>2. PICK s \in {"decide", "boot"} : Goto(h, s)
  BY DEF prepare_interactive, Goto, load
<1>3. Names' /\ Values'
  BY <1>0, Owners
     DEF IInv, Shapes, InOrder, Guarded, Names, Values, prepare_interactive, Goto, load,
         linkvars, agentvars, procvars, bootvars, Results, Requests, Endpoints
<1>4. Stages' /\ pc'[h] = s
  BY <1>0, <1>2, Goes DEF IInv, Shapes, Steps, prepare_interactive, agentvars
<1>5. InOrder(h) /\ \A e \in Endpoints : Excused(e) => Excused(e)'
  BY <1>0, <1>1, ExcusedForEver DEF IInv
<1>6. Guarded(h)' /\ Listening(h)'
  BY <1>0, <1>4, <1>5, Owners
     DEF IInv, Shapes, Names, Values, InOrder, Guarded, Listening, prepare_interactive, Goto,
         load, linkvars, agentvars, procvars, bootvars
<1>7. Taking(h)'
  BY <1>0, <1>1, <1>4, <1>5
     DEF IInv, Shapes, Names, Values, InOrder, Guarded, Taking, prepare_interactive, Goto, load,
         linkvars, agentvars, procvars, bootvars, Requests
<1>8. Scheduled(h)'
  BY <1>0, <1>4, <1>5, Owners
     DEF IInv, Shapes, Names, Values, InOrder, Guarded, Scheduled, Acquiring,
         prepare_interactive, Goto, load, linkvars, agentvars, procvars, bootvars
<1>. QED
  BY <1>0, <1>1, <1>3, <1>4, <1>6, <1>7, <1>8, OneMoves DEF Shapes, InOrder

\* The agent's listener.
LEMMA listenKeeps == ASSUME IInv, NEW a \in Agents, listen(a) PROVE IInv'
<1>0. a \in Procs
  BY DEF Procs
<1>1. Frame({a}) /\ UNCHANGED <<socket, guard>>
  BY <1>0, SMT
     DEF IInv, Shapes, Names, Values, Stages, Frame, Bound, listen, Goto, linkvars, agentvars,
         procvars, bootvars
<1>2. PICK s \in {"services"} : Goto(a, s)
  BY DEF listen, Goto
<1>3. Names' /\ Values'
  BY <1>0, Owners
     DEF IInv, Shapes, InOrder, Guarded, Names, Values, listen, Goto, linkvars, agentvars,
         procvars, bootvars, Results, Requests, Endpoints
<1>4. Stages' /\ pc'[a] = s
  BY <1>0, <1>2, Goes DEF IInv, Shapes, Steps, listen, agentvars
<1>5. InOrder(a) /\ \A e \in Endpoints : Excused(e) => Excused(e)'
  BY <1>0, <1>1, ExcusedForEver DEF IInv
<1>6. Guarded(a)' /\ Listening(a)'
  BY <1>0, <1>4, <1>5, Owners
     DEF IInv, Shapes, Names, Values, InOrder, Guarded, Listening, listen, Goto, linkvars,
         agentvars, procvars, bootvars
<1>7. Taking(a)'
  BY <1>0, <1>1, <1>4, <1>5
     DEF IInv, Shapes, Names, Values, InOrder, Guarded, Taking, listen, Goto, linkvars,
         agentvars, procvars, bootvars, Requests
<1>8. Scheduled(a)'
  BY <1>0, <1>4, <1>5, Owners
     DEF IInv, Shapes, Names, Values, InOrder, Guarded, Scheduled, Acquiring, listen, Goto,
         linkvars, agentvars, procvars, bootvars
<1>. QED
  BY <1>0, <1>1, <1>3, <1>4, <1>6, <1>7, <1>8, OneMoves DEF Shapes, InOrder

\* A connection that is taken.
LEMMA AcceptKeeps == ASSUME IInv, NEW p \in Procs, Accept(p) PROVE IInv'
<1>1. Frame({p}) /\ UNCHANGED <<socket, guard>>
  BY
     DEF IInv, Shapes, Names, Values, Stages, Frame, Bound, Accept, linkvars, agentvars,
         procvars, bootvars
<1>2. Shapes'
  BY Owners DEF IInv, Shapes, Names, Values, Stages, Accept, linkvars, agentvars, procvars, bootvars
<1>5. InOrder(p) /\ \A e \in Endpoints : Excused(e) => Excused(e)'
  BY <1>1, ExcusedForEver DEF IInv
<1>6. Guarded(p)' /\ Listening(p)'
  BY <1>5, Owners
     DEF IInv, Shapes, Names, Values, InOrder, Guarded, Listening, Accept, linkvars, agentvars,
         procvars, bootvars
<1>7. Taking(p)'
  BY <1>1, <1>5
     DEF IInv, Shapes, Names, Values, InOrder, Guarded, Taking, Accept, linkvars, agentvars,
         procvars, bootvars, Requests
<1>8. Scheduled(p)'
  BY <1>5, Owners
     DEF IInv, Shapes, Names, Values, InOrder, Guarded, Scheduled, Acquiring, Accept, linkvars,
         agentvars, procvars, bootvars
<1>. QED
  BY <1>1, <1>2, <1>6, <1>7, <1>8, OneMoves DEF Shapes, InOrder

\* A message that is handled.
LEMMA HandleKeeps == ASSUME IInv, NEW p \in Procs, Handle(p) PROVE IInv'
<1>1. Frame({p}) /\ UNCHANGED <<socket, guard>>
  BY
     DEF IInv, Shapes, Names, Values, Stages, Frame, Bound, Handle, linkvars, agentvars,
         procvars, bootvars
<1>2. Shapes'
  BY Owners DEF IInv, Shapes, Names, Values, Stages, Handle, linkvars, agentvars, procvars, bootvars
<1>5. InOrder(p) /\ \A e \in Endpoints : Excused(e) => Excused(e)'
  BY <1>1, ExcusedForEver DEF IInv
<1>6. Guarded(p)' /\ Listening(p)'
  BY <1>5, Owners
     DEF IInv, Shapes, Names, Values, InOrder, Guarded, Listening, Handle, linkvars, agentvars,
         procvars, bootvars
<1>7. Taking(p)'
  BY <1>1, <1>5
     DEF IInv, Shapes, Names, Values, InOrder, Guarded, Taking, Handle, linkvars, agentvars,
         procvars, bootvars, Requests
<1>8. Scheduled(p)'
  BY <1>5, Owners
     DEF IInv, Shapes, Names, Values, InOrder, Guarded, Scheduled, Acquiring, Handle, linkvars,
         agentvars, procvars, bootvars
<1>. QED
  BY <1>1, <1>2, <1>6, <1>7, <1>8, OneMoves DEF Shapes, InOrder

\* The agent's services.
LEMMA ServicesKeeps == ASSUME IInv, NEW a \in Agents, Services(a) PROVE IInv'
<1>0. a \in Procs
  BY DEF Procs
<1>1. Frame({a}) /\ UNCHANGED <<socket, guard>>
  BY <1>0, SMT
     DEF IInv, Shapes, Names, Values, Stages, Frame, Bound, Services, Goto, Leave, Happens,
         linkvars, agentvars, procvars, bootvars
<1>2. PICK s \in {"create", "drop", "gone"} : Goto(a, s)
  BY DEF Services, Goto, Leave, Happens
<1>3. Names' /\ Values'
  BY <1>0, Owners
     DEF IInv, Shapes, InOrder, Guarded, Names, Values, Services, Goto, Leave, Happens, linkvars,
         agentvars, procvars, bootvars, Results, Requests, Endpoints
<1>4. Stages' /\ pc'[a] = s
  BY <1>0, <1>2, Goes DEF IInv, Shapes, Steps, Services, agentvars
<1>5. InOrder(a) /\ \A e \in Endpoints : Excused(e) => Excused(e)'
  BY <1>0, <1>1, ExcusedForEver DEF IInv
<1>6. Guarded(a)' /\ Listening(a)'
  BY <1>0, <1>4, <1>5, Owners
     DEF IInv, Shapes, Names, Values, InOrder, Guarded, Listening, Services, Goto, Leave,
         Happens, linkvars, agentvars, procvars, bootvars
<1>7. Taking(a)'
  BY <1>0, <1>1, <1>4, <1>5
     DEF IInv, Shapes, Names, Values, InOrder, Guarded, Taking, Services, Goto, Leave, Happens,
         linkvars, agentvars, procvars, bootvars, Requests
<1>8. Scheduled(a)'
  BY <1>0, <1>4, <1>5, Owners
     DEF IInv, Shapes, Names, Values, InOrder, Guarded, Scheduled, Acquiring, Services, Goto,
         Leave, Happens, linkvars, agentvars, procvars, bootvars
<1>. QED
  BY <1>0, <1>1, <1>3, <1>4, <1>6, <1>7, <1>8, OneMoves DEF Shapes, InOrder

\* An agent that is told to stop.
LEMMA ReceiveStopKeeps == ASSUME IInv, NEW a \in Agents, ReceiveStop(a) PROVE IInv'
<1>0. a \in Procs
  BY DEF Procs
<1>1. Frame({a}) /\ UNCHANGED <<socket, guard>>
  BY <1>0, SMT
     DEF IInv, Shapes, Names, Values, Stages, Frame, Bound, ReceiveStop, Goto, linkvars,
         agentvars, procvars, bootvars
<1>2. PICK s \in {"drop"} : Goto(a, s)
  BY DEF ReceiveStop, Goto
<1>3. Names' /\ Values'
  BY <1>0, Owners
     DEF IInv, Shapes, InOrder, Guarded, Names, Values, ReceiveStop, Goto, linkvars, agentvars,
         procvars, bootvars, Results, Requests, Endpoints
<1>4. Stages' /\ pc'[a] = s
  BY <1>0, <1>2, Goes DEF IInv, Shapes, Steps, ReceiveStop, agentvars
<1>5. InOrder(a) /\ \A e \in Endpoints : Excused(e) => Excused(e)'
  BY <1>0, <1>1, ExcusedForEver DEF IInv
<1>6. Guarded(a)' /\ Listening(a)'
  BY <1>0, <1>4, <1>5, Owners
     DEF IInv, Shapes, Names, Values, InOrder, Guarded, Listening, ReceiveStop, Goto, linkvars,
         agentvars, procvars, bootvars
<1>7. Taking(a)'
  BY <1>0, <1>1, <1>4, <1>5
     DEF IInv, Shapes, Names, Values, InOrder, Guarded, Taking, ReceiveStop, Goto, linkvars,
         agentvars, procvars, bootvars, Requests
<1>8. Scheduled(a)'
  BY <1>0, <1>4, <1>5, Owners
     DEF IInv, Shapes, Names, Values, InOrder, Guarded, Scheduled, Acquiring, ReceiveStop, Goto,
         linkvars, agentvars, procvars, bootvars
<1>. QED
  BY <1>0, <1>1, <1>3, <1>4, <1>6, <1>7, <1>8, OneMoves DEF Shapes, InOrder

\* The worker that was started beside a snapshot.
LEMMA JoinKeeps == ASSUME IInv, NEW h \in Hosts, Join(h) PROVE IInv'
<1>0. h \in Procs
  BY DEF Procs
<1>1. Frame({h}) /\ UNCHANGED <<socket, guard>>
  BY <1>0, SMT
     DEF IInv, Shapes, Names, Values, Stages, Frame, Bound, Join, Goto, Leave, publish, linkvars,
         agentvars, procvars, bootvars
<1>2. PICK s \in {"start", "drop", "gone"} : Goto(h, s)
  BY DEF Join, Goto, Leave, publish
<1>3. Names' /\ Values'
  BY <1>0, Owners
     DEF IInv, Shapes, InOrder, Guarded, Names, Values, Join, Goto, Leave, publish, linkvars,
         agentvars, procvars, bootvars, Results, Requests, Endpoints
<1>4. Stages' /\ pc'[h] = s
  BY <1>0, <1>2, Goes DEF IInv, Shapes, Steps, Join, agentvars
<1>5. InOrder(h) /\ \A e \in Endpoints : Excused(e) => Excused(e)'
  BY <1>0, <1>1, ExcusedForEver DEF IInv
<1>6. Guarded(h)' /\ Listening(h)'
  BY <1>0, <1>4, <1>5, Owners
     DEF IInv, Shapes, Names, Values, InOrder, Guarded, Listening, Join, Goto, Leave, publish,
         linkvars, agentvars, procvars, bootvars
<1>7. Taking(h)'
  BY <1>0, <1>1, <1>4, <1>5
     DEF IInv, Shapes, Names, Values, InOrder, Guarded, Taking, Join, Goto, Leave, publish,
         linkvars, agentvars, procvars, bootvars, Requests
<1>8. Scheduled(h)'
  BY <1>0, <1>4, <1>5, Owners
     DEF IInv, Shapes, Names, Values, InOrder, Guarded, Scheduled, Acquiring, Join, Goto, Leave,
         publish, linkvars, agentvars, procvars, bootvars
<1>. QED
  BY <1>0, <1>1, <1>3, <1>4, <1>6, <1>7, <1>8, OneMoves DEF Shapes, InOrder

\* The last values of a process go.
LEMMA DrainKeeps == ASSUME IInv, NEW p \in Procs, Drain(p) PROVE IInv'
<1>1. Frame({p}) /\ UNCHANGED <<socket, guard>>
  BY
     DEF IInv, Shapes, Names, Values, Stages, Frame, Bound, Drain, Goto, linkvars, agentvars,
         procvars, bootvars
<1>2. PICK s \in {"gone"} : Goto(p, s)
  BY DEF Drain, Goto
<1>3. Names' /\ Values'
  BY Owners
     DEF IInv, Shapes, InOrder, Guarded, Names, Values, Drain, Goto, linkvars, agentvars,
         procvars, bootvars, Results, Requests, Endpoints
<1>4. Stages' /\ pc'[p] = s
  BY <1>2, Goes DEF IInv, Shapes, Steps, Drain, agentvars
<1>5. InOrder(p) /\ \A e \in Endpoints : Excused(e) => Excused(e)'
  BY <1>1, ExcusedForEver DEF IInv
<1>6. Guarded(p)' /\ Listening(p)'
  BY <1>4, <1>5, Owners
     DEF IInv, Shapes, Names, Values, InOrder, Guarded, Listening, Drain, Goto, linkvars,
         agentvars, procvars, bootvars
<1>7. Taking(p)'
  BY <1>1, <1>4, <1>5
     DEF IInv, Shapes, Names, Values, InOrder, Guarded, Taking, Drain, Goto, linkvars, agentvars,
         procvars, bootvars, Requests
<1>8. Scheduled(p)'
  BY <1>4, <1>5, Owners
     DEF IInv, Shapes, Names, Values, InOrder, Guarded, Scheduled, Acquiring, Drain, Goto,
         linkvars, agentvars, procvars, bootvars
<1>. QED
  BY <1>1, <1>3, <1>4, <1>6, <1>7, <1>8, OneMoves DEF Shapes, InOrder

\* A worker that starts, or does not.
LEMMA WorkerStartsKeeps == ASSUME IInv, NEW h \in Hosts, WorkerStarts(h) PROVE IInv'
<1>0. h \in Procs /\ fresh[h] = None
  BY DEF Procs, WorkerStarts
<1>1. PICK f \in Inputs \cup {Failed} : fresh' = [fresh EXCEPT ![h] = f]
  BY DEF IInv, Shapes, Values, WorkerStarts
<1>2. \/ pc' = pc /\ pc[h] # "boot"
      \/ pc[h] = "boot" /\ \E s \in {"decide", "gone", "drop"} : Goto(h, s) /\ (s = "drop" => h \in guard)
  BY DEF WorkerStarts, Leave
<1>3. /\ UNCHANGED <<platform, project, cached, guard, calls, peer, child, listens, scheduling, socket>>
      /\ events \subseteq events'
  BY DEF WorkerStarts, Happens, linkvars, agentvars, procvars
<1>4. snapshot' = None \/ snapshot'.from \in Inputs
  BY DEF IInv, Shapes, Values, WorkerStarts, publish
<1>5. Stages' /\ (pc'[h] = pc[h] \/ pc'[h] \in {"decide", "gone"} \/ (pc'[h] = "drop" /\ h \in guard))
  <2>1. CASE pc' = pc
    BY <1>3, <2>1 DEF IInv, Shapes, Stages
  <2>2. ASSUME NEW s \in {"decide", "gone", "drop"}, Goto(h, s)
        PROVE  Stages' /\ pc'[h] = s
    BY <1>0, <1>3, <2>2, Goes DEF IInv, Shapes, Steps
  <2>. QED
    BY <1>2, <2>1, <2>2
<1>6. Frame({h})
  <2>1. \A q \in Procs \ {h} : pc'[q] = pc[q] /\ fresh'[q] = fresh[q]
    BY <1>1, <1>2 DEF IInv, Shapes, Values, Stages, Goto
  <2>2. Bound(h)' => Bound(h)
    BY <1>2, <1>3 DEF Bound
  <2>. QED
    BY <1>3, <2>1, <2>2 DEF Frame
<1>7. Shapes'
  BY <1>0, <1>1, <1>3, <1>4, <1>5, Owners DEF IInv, Shapes, Names, Values, Results
<1>8. InOrder(h) /\ \A e \in Endpoints : Excused(e) => Excused(e)'
  BY <1>0, <1>6, ExcusedForEver DEF IInv
<1>9. Guarded(h)' /\ Listening(h)'
  BY <1>2, <1>3, <1>5, <1>8 DEF InOrder, Guarded, Listening
<1>10. Taking(h)'
  BY <1>0, <1>3, <1>5, <1>8 DEF IInv, Shapes, Values, Requests, InOrder, Taking
<1>11. Scheduled(h)'
  <2>1. fresh'[h] # None
    BY <1>0, <1>1, Owners DEF IInv, Shapes, Values
  <2>2. h \notin scheduling
    BY <1>0, <1>8 DEF InOrder, Scheduled
  <2>3. ~(calls[h].then = "replace" /\ pc[h] \in Acquiring \cup {"replace"})
    BY <1>0, <1>8 DEF InOrder, Scheduled
  <2>4. ~(calls[h].then = "replace" /\ pc'[h] \in Acquiring \cup {"replace"})
    BY <1>3, <1>5, <2>3 DEF Acquiring
  <2>. QED
    BY <1>3, <2>1, <2>2, <2>4, Owners DEF Scheduled
<1>. QED
  BY <1>0, <1>3, <1>6, <1>7, <1>9, <1>10, <1>11, OneMoves DEF InOrder

\* An agent that is still wanted, or not.
LEMMA prepareKeeps == ASSUME IInv, NEW a \in Agents, prepare(a) PROVE IInv'
<1>0. a \in Procs /\ pc[a] = "new"
  BY DEF Procs, prepare
<1>1. a \notin guard
  BY <1>0 DEF IInv, InOrder, Guarded
<1>2. PICK f \in Inputs \cup {Failed} : fresh' = [fresh EXCEPT ![a] = f]
  BY DEF IInv, Shapes, Values, prepare
<1>3. PICK s \in {"bind", "gone"} :
        Goto(a, s) /\ (s = "bind" => f \in Inputs /\ Boots[f] = "agent")
  <2>1. fresh[a] \in Results /\ fresh'[a] = f
    BY <1>0, <1>2 DEF IInv, Shapes, Values
  <2>2. CASE fresh' = [fresh EXCEPT ![a] = project] /\ Boots[project] = "agent" /\ Goto(a, "bind")
    <3>1. f = project
      BY <1>0, <2>1, <2>2 DEF IInv, Shapes, Values
    <3>. QED
      BY <2>2, <3>1 DEF IInv, Shapes, Values
  <2>3. CASE Leave(a)
    BY <1>1, <2>3 DEF Leave
  <2>. QED
    BY <2>2, <2>3 DEF prepare
<1>4. /\ UNCHANGED <<platform, project, cached, guard, calls, peer, child, listens, scheduling, socket>>
      /\ events \subseteq events'
  BY DEF prepare, Happens, linkvars, agentvars, procvars
<1>5. snapshot' = None \/ snapshot'.from \in Inputs
  BY DEF IInv, Shapes, Values, prepare, publish
<1>6. Stages' /\ pc'[a] = s
  BY <1>0, <1>3, <1>4, Goes DEF IInv, Shapes, Steps
<1>7. fresh'[a] = f /\ Frame({a})
  <2>1. fresh'[a] = f /\ \A q \in Procs \ {a} : pc'[q] = pc[q] /\ fresh'[q] = fresh[q]
    BY <1>0, <1>2, <1>3 DEF IInv, Shapes, Values, Stages, Goto
  <2>. QED
    BY <1>1, <1>4, <2>1 DEF Frame
<1>8. Shapes'
  BY <1>0, <1>2, <1>4, <1>5, <1>6 DEF IInv, Shapes, Names, Values, Results
<1>9. Guarded(a)' /\ Listening(a)' /\ Taking(a)'
  BY <1>0, <1>1, <1>4, <1>6 DEF IInv, InOrder, Guarded, Listening, Taking
<1>10. Scheduled(a)'
  BY <1>1, <1>3, <1>4, <1>6, <1>7, Owners DEF Scheduled, Acquiring
<1>. QED
  BY <1>0, <1>4, <1>7, <1>8, <1>9, <1>10, OneMoves DEF InOrder

\* Where a caller goes whose call failed: on to what follows a stop, out, or on
\* Linux to the name of a primary that has gone.
LEMMA FailedCall ==
    ASSUME IInv, NEW p \in Procs, pc[p] \in Acquiring, ForwardFails(p) \/ GiveUp(p)
    PROVE  \E s \in {"recover", "drop", "gone", "replace"} :
             /\ Goto(p, s)
             /\ s \in {"drop", "replace"} => p \in guard
             /\ s = "replace" => calls[p].then = "replace"
             /\ s = "recover" => platform = "linux" /\ ForwardFails(p)
<1>1. InOrder(p) /\ calls[p].then \in {"run", "drop", "replace"}
  BY DEF IInv, Shapes, Values, Requests
<1>2. CASE ForwardFails(p) /\ platform = "linux"
  BY <1>2 DEF ForwardFails
<1>3. CASE GiveUp(p) /\ calls[p].then = "run"
  BY <1>3 DEF GiveUp, Leave
<1>4. CASE GiveUp(p) /\ calls[p].then # "run"
  BY <1>1, <1>4 DEF GiveUp, InOrder, Guarded
<1>. QED
  BY <1>2, <1>3, <1>4 DEF ForwardFails

\* A primary that is not bound any more excuses, and so does a large activation.
LEMMA WhyForwardFails ==
    ASSUME IInv, NEW p \in Procs, platform = "linux",
           \/ pc[p] = "connect" /\ (calls[p].args = "large" \/ socket[calls[p].at] = None
                                    \/ ~Bound(socket[calls[p].at]))
           \/ pc[p] = "await" /\ ~Bound(peer[p])
    PROVE  Excused(calls[p].at)
<1>1. InOrder(p) /\ calls[p].at \in Endpoints
  BY DEF IInv, Shapes, Values, Requests
<1>2. CASE pc[p] = "connect" /\ calls[p].args = "large"
  BY <1>1, <1>2 DEF InOrder, Guarded, Excused
<1>3. CASE pc[p] = "connect" /\ socket[calls[p].at] = None
  BY <1>1, <1>3 DEF InOrder, Taking
<1>4. CASE pc[p] = "connect" /\ socket[calls[p].at] # None /\ ~Bound(socket[calls[p].at])
  BY <1>1, <1>4 DEF IInv, Shapes, Names, Excused
<1>5. CASE pc[p] = "await" /\ ~Bound(peer[p])
  BY <1>1, <1>5 DEF InOrder, Taking, Excused
<1>. QED
  BY <1>2, <1>3, <1>4, <1>5

\* A caller that connects, or fails to where the primary has gone.
LEMMA forwardKeeps == ASSUME IInv, NEW p \in Procs, forward(p) PROVE IInv'
<1>0. pc[p] = "connect" /\ InOrder(p) /\ calls[p].at \in Endpoints
  BY DEF IInv, Shapes, Values, Requests, forward
<1>1. /\ UNCHANGED <<platform, project, snapshot, fresh, cached, guard, calls, child>>
      /\ UNCHANGED <<listens, scheduling, socket, events>>
  BY DEF forward, bootvars, agentvars, procvars
<1>2. PICK s \in Steps :
        /\ Goto(p, s)
        /\ \/ /\ s = "await" /\ peer' = [peer EXCEPT ![p] = socket[calls[p].at]]
              /\ socket[calls[p].at] # None
           \/ /\ s \in {"recover", "drop", "gone", "replace"} /\ peer' = peer
              /\ s \in {"drop", "replace"} => p \in guard
              /\ s = "replace" => calls[p].then = "replace"
              /\ s = "recover" => platform = "linux" /\ Excused(calls[p].at)
  <2>1. CASE calls[p].args # "large" /\ socket[At(p)] # None /\ Bound(socket[At(p)])
    BY <2>1 DEF forward, At, Steps
  <2>2. CASE ~(calls[p].args # "large" /\ socket[At(p)] # None /\ Bound(socket[At(p)]))
    <3>1. ForwardFails(p) /\ peer' = peer
      BY <2>2 DEF forward
    <3>2. platform = "linux" => Excused(calls[p].at)
      BY <1>0, <2>2, WhyForwardFails DEF At
    <3>. QED
      BY <1>0, <3>1, <3>2, FailedCall DEF Acquiring, Steps
  <2>. QED
    BY <2>1, <2>2
<1>3. Stages' /\ pc'[p] = s
  BY <1>1, <1>2, Goes DEF IInv, Shapes
<1>4. Values' /\ \A q \in Procs \ {p} : pc'[q] = pc[q] /\ peer'[q] = peer[q]
  BY <1>0, <1>1, <1>2 DEF IInv, Shapes, Names, Values, Stages, Goto
<1>5. Frame({p})
  BY <1>0, <1>1, <1>4 DEF Frame, Bound
<1>6. Shapes'
  BY <1>1, <1>3, <1>4 DEF IInv, Shapes, Names
<1>7. Guarded(p)' /\ Listening(p)'
  BY <1>0, <1>1, <1>2, <1>3 DEF InOrder, Guarded, Listening
<1>8. Taking(p)'
  <2>1. CASE s = "await"
    <3>1. peer'[p] = socket[calls[p].at] /\ socket[calls[p].at] # None
      BY <1>2, <2>1 DEF IInv, Shapes, Values
    <3>. QED
      BY <1>0, <1>1, <1>3, <2>1, <3>1 DEF IInv, Shapes, Names, Taking
  <2>2. CASE s # "await"
    BY <1>0, <1>1, <1>2, <1>3, <1>5, <2>2, ExcusedForEver DEF IInv, Taking
  <2>. QED
    BY <2>1, <2>2
<1>9. Scheduled(p)'
  BY <1>0, <1>1, <1>2, <1>3 DEF InOrder, Scheduled, Acquiring
<1>. QED
  BY <1>1, <1>5, <1>6, <1>7, <1>8, <1>9, OneMoves DEF InOrder

\* A caller that is answered, or not.
LEMMA ReadAckKeeps == ASSUME IInv, NEW p \in Procs, ReadAck(p) PROVE IInv'
<1>0. pc[p] = "await" /\ InOrder(p) /\ calls[p].at \in Endpoints
      /\ calls[p].then \in {"run", "drop", "replace"}
  BY DEF IInv, Shapes, Values, Requests, ReadAck
<1>1. /\ UNCHANGED <<platform, project, snapshot, fresh, cached, guard, calls, peer, child>>
      /\ UNCHANGED <<listens, scheduling, socket>> /\ events \subseteq events'
  BY DEF ReadAck, bootvars, linkvars, agentvars, procvars, Happens
<1>2. PICK s \in Steps :
        /\ Goto(p, s)
        /\ s \in {"recover", "drop", "gone", "replace", "create"}
        /\ s \in {"drop", "replace"} => p \in guard
        /\ s = "replace" => calls[p].then = "replace"
        /\ s = "recover" => platform = "linux" /\ (Excused(calls[p].at) \/ "timeout" \in events')
  <2>1. CASE Goto(p, NextAfterForward(p))
    BY <1>0, <2>1 DEF NextAfterForward, InOrder, Guarded, Steps
  <2>2. CASE Disconnected(p) /\ ForwardFails(p)
    <3>1. platform = "linux" => Excused(calls[p].at)
      BY <1>0, <2>2, WhyForwardFails DEF Disconnected
    <3>. QED
      BY <1>0, <2>2, <3>1, FailedCall DEF Acquiring, Steps
  <2>3. CASE platform = "linux" /\ Happens("timeout") /\ Goto(p, "recover")
    BY <2>3 DEF Happens, Steps
  <2>. QED
    BY <2>1, <2>2, <2>3 DEF ReadAck
<1>3. Stages' /\ pc'[p] = s
  BY <1>1, <1>2, Goes DEF IInv, Shapes
<1>4. \A q \in Procs \ {p} : pc'[q] = pc[q]
  BY <1>2 DEF IInv, Shapes, Stages, Goto
<1>5. Frame({p})
  BY <1>0, <1>1, <1>4 DEF Frame, Bound
<1>6. Shapes'
  BY <1>1, <1>3 DEF IInv, Shapes, Names, Values
<1>7. Guarded(p)' /\ Listening(p)'
  BY <1>0, <1>1, <1>2, <1>3 DEF InOrder, Guarded, Listening
<1>8. Taking(p)'
  <2>1. s = "recover" => Excused(calls[p].at)'
    <3>1. "timeout" \in events' => Excused(calls[p].at)'
      BY DEF Excused
    <3>2. Excused(calls[p].at) => Excused(calls[p].at)'
      BY <1>0, <1>1, <1>5, ExcusedForEver DEF IInv
    <3>. QED
      BY <1>2, <3>1, <3>2
  <2>. QED
    BY <1>1, <1>2, <1>3, <2>1 DEF Taking
<1>9. Scheduled(p)'
  BY <1>0, <1>1, <1>2, <1>3 DEF InOrder, Scheduled, Acquiring
<1>. QED
  BY <1>1, <1>5, <1>6, <1>7, <1>8, <1>9, OneMoves DEF InOrder

\* A start that needs an agent, or does not.
LEMMA DecideKeeps == ASSUME IInv, NEW h \in Hosts, Decide(h) PROVE IInv'
<1>0. h \in Procs /\ pc[h] = "decide" /\ InOrder(h) /\ calls[h] \in Requests
  BY DEF IInv, Shapes, Values, Procs, Decide
<1>1. /\ UNCHANGED <<platform, project, snapshot, fresh, cached, guard, peer>>
      /\ UNCHANGED <<listens, scheduling, socket>>
  BY DEF Decide, bootvars, procvars
<1>2. /\ events \subseteq events'
      /\ \/ calls' = calls
         \/ /\ calls' = [calls EXCEPT ![h] = [at |-> "app", args |-> "large", then |-> "run"]]
            /\ "large" \in events'
  BY DEF Decide, Arguments, Call, Happens
<1>3. PICK s \in {"poll", "bind"} :
        Goto(h, s) /\ child' \in [Hosts -> Agents \cup {None}]
        /\ (s = "poll" => child'[h] # None) /\ \A g \in Hosts \ {h} : child'[g] = child[g]
  <2>1. CASE Spawn(h)
    <3>1. PICK a \in Agents : child' = [child EXCEPT ![h] = a]
      BY <2>1 DEF Spawn, Unused
    <3>2. a # None
      BY Owners DEF Procs
    <3>. QED
      BY <2>1, <3>1, <3>2 DEF IInv, Shapes, Stages, Spawn
  <2>2. CASE Goto(h, "bind") /\ UNCHANGED child
    BY <2>2 DEF IInv, Shapes, Stages
  <2>. QED
    BY <2>1, <2>2 DEF Decide
<1>4. pc'[h] = s /\ (\A q \in Procs \ {h} : pc'[q] = pc[q]) /\ pc' \in [Procs -> Steps]
  BY <1>0, <1>3 DEF IInv, Shapes, Stages, Goto, Steps
<1>5. Stages'
  BY <1>3, <1>4, Owners DEF IInv, Shapes, Stages, Procs
<1>6. /\ \A q \in Procs \ {h} : calls'[q] = calls[q]
      /\ calls'[h] = calls[h] \/ (calls'[h] = [at |-> "app", args |-> "large", then |-> "run"]
                                  /\ "large" \in events')
      /\ calls' \in [Procs -> Requests]
  BY <1>0, <1>2 DEF IInv, Shapes, Values, Requests, Endpoints
<1>7. Frame({h})
  BY <1>0, <1>1, <1>2, <1>4, <1>6 DEF Frame, Bound
<1>8. Shapes'
  BY <1>1, <1>5, <1>6 DEF IInv, Shapes, Names, Values
<1>9. Guarded(h)' /\ Listening(h)'
  BY <1>0, <1>1, <1>2, <1>4, <1>6, Owners DEF InOrder, Guarded, Listening
<1>10. Taking(h)'
  BY <1>4 DEF Taking
<1>11. Scheduled(h)'
  <2>1. calls'[h].then # "replace"
    BY <1>0, <1>6, Owners DEF IInv, InOrder, Guarded, Listening
  <2>. QED
    BY <1>0, <1>1, <1>4, <2>1, Owners DEF InOrder, Scheduled
<1>. QED
  BY <1>0, <1>1, <1>7, <1>8, <1>9, <1>10, <1>11, OneMoves DEF InOrder

\* The agent's readiness.
LEMMA publish_readinessKeeps == ASSUME IInv, NEW a \in Agents, publish_readiness(a) PROVE IInv'
<1>0. a \in Procs /\ pc[a] \in {"create", "mark"} /\ InOrder(a)
  BY DEF IInv, Procs, publish_readiness
<1>1. /\ UNCHANGED <<platform, project, snapshot, fresh, cached, guard, calls, peer, child>>
      /\ UNCHANGED <<listens, scheduling, socket, events>>
  BY DEF publish_readiness, bootvars, linkvars, procvars
<1>2. PICK s \in {"mark", "serve", "gone"} : Goto(a, s) /\ (s = "serve" => a \in guard)
  BY DEF publish_readiness
<1>3. Stages' /\ pc'[a] = s /\ \A q \in Procs \ {a} : pc'[q] = pc[q]
  BY <1>0, <1>1, <1>2, Goes DEF IInv, Shapes, Stages, Goto, Steps
<1>4. Frame({a})
  BY <1>0, <1>1, <1>3 DEF Frame, Bound
<1>5. Shapes'
  BY <1>1, <1>3 DEF IInv, Shapes, Names, Values
<1>6. InOrder(a)'
  BY <1>0, <1>1, <1>2, <1>3, Owners DEF InOrder, Guarded, Listening, Taking, Scheduled, Acquiring
<1>. QED
  BY <1>0, <1>1, <1>4, <1>5, <1>6, OneMoves

\* The host's own schedule and listener.
LEMMA StartKeeps == ASSUME IInv, NEW h \in Hosts, Start(h) PROVE IInv'
<1>0. h \in Procs /\ pc[h] = "start" /\ InOrder(h)
  BY DEF IInv, Procs, Start
<1>1. h \in guard
  BY <1>0 DEF InOrder, Guarded
<1>2. /\ UNCHANGED <<platform, project, snapshot, fresh, cached, guard, calls, peer, child>>
      /\ UNCHANGED socket /\ events \subseteq events'
  BY DEF Start, bootvars, linkvars, agentvars, Happens
<1>3. PICK s \in {"running", "drop"} :
        /\ Goto(h, s)
        /\ s = "running" => listens' = listens \cup {h}
        /\ s = "drop" => listens' = listens
        /\ scheduling' \in {scheduling, scheduling \cup OwnSchedule(h)}
  BY <1>1 DEF Start, Leave
<1>4. Stages' /\ pc'[h] = s /\ \A q \in Procs \ {h} : pc'[q] = pc[q]
  BY <1>0, <1>2, <1>3, Goes DEF IInv, Shapes, Stages, Goto, Steps
<1>5. /\ scheduling' \subseteq guard /\ \A q \in Procs \ {h} : q \in scheduling' <=> q \in scheduling
      /\ listens' \subseteq guard /\ \A q \in Procs \ {h} : q \in listens' <=> q \in listens
      /\ h \in scheduling' => h \in scheduling \/ Boots[fresh[h]] # "agent"
  BY <1>1, <1>3 DEF OwnSchedule, IInv, Shapes, Names
<1>6. Frame({h})
  BY <1>0, <1>2, <1>4, <1>5 DEF Frame, Bound
<1>7. Shapes'
  BY <1>2, <1>4, <1>5 DEF IInv, Shapes, Names, Values
<1>8. Guarded(h)' /\ Listening(h)' /\ Taking(h)'
  BY <1>0, <1>1, <1>2, <1>3, <1>4 DEF InOrder, Guarded, Listening, Taking
<1>9. Scheduled(h)'
  BY <1>0, <1>2, <1>4, <1>5, Owners DEF InOrder, Scheduled, Acquiring
<1>. QED
  BY <1>0, <1>2, <1>6, <1>7, <1>8, <1>9, OneMoves DEF InOrder

\* A host that quits, with or without its agent.
LEMMA QuitKeeps == ASSUME IInv, NEW h \in Hosts, Quit(h) PROVE IInv'
<1>0. h \in Procs /\ pc[h] = "running" /\ InOrder(h)
  BY DEF IInv, Procs, Quit
<1>1. h \in guard
  BY <1>0 DEF InOrder, Guarded
<1>2. /\ UNCHANGED <<platform, project, snapshot, fresh, cached, guard, peer, child>>
      /\ UNCHANGED <<listens, scheduling, socket, events>>
  BY DEF Quit, bootvars, agentvars, procvars
<1>3. PICK s \in {"drop", "bind"} :
        /\ Goto(h, s)
        /\ s = "drop" => calls' = calls
        /\ s = "bind" => calls' = [calls EXCEPT ![h] = [at |-> "agent", args |-> "stop", then |-> "drop"]]
  BY DEF Quit, Call
<1>4. Stages' /\ pc'[h] = s /\ \A q \in Procs \ {h} : pc'[q] = pc[q]
  BY <1>0, <1>2, <1>3, Goes DEF IInv, Shapes, Stages, Goto, Steps
<1>5. /\ calls' \in [Procs -> Requests] /\ \A q \in Procs \ {h} : calls'[q] = calls[q]
      /\ s = "drop" => calls'[h] = calls[h]
      /\ s = "bind" => calls'[h] = [at |-> "agent", args |-> "stop", then |-> "drop"]
  BY <1>0, <1>3 DEF IInv, Shapes, Values, Requests, Endpoints
<1>6. Frame({h})
  BY <1>0, <1>2, <1>4, <1>5 DEF Frame, Bound
<1>7. Shapes'
  BY <1>2, <1>4, <1>5 DEF IInv, Shapes, Names, Values
<1>8. Guarded(h)' /\ Listening(h)' /\ Taking(h)'
  BY <1>0, <1>1, <1>2, <1>4, <1>5 DEF InOrder, Guarded, Listening, Taking
<1>9. Scheduled(h)'
  BY <1>0, <1>2, <1>4, <1>5, Owners DEF InOrder, Scheduled, Acquiring
<1>. QED
  BY <1>0, <1>2, <1>6, <1>7, <1>8, <1>9, OneMoves DEF InOrder

\* A reload that starts or stops an agent.
LEMMA ReloadKeeps == ASSUME IInv, NEW h \in Hosts, Reload(h) PROVE IInv'
<1>0. h \in Procs /\ pc[h] = "running" /\ InOrder(h)
  BY DEF IInv, Procs, Reload
<1>1. h \in guard
  BY <1>0 DEF InOrder, Guarded
<1>2. /\ UNCHANGED <<platform, snapshot, cached, guard, peer, listens, socket>>
      /\ events \subseteq events' /\ project' \in Inputs /\ fresh' = [fresh EXCEPT ![h] = project']
  BY DEF Reload, Happens
<1>3. PICK s \in {"poll", "bind"} :
        /\ Goto(h, s) /\ child' \in [Hosts -> Agents \cup {None}]
        /\ s = "poll" => child'[h] # None /\ calls' = calls /\ scheduling' = scheduling \ {h}
        /\ s = "bind" => /\ calls' = [calls EXCEPT ![h] = [at |-> "agent", args |-> "stop", then |-> "replace"]]
                         /\ scheduling' = scheduling /\ Boots[project'] # "agent"
        /\ \A g \in Hosts \ {h} : child'[g] = child[g]
  <2>1. CASE Boots[project'] = "agent"
    <3>1. Spawn(h) /\ calls' = calls /\ scheduling' = scheduling \ {h}
      BY <2>1 DEF Reload
    <3>2. PICK a \in Agents : child' = [child EXCEPT ![h] = a]
      BY <3>1 DEF Spawn, Unused
    <3>3. a # None
      BY Owners DEF Procs
    <3>. QED
      BY <3>1, <3>2, <3>3 DEF IInv, Shapes, Stages, Spawn
  <2>2. CASE Boots[project'] # "agent"
    BY <2>2 DEF IInv, Shapes, Stages, Reload, Call
  <2>. QED
    BY <2>1, <2>2
<1>4. pc'[h] = s /\ (\A q \in Procs \ {h} : pc'[q] = pc[q]) /\ pc' \in [Procs -> Steps]
  BY <1>0, <1>3 DEF IInv, Shapes, Stages, Goto, Steps
<1>5. Stages'
  BY <1>3, <1>4, Owners DEF IInv, Shapes, Stages, Procs
<1>6. /\ calls' \in [Procs -> Requests] /\ \A q \in Procs \ {h} : calls'[q] = calls[q]
      /\ s = "poll" => calls'[h] = calls[h]
      /\ s = "bind" => calls'[h] = [at |-> "agent", args |-> "stop", then |-> "replace"]
  BY <1>0, <1>3 DEF IInv, Shapes, Values, Requests, Endpoints
<1>7. /\ fresh' \in [Procs -> Results] /\ fresh'[h] = project' /\ project' # None
      /\ \A q \in Procs \ {h} : fresh'[q] = fresh[q]
  BY <1>0, <1>2, Owners DEF IInv, Shapes, Values, Results
<1>8. /\ scheduling' \subseteq guard /\ \A q \in Procs \ {h} : q \in scheduling' <=> q \in scheduling
      /\ h \in scheduling' => Boots[project'] # "agent"
  BY <1>3 DEF IInv, Shapes, Names
<1>9. Frame({h})
  BY <1>0, <1>2, <1>4, <1>6, <1>7, <1>8 DEF Frame, Bound
<1>10. Shapes'
  BY <1>2, <1>5, <1>6, <1>7, <1>8 DEF IInv, Shapes, Names, Values
<1>11. Guarded(h)' /\ Listening(h)' /\ Taking(h)'
  BY <1>0, <1>1, <1>2, <1>4, <1>6 DEF InOrder, Guarded, Listening, Taking
<1>12. Scheduled(h)'
  BY <1>3, <1>4, <1>7, <1>8, Owners DEF Scheduled, Acquiring
<1>. QED
  BY <1>0, <1>2, <1>9, <1>10, <1>11, <1>12, OneMoves DEF InOrder

\* The schedule comes back to the host.
LEMMA replace_schedulerKeeps == ASSUME IInv, NEW h \in Hosts, replace_scheduler(h) PROVE IInv'
<1>0. h \in Procs /\ pc[h] = "replace" /\ InOrder(h)
  BY DEF IInv, Procs, replace_scheduler
<1>1. h \in guard
  BY <1>0 DEF InOrder, Guarded
<1>2. /\ UNCHANGED <<platform, project, snapshot, fresh, cached, guard, calls, peer, child>>
      /\ UNCHANGED <<listens, socket, events>> /\ scheduling' = scheduling \cup {h} /\ Goto(h, "running")
  BY DEF replace_scheduler, bootvars, linkvars, agentvars
<1>3. Stages' /\ pc'[h] = "running" /\ \A q \in Procs \ {h} : pc'[q] = pc[q]
  BY <1>0, <1>2, Goes DEF IInv, Shapes, Stages, Goto, Steps
<1>4. Frame({h})
  BY <1>0, <1>2, <1>3 DEF Frame, Bound
<1>5. Shapes'
  BY <1>1, <1>2, <1>3 DEF IInv, Shapes, Names, Values
<1>6. Guarded(h)' /\ Listening(h)' /\ Taking(h)'
  BY <1>0, <1>1, <1>2, <1>3 DEF InOrder, Guarded, Listening, Taking
<1>7. Scheduled(h)'
  BY <1>0, <1>2, <1>3, Owners DEF InOrder, Guarded, Scheduled, Acquiring
<1>. QED
  BY <1>0, <1>2, <1>4, <1>5, <1>6, <1>7, OneMoves DEF InOrder

-----------------------------------------------------------------------------
(* The names. *)

\* A process that gets a guard binds the name nobody has; one that only stops
\* an agent goes on.
LEMMA AcquiredKeeps ==
    ASSUME IInv, NEW p \in Procs, pc[p] \in {"bind", "rebind"}, Acquired(p),
           UNCHANGED <<platform, project, snapshot, bootvars, linkvars, agentvars, listens,
                       serving, scheduling, events>>
    PROVE  IInv'
<1>0. InOrder(p) /\ calls[p].at \in Endpoints /\ calls[p].then \in {"run", "drop", "replace"}
  BY DEF IInv, Shapes, Values, Requests
<1>1. /\ UNCHANGED <<platform, project, snapshot, fresh, cached, calls, peer, child>>
      /\ UNCHANGED <<listens, scheduling, events>>
  BY DEF bootvars, linkvars, agentvars
<1>2. CASE calls[p].then # "run"
  <2>1. p \in guard /\ Goto(p, calls[p].then) /\ UNCHANGED <<socket, guard>>
    BY <1>0, <1>2 DEF Acquired, InOrder, Guarded
  <2>2. Stages' /\ pc'[p] = calls[p].then /\ \A q \in Procs \ {p} : pc'[q] = pc[q]
    BY <1>0, <1>1, <1>2, <2>1, Goes DEF IInv, Shapes, Stages, Goto, Steps
  <2>3. Frame({p})
    BY <1>1, <2>1, <2>2 DEF Frame, Bound
  <2>4. Shapes'
    BY <1>1, <2>1, <2>2 DEF IInv, Shapes, Names, Values
  <2>5. Guarded(p)' /\ Listening(p)' /\ Taking(p)'
    BY <1>0, <1>1, <1>2, <2>1, <2>2 DEF InOrder, Guarded, Listening, Taking
  <2>6. Scheduled(p)'
    BY <1>0, <1>1, <1>2, <2>1, <2>2 DEF InOrder, Scheduled, Acquiring
  <2>. QED
    BY <2>1, <2>3, <2>4, <2>5, <2>6, OneMoves DEF InOrder
<1>3. CASE calls[p].then = "run"
  <2>1. calls[p].at = Own(p)
    BY <1>0, <1>3 DEF InOrder, Guarded
  <2>2. /\ socket[Own(p)] = None /\ socket' = [socket EXCEPT ![Own(p)] = p]
        /\ guard' = guard \cup {p}
    BY <1>3, <2>1 DEF Acquired, At
  <2>3. PICK s \in {"listen", "start", "join"} :
          /\ Goto(p, s)
          /\ p \in Agents => s = "listen"
          /\ p \notin Agents => s # "listen"
          /\ s = "start" => cached[p] = None
    BY <1>3 DEF Acquired
  <2>4. Stages' /\ pc'[p] = s /\ \A q \in Procs \ {p} : pc'[q] = pc[q]
    BY <1>1, <2>3, Goes DEF IInv, Shapes, Stages, Goto, Steps
  <2>5. Frame({p})
    BY <1>1, <2>2, <2>4 DEF Frame, Bound
  <2>6. /\ socket' \in [Endpoints -> Procs \cup {None}] /\ socket'[Own(p)] = p
        /\ \A e \in Endpoints \ {Own(p)} : socket'[e] = socket[e]
    BY <2>2, Owners DEF IInv, Shapes, Names
  <2>7. Shapes'
    BY <1>1, <2>2, <2>4, <2>6 DEF IInv, Shapes, Names, Values
  <2>8. Guarded(p)' /\ Listening(p)' /\ Taking(p)'
    BY <1>0, <1>1, <1>3, <2>2, <2>4 DEF InOrder, Guarded, Listening, Taking
  <2>9. Scheduled(p)'
    BY <1>0, <1>1, <1>3, <2>2, <2>3, <2>4, Owners DEF InOrder, Scheduled, Acquiring
  <2>10. NamesKept
    BY <2>6, Owners DEF NamesKept
  <2>11. Named'
    <3>. SUFFICES ASSUME NEW e \in Endpoints, ~(platform = "linux" /\ Excused(e))',
                         NEW q \in guard', Own(q) = e, Bound(q)'
                  PROVE  socket'[e] = q
      BY DEF Named
    <3>1. ~(platform = "linux" /\ Excused(e))
      BY <1>1, <2>5, ExcusedForEver DEF IInv
    <3>2. CASE q = p
      BY <2>6, <3>2
    <3>3. CASE q # p
      <4>1. q \in guard /\ q \in Procs /\ Bound(q)
        BY <2>2, <2>4, <3>3 DEF Bound, IInv, Shapes, Names
      <4>2. socket[e] = q /\ q # None
        BY <3>1, <4>1, Owners DEF IInv, Named
      <4>. QED
        BY <2>2, <2>6, <4>2
    <3>. QED
      BY <3>2, <3>3
  <2>. QED
    BY <2>5, <2>7, <2>8, <2>9, <2>10, <2>11, OthersStay DEF IInv, InOrder
<1>. QED
  BY <1>2, <1>3

\* The first bind: a name that is taken is called.
LEMMA acquireKeeps == ASSUME IInv, NEW p \in Procs, acquire(p) PROVE IInv'
<1>1. CASE Acquired(p)
  BY <1>1, AcquiredKeeps DEF acquire
<1>2. CASE socket[At(p)] # None /\ Goto(p, "connect") /\ UNCHANGED <<socket, guard>>
  <2>0. pc[p] = "bind" /\ InOrder(p)
    BY DEF IInv, acquire
  <2>1. /\ UNCHANGED <<platform, project, snapshot, fresh, cached, guard, calls, peer, child>>
        /\ UNCHANGED <<listens, scheduling, socket, events>>
    BY <1>2 DEF acquire, bootvars, linkvars, agentvars
  <2>2. Stages' /\ pc'[p] = "connect" /\ \A q \in Procs \ {p} : pc'[q] = pc[q]
    BY <1>2, <2>1, Goes DEF IInv, Shapes, Stages, Goto, Steps
  <2>3. Frame({p})
    BY <2>0, <2>1, <2>2 DEF Frame, Bound
  <2>4. Shapes'
    BY <2>1, <2>2 DEF IInv, Shapes, Names, Values
  <2>5. Guarded(p)' /\ Listening(p)' /\ Taking(p)'
    BY <1>2, <2>0, <2>1, <2>2 DEF InOrder, Guarded, Listening, Taking, At
  <2>6. Scheduled(p)'
    BY <2>0, <2>1, <2>2 DEF InOrder, Scheduled, Acquiring
  <2>. QED
    BY <2>1, <2>3, <2>4, <2>5, <2>6, OneMoves DEF InOrder
<1>. QED
  BY <1>1, <1>2 DEF acquire

\* A caller that gives up.
LEMMA GiveUpKeeps ==
    ASSUME IInv, NEW p \in Procs, pc[p] \in {"recover", "rebind"}, GiveUp(p),
           UNCHANGED <<platform, project, snapshot, fresh, cached, guard, calls, peer, child,
                       listens, scheduling, socket, events>>
    PROVE  IInv'
<1>0. InOrder(p)
  BY DEF IInv
<1>1. PICK s \in {"drop", "gone", "replace"} :
        /\ Goto(p, s)
        /\ s \in {"drop", "replace"} => p \in guard
        /\ s = "replace" => calls[p].then = "replace"
  <2>1. calls[p].then \in {"run", "drop", "replace"}
    BY DEF IInv, Shapes, Values, Requests
  <2>. QED
    BY <1>0, <2>1 DEF GiveUp, Leave, InOrder, Guarded
<1>2. Stages' /\ pc'[p] = s /\ \A q \in Procs \ {p} : pc'[q] = pc[q]
  BY <1>1, Goes DEF IInv, Shapes, Stages, Goto, Steps
<1>3. Frame({p})
  BY <1>2 DEF Frame, Bound
<1>4. Shapes'
  BY <1>2 DEF IInv, Shapes, Names, Values
<1>5. Guarded(p)' /\ Listening(p)' /\ Taking(p)'
  BY <1>0, <1>1, <1>2 DEF InOrder, Guarded, Listening, Taking
<1>6. Scheduled(p)'
  BY <1>0, <1>1, <1>2 DEF InOrder, Scheduled, Acquiring
<1>. QED
  BY <1>3, <1>4, <1>5, <1>6, OneMoves DEF InOrder

\* The second bind.
LEMMA RebindKeeps == ASSUME IInv, NEW p \in Procs, Rebind(p) PROVE IInv'
<1>1. CASE Acquired(p)
  BY <1>1, AcquiredKeeps DEF Rebind
<1>2. CASE GiveUp(p) /\ UNCHANGED <<socket, guard>>
  BY <1>2, GiveUpKeeps DEF Rebind, bootvars, linkvars, agentvars
<1>. QED
  BY <1>1, <1>2 DEF Rebind

\* A name is taken away only where a primary has gone or did not answer.
LEMMA RecoverKeeps == ASSUME IInv, NEW p \in Procs, Recover(p) PROVE IInv'
<1>0. /\ pc[p] = "recover" /\ InOrder(p) /\ calls[p].at \in Endpoints
      /\ platform = "linux" /\ Excused(calls[p].at)
  BY DEF IInv, Shapes, Values, Requests, InOrder, Taking, Recover
<1>1. /\ UNCHANGED <<platform, project, snapshot, fresh, cached, guard, calls, peer, child>>
      /\ UNCHANGED <<listens, scheduling, events>>
  BY DEF Recover, bootvars, linkvars, agentvars
<1>2. CASE GiveUp(p) /\ UNCHANGED socket
  BY <1>0, <1>1, <1>2, GiveUpKeeps
<1>3. CASE socket' = [socket EXCEPT ![At(p)] = None] /\ Goto(p, "rebind")
  <2>1. Stages' /\ pc'[p] = "rebind" /\ \A q \in Procs \ {p} : pc'[q] = pc[q]
    BY <1>1, <1>3, Goes DEF IInv, Shapes, Stages, Goto, Steps
  <2>2. Frame({p})
    BY <1>0, <1>1, <2>1 DEF Frame, Bound
  <2>3. /\ socket' \in [Endpoints -> Procs \cup {None}]
        /\ \A e \in Endpoints : socket'[e] = IF e = calls[p].at THEN None ELSE socket[e]
    BY <1>0, <1>3 DEF IInv, Shapes, Names, At
  <2>4. Shapes'
    BY <1>1, <2>1, <2>3 DEF IInv, Shapes, Names, Values
  <2>5. \A e \in Endpoints : Excused(e) => Excused(e)'
    BY <2>2, ExcusedForEver DEF IInv
  <2>6. NamesKept /\ Named'
    <3>1. \A q \in guard : Bound(q)' => Bound(q)
      BY <2>2, <1>1 DEF Frame, Bound, IInv, Shapes, Names
    <3>. QED
      BY <1>0, <1>1, <2>3, <2>5, <3>1 DEF NamesKept, IInv, Named
  <2>7. Guarded(p)' /\ Listening(p)' /\ Taking(p)'
    BY <1>0, <1>1, <2>1, <2>5 DEF InOrder, Guarded, Listening, Taking
  <2>8. Scheduled(p)'
    BY <1>0, <1>1, <2>1 DEF InOrder, Scheduled, Acquiring
  <2>. QED
    BY <2>2, <2>4, <2>6, <2>7, <2>8, OthersStay DEF IInv, InOrder
<1>. QED
  BY <1>2, <1>3 DEF Recover

\* The listener is closed: in the portable build the name of this process, and
\* of no other, goes with it.
LEMMA dropKeeps == ASSUME IInv, NEW p \in Procs, drop(p) PROVE IInv'
<1>0. pc[p] = "drop" /\ InOrder(p) /\ p \in guard /\ Bound(p) /\ Own(p) \in Endpoints
  BY Owners DEF IInv, InOrder, Guarded, Bound, drop
<1>1. /\ UNCHANGED <<platform, project, snapshot, fresh, cached, guard, calls, peer, child>>
      /\ UNCHANGED <<scheduling, events>> /\ listens' = listens \ {p}
  BY DEF drop, bootvars, linkvars, agentvars
<1>2. PICK s \in {"unlink", "drain"} : Goto(p, s) /\ (s = "unlink" => platform = "linux")
  BY DEF drop
<1>3. Stages' /\ pc'[p] = s /\ \A q \in Procs \ {p} : pc'[q] = pc[q]
  BY <1>1, <1>2, Goes DEF IInv, Shapes, Stages, Goto, Steps
<1>4. Frame({p}) /\ ~Bound(p)'
  BY <1>0, <1>1, <1>2, <1>3 DEF Frame, Bound
<1>5. Excused(Own(p))'
  BY <1>0, <1>1, <1>4 DEF Excused
<1>6. /\ socket' \in [Endpoints -> Procs \cup {None}]
      /\ \A e \in Endpoints : \/ socket'[e] = socket[e]
                              \/ socket'[e] = None /\ e = Own(p) /\ platform = "portable"
  BY DEF IInv, Shapes, Names, drop
<1>7. Shapes'
  BY <1>1, <1>3, <1>6 DEF IInv, Shapes, Names, Values
<1>8. NamesKept
  BY <1>6 DEF NamesKept
<1>9. Named'
  <2>. SUFFICES ASSUME NEW e \in Endpoints, ~(platform = "linux" /\ Excused(e))',
                       NEW q \in guard', Own(q) = e, Bound(q)'
                PROVE  socket'[e] = q
    BY DEF Named
  <2>1. ~(platform = "linux" /\ Excused(e))
    BY <1>1, <1>4, ExcusedForEver DEF IInv
  <2>2. q \in guard /\ q # p /\ Bound(q)
    BY <1>1, <1>3, <1>4 DEF Bound, IInv, Shapes, Names
  <2>3. socket[e] = q
    BY <2>1, <2>2 DEF IInv, Named
  <2>4. e # Own(p)
    BY <1>0, <2>1, <2>2, <2>3 DEF IInv, Named
  <2>. QED
    BY <1>6, <2>3, <2>4
<1>10. Guarded(p)' /\ Listening(p)' /\ Taking(p)'
  BY <1>0, <1>1, <1>2, <1>3 DEF InOrder, Guarded, Listening, Taking
<1>11. Scheduled(p)'
  BY <1>0, <1>1, <1>3 DEF InOrder, Scheduled, Acquiring
<1>. QED
  BY <1>4, <1>7, <1>8, <1>9, <1>10, <1>11, OthersStay DEF IInv, InOrder

\* On Linux the name goes, whoever is bound to it.
LEMMA UnlinkKeeps == ASSUME IInv, NEW p \in Procs, Unlink(p) PROVE IInv'
<1>0. /\ pc[p] = "unlink" /\ InOrder(p) /\ p \in guard /\ Own(p) \in Endpoints
      /\ platform = "linux" /\ Excused(Own(p))
  BY Owners DEF IInv, InOrder, Guarded, Taking, Bound, Excused, Unlink
<1>1. /\ UNCHANGED <<platform, project, snapshot, fresh, cached, guard, calls, peer, child>>
      /\ UNCHANGED <<listens, scheduling, events>>
  BY DEF Unlink, bootvars, linkvars, agentvars
<1>2. Stages' /\ pc'[p] = "drain" /\ \A q \in Procs \ {p} : pc'[q] = pc[q]
  BY <1>1, Goes DEF IInv, Shapes, Stages, Goto, Steps, Unlink
<1>3. Frame({p})
  BY <1>0, <1>1, <1>2 DEF Frame, Bound
<1>4. /\ socket' \in [Endpoints -> Procs \cup {None}]
      /\ \A e \in Endpoints : socket'[e] = IF e = Own(p) THEN None ELSE socket[e]
  BY <1>0 DEF IInv, Shapes, Names, Unlink
<1>5. Shapes'
  BY <1>1, <1>2, <1>4 DEF IInv, Shapes, Names, Values
<1>6. \A e \in Endpoints : Excused(e) => Excused(e)'
  BY <1>3, ExcusedForEver DEF IInv
<1>7. NamesKept /\ Named'
  <2>1. \A q \in guard : Bound(q)' => Bound(q)
    BY <1>1, <1>3 DEF Frame, Bound, IInv, Shapes, Names
  <2>. QED
    BY <1>0, <1>1, <1>4, <1>6, <2>1 DEF NamesKept, IInv, Named
<1>8. Guarded(p)' /\ Listening(p)' /\ Taking(p)'
  BY <1>0, <1>1, <1>2 DEF InOrder, Guarded, Listening, Taking
<1>9. Scheduled(p)'
  BY <1>0, <1>1, <1>2 DEF InOrder, Scheduled, Acquiring
<1>. QED
  BY <1>3, <1>5, <1>7, <1>8, <1>9, OthersStay DEF IInv, InOrder

-----------------------------------------------------------------------------
(* Kills. *)

\* The processes in ps are killed in a step of those in S.
LEMMA KillKeeps ==
    ASSUME IInv, NEW S, NEW ps \in SUBSET S, Killed(ps), Frame(S), Stages',
           UNCHANGED <<project, snapshot, fresh, cached, guard, calls, peer>>,
           \A q \in ps : pc'[q] = "gone", \A q \in S : InOrder(q)'
    PROVE  IInv'
<1>1. /\ socket' \in [Endpoints -> Procs \cup {None}]
      /\ \A e \in Endpoints : \/ socket'[e] = socket[e]
                              \/ socket'[e] = None /\ socket[e] \in ps /\ platform = "portable"
      /\ listens' = listens \ ps /\ scheduling' = scheduling \ ps /\ platform' = platform
  BY DEF Killed, Frame, IInv, Shapes, Names
<1>2. NamesKept
  BY <1>1 DEF NamesKept
<1>3. Shapes'
  BY <1>1 DEF IInv, Shapes, Names, Values
<1>4. Named'
  <2>. SUFFICES ASSUME NEW e \in Endpoints, ~(platform = "linux" /\ Excused(e))',
                       NEW q \in guard', Own(q) = e, Bound(q)'
                PROVE  socket'[e] = q
    BY DEF Named
  <2>1. ~(platform = "linux" /\ Excused(e))
    BY <1>1, ExcusedForEver DEF IInv
  <2>2. q \in guard /\ q \notin ps /\ Bound(q)
    BY DEF Frame, Bound, IInv, Shapes, Names
  <2>3. socket[e] = q
    BY <2>1, <2>2 DEF IInv, Named
  <2>. QED
    BY <1>1, <2>2, <2>3
<1>5. \A q \in Procs : InOrder(q)'
  BY <1>2, OthersStay
<1>. QED
  BY <1>3, <1>4, <1>5 DEF IInv

\* A process that is killed leaves nothing behind but, on Linux, its name.
LEMMA GoneInOrder ==
    ASSUME IInv, NEW p \in Procs, pc'[p] = "gone", listens' \subseteq listens,
           scheduling' \subseteq scheduling, events \subseteq events',
           UNCHANGED <<fresh, cached, guard, calls, peer>>
    PROVE  InOrder(p)'
<1>1. InOrder(p)
  BY DEF IInv
<1>2. Guarded(p)' /\ Listening(p)' /\ Taking(p)'
  BY <1>1 DEF InOrder, Guarded, Listening, Taking
<1>3. Scheduled(p)'
  BY <1>1 DEF InOrder, Scheduled, Acquiring
<1>. QED
  BY <1>2, <1>3 DEF InOrder

\* A kill from outside.
LEMMA CrashKeeps == ASSUME IInv, NEW p \in Procs, Crash(p) PROVE IInv'
<1>1. /\ UNCHANGED <<platform, project, snapshot, fresh, cached, guard, calls, peer, child>>
      /\ events \subseteq events' /\ Killed({p}) /\ Goto(p, "gone")
  BY DEF Crash, bootvars, linkvars, agentvars, Happens
<1>2. Stages' /\ pc'[p] = "gone" /\ \A q \in Procs \ {p} : pc'[q] = pc[q]
  BY <1>1, Goes DEF IInv, Shapes, Stages, Goto, Steps
<1>3. listens' = listens \ {p} /\ scheduling' = scheduling \ {p}
  BY <1>1 DEF Killed
<1>4. Frame({p})
  BY <1>1, <1>2, <1>3 DEF Frame, Bound
<1>5. InOrder(p)'
  BY <1>1, <1>2, <1>3, GoneInOrder
<1>. QED
  BY <1>1, <1>2, <1>4, <1>5, KillKeeps

\* A host that waited for an agent goes on, or out, and may kill it.
LEMMA SpawnEndsKeeps ==
    ASSUME IInv, NEW h \in Hosts, pc[h] \in {"poll", "status"}, NEW ok,
           NEW killed \in SUBSET {child[h]}, SpawnEnds(h, ok, killed), events \subseteq events',
           UNCHANGED <<platform, project, snapshot, fresh, cached, guard, calls, peer>>
    PROVE  IInv'
<1>0. h \in Procs /\ InOrder(h) /\ killed \subseteq Agents /\ killed \subseteq Procs /\ h \notin killed
  BY Owners DEF Procs, IInv, Shapes, Stages
<1>1. listens' = listens \ killed /\ scheduling' = scheduling \ killed /\ Killed(killed)
  BY DEF SpawnEnds, Killed
<1>2. PICK s \in {"running", "bind", "gone"} :
        /\ pc' = [p \in Procs |-> IF p = h THEN s ELSE IF p \in killed THEN "gone" ELSE pc[p]]
        /\ s = "running" => h \in guard
        /\ s = "bind" => h \notin guard
  BY DEF SpawnEnds
<1>3. /\ pc'[h] = s /\ \A q \in killed : pc'[q] = "gone"
      /\ \A q \in Procs \ ({h} \cup killed) : pc'[q] = pc[q]
  BY <1>0, <1>2
<1>4. Stages'
  <2>1. child' = [child EXCEPT ![h] = None]
    BY DEF SpawnEnds
  <2>2. pc' \in [Procs -> Steps]
    BY <1>2 DEF IInv, Shapes, Stages, Steps
  <2>3. ASSUME NEW g \in Hosts, pc'[g] \in {"poll", "status"} PROVE child'[g] # None
    BY <1>0, <1>3, <2>1, <2>3 DEF IInv, Shapes, Stages, Procs
  <2>. QED
    BY <2>1, <2>2, <2>3 DEF IInv, Shapes, Stages
<1>5. Frame({h} \cup killed)
  BY <1>0, <1>1, <1>3 DEF Frame, Bound
<1>6. \A q \in killed : InOrder(q)'
  BY <1>0, <1>1, <1>3, GoneInOrder
<1>7. InOrder(h)'
  <2>1. h \in listens' <=> h \in listens
    BY <1>0, <1>1
  <2>2. h \in scheduling' <=> h \in scheduling
    BY <1>0, <1>1
  <2>3. Guarded(h)' /\ Listening(h)' /\ Taking(h)'
    BY <1>0, <1>2, <1>3, <2>1 DEF InOrder, Guarded, Listening, Taking
  <2>4. Scheduled(h)'
    BY <1>0, <1>2, <1>3, <2>2, Owners DEF InOrder, Guarded, Scheduled, Acquiring
  <2>. QED
    BY <2>3, <2>4 DEF InOrder
<1>. QED
  BY <1>1, <1>3, <1>4, <1>5, <1>6, <1>7, KillKeeps

\* A host that looks again.
LEMMA LooksAgainKeeps ==
    ASSUME IInv, NEW h \in Hosts, pc[h] \in {"poll", "status"}, NEW s \in {"poll", "status"},
           Goto(h, s),
           UNCHANGED <<platform, project, snapshot, fresh, cached, guard, calls, peer, child,
                       listens, scheduling, socket, events>>
    PROVE  IInv'
<1>0. h \in Procs /\ InOrder(h)
  BY DEF Procs, IInv
<1>1. child[h] # None
  BY DEF IInv, Shapes, Stages
<1>2. Stages' /\ pc'[h] = s /\ \A q \in Procs \ {h} : pc'[q] = pc[q]
  BY <1>0, <1>1, Goes DEF IInv, Shapes, Stages, Goto, Steps
<1>3. Frame({h})
  BY <1>0, <1>2 DEF Frame, Bound
<1>4. Shapes'
  BY <1>2 DEF IInv, Shapes, Names, Values
<1>5. Guarded(h)' /\ Listening(h)' /\ Taking(h)'
  BY <1>0, <1>2 DEF InOrder, Guarded, Listening, Taking
<1>6. Scheduled(h)'
  BY <1>0, <1>2, Owners DEF InOrder, Scheduled, Acquiring
<1>. QED
  BY <1>0, <1>3, <1>4, <1>5, <1>6, OneMoves DEF InOrder

\* The readiness file, when it is there.
LEMMA ReadReadinessKeeps == ASSUME IInv, NEW h \in Hosts, ReadReadiness(h) PROVE IInv'
<1>0. pc[h] = "poll"
  BY DEF ReadReadiness
<1>1. UNCHANGED <<platform, project, snapshot, fresh, cached, guard, calls, peer, events>>
  BY DEF ReadReadiness, bootvars, linkvars
<1>2. CASE Goto(h, "status") /\ UNCHANGED <<child, ready, procvars>>
  BY <1>0, <1>1, <1>2, LooksAgainKeeps DEF procvars
<1>3. CASE \E ok \in BOOLEAN, killed \in SUBSET {child[h]} : SpawnEnds(h, ok, killed)
  BY <1>0, <1>1, <1>3, SpawnEndsKeeps
<1>. QED
  BY <1>2, <1>3 DEF ReadReadiness

\* The status of the child, and the deadline.
LEMMA TryWaitKeeps == ASSUME IInv, NEW h \in Hosts, TryWait(h) PROVE IInv'
<1>0. pc[h] = "status"
  BY DEF TryWait
<1>1. /\ UNCHANGED <<platform, project, snapshot, fresh, cached, guard, calls, peer>>
      /\ events \subseteq events'
  BY DEF TryWait, bootvars, linkvars, Happens
<1>2. CASE Goto(h, "poll") /\ UNCHANGED <<child, ready, procvars, events>>
  BY <1>0, <1>1, <1>2, LooksAgainKeeps DEF procvars
<1>3. CASE \E ok \in BOOLEAN, killed \in SUBSET {child[h]} : SpawnEnds(h, ok, killed)
  BY <1>0, <1>1, <1>3, SpawnEndsKeeps
<1>. QED
  BY <1>2, <1>3 DEF TryWait

\* An edit concerns no process.
LEMMA EditKeeps == ASSUME IInv, Edit PROVE IInv'
<1>1. /\ UNCHANGED <<platform, snapshot, fresh, cached, guard, calls, peer, child, pc>>
      /\ UNCHANGED <<listens, scheduling, socket>> /\ events \subseteq events' /\ project' \in Inputs
  BY DEF Edit, bootvars, linkvars, agentvars, procvars, Happens
<1>2. Shapes'
  BY <1>1 DEF IInv, Shapes, Names, Values, Stages
<1>3. Frame({})
  BY <1>1 DEF Frame
<1>4. NamesKept
  BY <1>1 DEF NamesKept
<1>5. \A q \in Procs : InOrder(q)'
  BY <1>3, <1>4, OthersStay
<1>6. Named'
  BY <1>1, <1>3, ExcusedForEver DEF IInv, Named, Bound
<1>. QED
  BY <1>2, <1>5, <1>6 DEF IInv

-----------------------------------------------------------------------------
\* At first nobody runs.
LEMMA InitialInvariant == Init => IInv
<1>. SUFFICES ASSUME Init PROVE IInv
  OBVIOUS
<1>1. Shapes
  <2>1. Names /\ Stages
    BY DEF Init, Names, Stages, Steps, Procs
  <2>2. calls \in [Procs -> Requests]
    BY Owners DEF Init, Requests
  <2>. QED
    BY <2>1, <2>2 DEF Init, Shapes, Values, Results
<1>2. Named
  BY DEF Init, Named
<1>3. \A p \in Procs : InOrder(p)
  BY DEF Init, InOrder, Guarded, Listening, Taking, Scheduled, Acquiring
<1>. QED
  BY <1>1, <1>2, <1>3 DEF IInv

\* No step breaks the invariant.
LEMMA InvariantKept == IInv /\ [Next]_vars => IInv'
<1>. SUFFICES ASSUME IInv, [Next]_vars PROVE IInv'
  OBVIOUS
<1>1. CASE UNCHANGED vars
  BY <1>1 DEF vars, bootvars, linkvars, agentvars, procvars, IInv, Shapes, Names, Values, Stages,
              Named, InOrder, Guarded, Listening, Taking, Scheduled, Excused, Bound
<1>2. CASE \E h \in Hosts :
         \/ prepare_interactive(h) \/ WorkerStarts(h) \/ Decide(h) \/ ReadReadiness(h)
         \/ TryWait(h) \/ Join(h) \/ Start(h) \/ Quit(h) \/ Reload(h) \/ replace_scheduler(h)
  BY <1>2, prepare_interactiveKeeps, WorkerStartsKeeps, DecideKeeps, ReadReadinessKeeps,
     TryWaitKeeps, JoinKeeps, StartKeeps, QuitKeeps, ReloadKeeps, replace_schedulerKeeps
<1>3. CASE \E a \in Agents :
         \/ prepare(a) \/ listen(a) \/ Services(a) \/ publish_readiness(a) \/ ReceiveStop(a)
  BY <1>3, prepareKeeps, listenKeeps, ServicesKeeps, publish_readinessKeeps, ReceiveStopKeeps
<1>4. CASE \E p \in Procs :
         \/ acquire(p) \/ forward(p) \/ ReadAck(p) \/ Recover(p) \/ Rebind(p)
         \/ Accept(p) \/ Handle(p) \/ drop(p) \/ Unlink(p) \/ Drain(p) \/ Crash(p)
  BY <1>4, acquireKeeps, forwardKeeps, ReadAckKeeps, RecoverKeeps, RebindKeeps, AcceptKeeps,
     HandleKeeps, dropKeeps, UnlinkKeeps, DrainKeeps, CrashKeeps
<1>5. CASE Edit
  BY <1>5, EditKeeps
<1>. QED
  BY <1>1, <1>2, <1>3, <1>4, <1>5 DEF Next

\* The invariant holds in every state.
LEMMA Invariant == Spec => []IInv
BY InitialInvariant, InvariantKept, PTL DEF Spec

\* Two primaries of one endpoint are excused.
LEMMA TwoPrimaries ==
    ASSUME IInv, NEW e \in Endpoints, NEW p \in Primaries(e), NEW q \in Primaries(e), p # q
    PROVE  platform = "linux" /\ Excused(e)
<1>1. p \in guard /\ q \in guard /\ Own(p) = e /\ Own(q) = e /\ Bound(p) /\ Bound(q)
  BY DEF Primaries, Bound
<1>. QED
  BY <1>1 DEF IInv, Named

\* acquire leaves one primary per endpoint, however many processes start, stop
\* and are killed: always in the portable build, and on Linux until a wait goes
\* unanswered, an activation is too large or a primary has gone.
THEOREM OnePrimary == Spec => []SinglePrimary
<1>1. IInv => SinglePrimary
  <2>. SUFFICES ASSUME IInv, NEW e \in Endpoints, Cardinality(Primaries(e)) > 1
                PROVE  platform = "linux" /\ Excused(e)
    BY DEF SinglePrimary
  <2>1. \E p, q \in Primaries(e) : p # q
    <3>1. Primaries(e) # {}
      BY FS_EmptySet
    <3>2. PICK p \in Primaries(e) : TRUE
      BY <3>1
    <3>3. Primaries(e) # {p}
      BY FS_Singleton
    <3>. QED
      BY <3>2, <3>3
  <2>. QED
    BY <2>1, TwoPrimaries
<1>. QED
  BY <1>1, Invariant, PTL

\* Processes that booted from the same project never both run the jobs, except
\* where there may be two primaries: a host and an agent do not because PHP
\* asked for an agent or did not, two of a kind because one is the primary.
THEOREM JobsHaveOneSchedule == Spec => []OneSchedule
<1>1. IInv => OneSchedule
  <2>. SUFFICES ASSUME IInv, NEW p \in LiveSchedules, NEW q \in LiveSchedules, p # q,
                       fresh[p] = fresh[q]
                PROVE  platform = "linux" /\ \E e \in Endpoints : Excused(e)
    BY DEF OneSchedule
  <2>1. /\ p \in scheduling /\ q \in scheduling /\ p \in guard /\ q \in guard
        /\ p \in Procs /\ q \in Procs /\ Bound(p) /\ Bound(q)
    BY DEF LiveSchedules, Bound, IInv, Shapes, Names
  <2>2. CASE Own(p) = Own(q)
    <3>1. p \in Primaries(Own(p)) /\ q \in Primaries(Own(p)) /\ Own(p) \in Endpoints
      BY <2>1, <2>2, Owners DEF Primaries
    <3>. QED
      BY <3>1, TwoPrimaries
  <2>3. CASE Own(p) # Own(q)
    <3>1. (p \in Hosts /\ q \in Agents) \/ (p \in Agents /\ q \in Hosts)
      BY <2>1, <2>3, Owners DEF Procs
    <3>2. \A h \in Hosts : h \in scheduling => Boots[fresh[h]] # "agent"
      BY DEF IInv, InOrder, Scheduled, Procs
    <3>3. \A a \in Agents : a \in guard => Boots[fresh[a]] = "agent"
      BY DEF IInv, InOrder, Scheduled, Procs
    <3>. QED
      BY <2>1, <3>1, <3>2, <3>3
  <2>. QED
    BY <2>2, <2>3
<1>. QED
  BY <1>1, Invariant, PTL

\* Whoever waits for an answer of a process faces a listener, or a process that
\* is about to start or close its own and waits for nobody meanwhile.
THEOREM NobodyWaitsInCircles == Spec => []NoCircularWait
<1>1. IInv => NoCircularWait
  <2>. SUFFICES ASSUME IInv, NEW q, Bound(q)
                PROVE  q \in listens \/ pc[q] \in {"join", "start", "listen", "drop"}
    BY DEF NoCircularWait
  <2>1. q \in guard /\ q \in Procs /\ pc[q] \notin {"unlink", "drain", "gone"}
    BY DEF Bound, IInv, Shapes, Names
  <2>. QED
    BY <2>1 DEF IInv, InOrder, Listening
<1>. QED
  BY <1>1, Invariant, PTL

\* Only a start takes a snapshot.
LEMMA CachedByStart ==
    ASSUME Next, cached' # cached
    PROVE  \E h \in Hosts : prepare_interactive(h)
BY DEF Next, WorkerStarts, Decide, ReadReadiness, TryWait, Join, Start, Quit, Reload, replace_scheduler,
       prepare, listen, Services, publish_readiness, ReceiveStop, acquire, forward, ReadAck, Recover,
       Rebind, Accept, Handle, drop, Unlink, Drain, Crash, Edit, bootvars

\* A host starts beside a snapshot only if PHP would boot the same now, up to
\* what the fingerprint leaves out and an edit between the publisher's
\* fingerprint and its worker.
THEOREM SnapshotsAreCurrent == Spec => SnapshotHitIsCurrent
<1>1. ASSUME IInv, [Next]_vars, NEW g \in Hosts, cached'[g] # cached[g]
      PROVE  \/ cached'[g] = project
             \/ snapshot.from.ext # project.ext
             \/ snapshot.from.fp # snapshot.fp
  <2>1. PICK h \in Hosts : prepare_interactive(h)
    BY <1>1, CachedByStart DEF vars, bootvars
  <2>2. h \in Procs /\ pc[h] = "new" /\ cached' = [cached EXCEPT ![h] = load(h)]
    BY <2>1 DEF prepare_interactive, Procs
  <2>3. g = h /\ cached[g] = None /\ cached'[g] = load(g)
    BY <1>1, <2>2 DEF IInv, InOrder, Guarded, Shapes, Values, Procs
  <2>4. snapshot # None /\ snapshot.fp = project.fp /\ cached'[g] = snapshot.from
    BY <1>1, <2>3 DEF load, project_fingerprint
  <2>5. snapshot.from \in [fp : Nat, ext : Nat] /\ project \in [fp : Nat, ext : Nat]
    BY <1>1, <2>4, HostAssumption DEF IInv, Shapes, Values, Inputs
  <2>6. snapshot.from.fp = project.fp /\ snapshot.from.ext = project.ext => snapshot.from = project
    BY <2>5
  <2>. QED
    BY <2>4, <2>6
<1>2. IInv /\ [Next]_vars => [\A h \in Hosts : cached'[h] # cached[h] =>
                                 \/ cached'[h] = project
                                 \/ snapshot.from.ext # project.ext
                                 \/ snapshot.from.fp # snapshot.fp]_vars
  BY <1>1
<1>. QED
  BY <1>2, Invariant, PTL DEF Spec, SnapshotHitIsCurrent

=============================================================================
