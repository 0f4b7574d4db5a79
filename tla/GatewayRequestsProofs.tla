------------------------ MODULE GatewayRequestsProofs ------------------------
(***************************************************************************)
(* GatewayRequests for any number of requests, windows, page loads and hot  *)
(* reloads: what the cancellation table holds, that isolation keys keep     *)
(* their workers to themselves, and that a pool has enough of them.         *)
(***************************************************************************)
EXTENDS GatewayRequests, FiniteSetTheorems, WellFoundedInduction, TLAPS

\* The shape of the variables the argument reads.
Shapes == /\ pc \in [Requests -> HandlerStates]
          /\ task \in [Requests -> TaskStates]
          /\ DOMAIN key = Requests
          /\ DOMAIN execution = Requests
          /\ DOMAIN isolation = Requests
          /\ DOMAIN ikey = Requests
          /\ DOMAIN worker = Requests
          /\ home \in [Requests -> Pools]
          /\ sent \in 0..MaxRequests
          /\ \A r \in Requests : r > sent => pc[r] = "unsent"
          /\ parallel_workers \in Pools /\ version \in Pools
          /\ bootstrap \in Configs
          /\ workers \in [Pools -> Nat]
          /\ next_affinity \in [Pools -> Nat]
          /\ DOMAIN affinities = Pools

\* A request whose key is in the table on its account.
Occupies(r) == UnderWay(r) \/ pc[r] = "dropped"

Table == /\ \A r \in Requests : Occupies(r) => key[r] \in DOMAIN cancellations
         /\ \A r, s \in Requests : Occupies(r) /\ Occupies(s) /\ key[r] = key[s] => r = s
         /\ \A k \in DOMAIN cancellations : \E r \in Requests : Occupies(r) /\ key[r] = k
         /\ \A r \in Requests : task[r] # "none" => pc[r] \in {"await", "dropped"}

\* Affinities are handed out in order, each worker once; a keyed request that
\* runs has the worker of its key.
Affinities ==
    /\ \A p \in Pools : \A k \in DOMAIN affinities[p] :
           affinities[p][k] \in 1..next_affinity[p]
    /\ \A p \in Pools : \A k, l \in DOMAIN affinities[p] :
           affinities[p][k] = affinities[p][l] => k = l
    /\ \A r \in Requests :
           pc[r] \in {"unsent", "sent", "register", "execution"}
               => isolation[r] = "shared"
    /\ \A r \in Requests : Keyed(r) /\ task[r] = "running" =>
           /\ ikey[r] \in DOMAIN affinities[home[r]]
           /\ affinities[home[r]][ikey[r]] = worker[r]

\* The inductive invariant.
IInv == Shapes /\ Table /\ Affinities

-----------------------------------------------------------------------------
\* A configuration asks for a number of workers.
LEMMA CountType ==
    ASSUME NEW c \in Configs
    PROVE  requested_parallel_count(c) \in Nat
  BY RequestsAssumption, FS_CardinalityType DEF ConfigOK, requested_parallel_count

LEMMA InitIInv == Init => IInv
  BY RequestsAssumption, CountType
     DEF Init, IInv, Shapes, Table, Affinities, HandlerStates, TaskStates,
         Occupies, UnderWay, Keyed, Empty, Requests, Pools

\* A handler's return keeps the shapes.
LEMMA ReturnShapes ==
    ASSUME Shapes, NEW r \in Requests, NEW p \in {"done", "conflict"}, pc[r] # "unsent",
           Return(r, p), UNCHANGED <<host, pool, page>>
    PROVE  Shapes'
  BY RequestsAssumption
     DEF Shapes, HandlerStates, TaskStates, Requests, Pools, host, pool, page, Return

\* Every action keeps the shapes.
LEMMA NextShapes == IInv /\ [Next]_vars => Shapes'
<1> SUFFICES ASSUME IInv, [Next]_vars
             PROVE  Shapes'
  OBVIOUS
<1> USE RequestsAssumption
    DEF IInv, Shapes, HandlerStates, TaskStates, Requests, Pools, host, pool, page, req,
        handlerReads, taskOnly
<1>1. ASSUME NEW r \in Requests, Abort(r)
      PROVE  Shapes'
  BY <1>1 DEF Abort
<1>2. ASSUME NEW r \in Requests, NeverArrives(r)
      PROVE  Shapes'
  BY <1>2, ReturnShapes DEF NeverArrives
<1>3. ASSUME NEW r \in Requests, CheckWindow(r)
      PROVE  Shapes'
  <2>1. CASE Return(r, "done")
    BY <1>3, <2>1, ReturnShapes DEF CheckWindow
  <2>2. CASE ~Return(r, "done")
    BY <1>3, <2>2 DEF CheckWindow
  <2> QED
    BY <2>1, <2>2
<1>4. ASSUME NEW r \in Requests, Register(r)
      PROVE  Shapes'
  <2>1. CASE key[r] \in DOMAIN cancellations
    BY <1>4, <2>1, ReturnShapes DEF Register
  <2>2. CASE key[r] \notin DOMAIN cancellations /\ command[r] # Plugin
    BY <1>4, <2>2 DEF Register
  <2>3. CASE key[r] \notin DOMAIN cancellations /\ command[r] = Plugin
    BY <1>4, <2>3 DEF Register
  <2> QED
    BY <2>1, <2>2, <2>3
<1>5. ASSUME NEW r \in Requests, ReadExecution(r)
      PROVE  Shapes'
  BY <1>5 DEF ReadExecution
<1>6. ASSUME NEW r \in Requests, ReadIsolation(r)
      PROVE  Shapes'
  BY <1>6 DEF ReadIsolation
<1>7. ASSUME NEW r \in Requests, ReadKey(r)
      PROVE  Shapes'
  BY <1>7 DEF ReadKey
<1>8. ASSUME NEW r \in Requests, Spawn(r)
      PROVE  Shapes'
  BY <1>8 DEF Spawn
<1>9. ASSUME NEW r \in Requests, DropHandler(r)
      PROVE  Shapes'
  BY <1>9 DEF DropHandler
<1>10. ASSUME NEW r \in Requests, Finish(r)
      PROVE  Shapes'
  BY <1>10, ReturnShapes DEF Finish
<1>11. ASSUME NEW r \in Requests, RunPrimary(r)
      PROVE  Shapes'
  BY <1>11 DEF RunPrimary
<1>12. ASSUME NEW r \in Requests, RunParallel(r)
      PROVE  Shapes'
  <2>1. CASE workers[home[r]] = 0
    BY <1>12, <2>1 DEF RunParallel
  <2>2. CASE workers[home[r]] # 0
    BY <1>12, <2>2 DEF RunParallel
  <2> QED
    BY <2>1, <2>2
<1>13. ASSUME NEW r \in Requests, request_keyed(r)
      PROVE  Shapes'
  <2>1. next_affinity' \in [Pools -> Nat]
    <3>1. \/ next_affinity' = next_affinity
          \/ next_affinity' = [next_affinity EXCEPT ![home[r]] = @ + 1]
      <4>. HIDE DEF IInv
      <4> QED
        BY <1>13 DEF request_keyed
    <3>2. home[r] \in Pools /\ next_affinity \in [Pools -> Nat]
      OBVIOUS
    <3>. HIDE DEF IInv, Pools
    <3> QED
      BY <3>1, <3>2
  <2>2. task' \in [Requests -> TaskStates]
    BY <1>13 DEF request_keyed
  <2>3. DOMAIN affinities' = Pools /\ DOMAIN worker' = Requests
    BY <1>13 DEF request_keyed
  <2> QED
    BY <1>13, <2>1, <2>2, <2>3 DEF request_keyed
<1>14. ASSUME NEW r \in Requests, TaskEnds(r)
      PROVE  Shapes'
  BY <1>14 DEF TaskEnds
<1>15. ASSUME NEW w \in Windows, Load(w)
      PROVE  Shapes'
  BY <1>15 DEF Load
<1>16. ASSUME NEW u \in Uses, Send(u[1], u[2])
      PROVE  Shapes'
  <2>1. /\ sent' = sent + 1
        /\ sent < MaxRequests
        /\ pc' = [pc EXCEPT ![sent + 1] = "sent"]
    BY <1>16 DEF Send
  <2>2. /\ pc' \in [Requests -> HandlerStates]
        /\ sent' \in 0..MaxRequests
        /\ \A r \in Requests : r > sent' => pc'[r] = "unsent"
    BY <2>1
  <2>3. DOMAIN key' = Requests
    BY <1>16 DEF Send
  <2> QED
    BY <1>16, <2>2, <2>3 DEF Send
<1>17. ASSUME NEW k \in cancels, cancel(k)
      PROVE  Shapes'
  BY <1>17 DEF cancel
<1>18. ASSUME NEW c \in Configs, SwapBootstrap(c)
      PROVE  Shapes'
  BY <1>18 DEF SwapBootstrap
<1>19. CASE SwapPool
  BY <1>19, CountType DEF SwapPool
<1>20. CASE UNCHANGED vars
  BY <1>20 DEF vars
<1> QED
  BY <1>1, <1>2, <1>3, <1>4, <1>5, <1>6, <1>7, <1>8, <1>9, <1>10, <1>11, <1>12, <1>13,
     <1>14, <1>15, <1>16, <1>17, <1>18, <1>19, <1>20 DEF Next, Handle, Run

\* The return of a handler that is not in the table leaves it as it is.
LEMMA ReturnTable ==
    ASSUME Shapes, Table, NEW r \in Requests, NEW p \in {"done", "conflict"},
           ~Occupies(r), Return(r, p), DOMAIN cancellations' = DOMAIN cancellations
    PROVE  Table'
<1>1. \A s \in Requests : /\ Occupies(s)' <=> Occupies(s)
                          /\ Occupies(s) => key'[s] = key[s]
                          /\ task'[s] # "none" => task[s] # "none" /\ pc'[s] = pc[s]
  BY DEF Shapes, Occupies, UnderWay, Return
<1> QED
  BY <1>1 DEF Table

\* Every action keeps the table of the requests that occupy it.
LEMMA NextTable == IInv /\ [Next]_vars => Table'
<1> SUFFICES ASSUME IInv, [Next]_vars
             PROVE  Table'
  OBVIOUS
<1> USE DEF IInv, Shapes, Table, Occupies, UnderWay, TaskStates, HandlerStates, page, req,
            handlerReads, taskOnly, Return
<1>1. ASSUME NEW r \in Requests, Abort(r)
      PROVE  Table'
  BY <1>1 DEF Abort
<1>2. ASSUME NEW r \in Requests, NeverArrives(r)
      PROVE  Table'
  <2>. HIDE DEF Return, Table
  <2> QED
    BY <1>2, ReturnTable DEF NeverArrives
<1>3. ASSUME NEW r \in Requests, CheckWindow(r)
      PROVE  Table'
  <2>1. CASE Return(r, "done")
    <3>. HIDE DEF Return, Table
    <3> QED
      BY <1>3, <2>1, ReturnTable DEF CheckWindow
  <2>2. CASE ~Return(r, "done")
    BY <1>3, <2>2 DEF CheckWindow
  <2> QED
    BY <2>1, <2>2
<1>4. ASSUME NEW r \in Requests, Register(r)
      PROVE  Table'
  <2>1. CASE key[r] \in DOMAIN cancellations
    <3>. HIDE DEF Return, Table
    <3>1. DOMAIN cancellations' = DOMAIN cancellations
      BY <1>4, <2>1 DEF Register, Put
    <3> QED
      BY <1>4, <2>1, <3>1, ReturnTable DEF Register
  <2>2. CASE key[r] \notin DOMAIN cancellations /\ command[r] # Plugin
    <3>. HIDE DEF IInv, Return
    <3>1. /\ DOMAIN cancellations' = DOMAIN cancellations \cup {key[r]}
          /\ key' = key
      BY <1>4, <2>2 DEF Register, Put
    <3>. USE DEF IInv, Return
    <3>2. \A s \in Requests : /\ Occupies(s)' <=> Occupies(s) \/ s = r
                              /\ task'[s] # "none" => pc'[s] \in {"await", "dropped"}
      BY <1>4, <2>2 DEF Register
    <3> QED
      BY <2>2, <3>1, <3>2
  <2>3. CASE key[r] \notin DOMAIN cancellations /\ command[r] = Plugin
    <3>. HIDE DEF IInv, Return
    <3>1. /\ DOMAIN cancellations' = DOMAIN cancellations \cup {key[r]}
          /\ key' = key
      BY <1>4, <2>3 DEF Register, Put
    <3>. USE DEF IInv, Return
    <3>2. \A s \in Requests : /\ Occupies(s)' <=> Occupies(s) \/ s = r
                              /\ task'[s] # "none" => pc'[s] \in {"await", "dropped"}
      BY <1>4, <2>3 DEF Register
    <3> QED
      BY <2>3, <3>1, <3>2
  <2> QED
    BY <2>1, <2>2, <2>3
<1>5. ASSUME NEW r \in Requests, ReadExecution(r)
      PROVE  Table'
  BY <1>5 DEF ReadExecution
<1>6. ASSUME NEW r \in Requests, ReadIsolation(r)
      PROVE  Table'
  BY <1>6 DEF ReadIsolation
<1>7. ASSUME NEW r \in Requests, ReadKey(r)
      PROVE  Table'
  BY <1>7 DEF ReadKey
<1>8. ASSUME NEW r \in Requests, Spawn(r)
      PROVE  Table'
  BY <1>8 DEF Spawn
<1>9. ASSUME NEW r \in Requests, DropHandler(r)
      PROVE  Table'
  BY <1>9 DEF DropHandler
<1>10. ASSUME NEW r \in Requests, Finish(r)
      PROVE  Table'
  <2>. HIDE DEF IInv, Return
  <2>1. DOMAIN cancellations' = DOMAIN cancellations \ {key[r]}
    BY <1>10 DEF Finish, Drop
  <2>. USE DEF IInv, Return
  <2>2. \A s \in Requests : /\ Occupies(s)' <=> Occupies(s) /\ s # r
                            /\ s # r => key'[s] = key[s]
                            /\ task'[s] # "none" => task[s] # "none" /\ pc'[s] = pc[s]
    BY <1>10 DEF Finish
  <2>3. Occupies(r)
    BY <1>10 DEF Finish
  <2> QED
    BY <2>1, <2>2, <2>3
<1>11. ASSUME NEW r \in Requests, RunPrimary(r)
      PROVE  Table'
  BY <1>11 DEF RunPrimary
<1>12. ASSUME NEW r \in Requests, RunParallel(r)
      PROVE  Table'
  BY <1>12 DEF RunParallel
<1>13. ASSUME NEW r \in Requests, request_keyed(r)
      PROVE  Table'
  BY <1>13 DEF request_keyed
<1>14. ASSUME NEW r \in Requests, TaskEnds(r)
      PROVE  Table'
  BY <1>14 DEF TaskEnds
<1>15. ASSUME NEW w \in Windows, Load(w)
      PROVE  Table'
  BY <1>15 DEF Load
<1>16. ASSUME NEW u \in Uses, Send(u[1], u[2])
      PROVE  Table'
  BY <1>16 DEF Send
<1>17. ASSUME NEW k \in cancels, cancel(k)
      PROVE  Table'
  BY <1>17 DEF cancel
<1>18. ASSUME NEW c \in Configs, SwapBootstrap(c)
      PROVE  Table'
  BY <1>18 DEF SwapBootstrap
<1>19. CASE SwapPool
  BY <1>19 DEF SwapPool
<1>20. CASE UNCHANGED vars
  BY <1>20 DEF vars
<1> QED
  BY <1>1, <1>2, <1>3, <1>4, <1>5, <1>6, <1>7, <1>8, <1>9, <1>10, <1>11, <1>12, <1>13,
     <1>14, <1>15, <1>16, <1>17, <1>18, <1>19, <1>20 DEF Next, Handle, Run

\* Every action keeps the affinities.
LEMMA NextAffinities == IInv /\ [Next]_vars => Affinities'
<1> SUFFICES ASSUME IInv, [Next]_vars
             PROVE  Affinities'
  OBVIOUS
<1> USE DEF IInv, Shapes, Table, Affinities, Keyed, TaskStates, HandlerStates, pool, req,
            page, handlerReads, taskOnly, Return
<1>1. ASSUME NEW r \in Requests, Abort(r)
      PROVE  Affinities'
  BY <1>1 DEF Abort
<1>2. ASSUME NEW r \in Requests, NeverArrives(r)
      PROVE  Affinities'
  BY <1>2 DEF NeverArrives
<1>3. ASSUME NEW r \in Requests, CheckWindow(r)
      PROVE  Affinities'
  <2>1. CASE Return(r, "done")
    BY <1>3, <2>1 DEF CheckWindow
  <2>2. CASE ~Return(r, "done")
    BY <1>3, <2>2 DEF CheckWindow
  <2> QED
    BY <2>1, <2>2
<1>4. ASSUME NEW r \in Requests, Register(r)
      PROVE  Affinities'
  BY <1>4 DEF Register
<1>5. ASSUME NEW r \in Requests, ReadExecution(r)
      PROVE  Affinities'
  BY <1>5 DEF ReadExecution
<1>6. ASSUME NEW r \in Requests, ReadIsolation(r)
      PROVE  Affinities'
  BY <1>6 DEF ReadIsolation
<1>7. ASSUME NEW r \in Requests, ReadKey(r)
      PROVE  Affinities'
  BY <1>7 DEF ReadKey
<1>8. ASSUME NEW r \in Requests, Spawn(r)
      PROVE  Affinities'
  BY <1>8 DEF Spawn
<1>9. ASSUME NEW r \in Requests, DropHandler(r)
      PROVE  Affinities'
  BY <1>9 DEF DropHandler
<1>10. ASSUME NEW r \in Requests, Finish(r)
      PROVE  Affinities'
  BY <1>10 DEF Finish
<1>11. ASSUME NEW r \in Requests, RunPrimary(r)
      PROVE  Affinities'
  BY <1>11 DEF RunPrimary, Primary
<1>12. ASSUME NEW r \in Requests, RunParallel(r)
      PROVE  Affinities'
  BY <1>12 DEF RunParallel
<1>13. ASSUME NEW r \in Requests, request_keyed(r)
      PROVE  Affinities'
  <2>1. CASE ikey[r] \in DOMAIN affinities[home[r]]
    BY <1>13, <2>1 DEF request_keyed
  <2>2. CASE /\ ikey[r] \notin DOMAIN affinities[home[r]]
            /\ next_affinity[home[r]] < workers[home[r]]
    <3> DEFINE p == home[r]
               n == next_affinity[home[r]] + 1
    <3>1. p \in Pools /\ n \in Nat /\ ~(next_affinity[p] >= workers[p])
      BY <2>2
    <3>2. /\ affinities' = [affinities EXCEPT ![p] = Put(@, ikey[r], n)]
          /\ next_affinity' = [next_affinity EXCEPT ![p] = n]
          /\ worker' = [worker EXCEPT ![r] = n]
          /\ task' = [task EXCEPT ![r] = "running"]
          /\ UNCHANGED <<pc, execution, isolation, ikey, home>>
      BY <1>13, <2>2, <3>1 DEF request_keyed
    <3>3. /\ DOMAIN affinities'[p] = (DOMAIN affinities[p]) \cup {ikey[r]}
          /\ affinities'[p][ikey[r]] = n
          /\ \A k \in DOMAIN affinities[p] : affinities'[p][k] = affinities[p][k]
          /\ \A q \in Pools \ {p} : affinities'[q] = affinities[q]
      BY <2>2, <3>1, <3>2 DEF Put
    <3>4. \A q \in Pools : \A k \in DOMAIN affinities'[q] :
              affinities'[q][k] \in 1..next_affinity'[q]
      BY <3>1, <3>2, <3>3
    <3>5. \A q \in Pools : \A k, l \in DOMAIN affinities'[q] :
              affinities'[q][k] = affinities'[q][l] => k = l
      BY <3>1, <3>2, <3>3
    <3>6. \A s \in Requests : Keyed(s)' /\ task'[s] = "running" =>
              /\ ikey'[s] \in DOMAIN affinities'[home'[s]]
              /\ affinities'[home'[s]][ikey'[s]] = worker'[s]
      BY <3>1, <3>2, <3>3
    <3> QED
      BY <3>2, <3>4, <3>5, <3>6
  <2>3. CASE /\ ikey[r] \notin DOMAIN affinities[home[r]]
            /\ next_affinity[home[r]] >= workers[home[r]]
    BY <1>13, <2>3 DEF request_keyed
  <2> QED
    BY <1>13, <2>1, <2>2, <2>3 DEF request_keyed
<1>14. ASSUME NEW r \in Requests, TaskEnds(r)
      PROVE  Affinities'
  BY <1>14 DEF TaskEnds
<1>15. ASSUME NEW w \in Windows, Load(w)
      PROVE  Affinities'
  BY <1>15 DEF Load
<1>16. ASSUME NEW u \in Uses, Send(u[1], u[2])
      PROVE  Affinities'
  BY <1>16 DEF Send
<1>17. ASSUME NEW k \in cancels, cancel(k)
      PROVE  Affinities'
  BY <1>17 DEF cancel
<1>18. ASSUME NEW c \in Configs, SwapBootstrap(c)
      PROVE  Affinities'
  BY <1>18 DEF SwapBootstrap
<1>19. CASE SwapPool
  BY <1>19 DEF SwapPool
<1>20. CASE UNCHANGED vars
  BY <1>20 DEF vars
<1> QED
  BY <1>1, <1>2, <1>3, <1>4, <1>5, <1>6, <1>7, <1>8, <1>9, <1>10, <1>11, <1>12, <1>13,
     <1>14, <1>15, <1>16, <1>17, <1>18, <1>19, <1>20 DEF Next, Handle, Run

LEMMA AlwaysIInv == Spec => []IInv
<1>1. IInv /\ [Next]_vars => IInv'
  BY NextShapes, NextTable, NextAffinities DEF IInv
<1> QED
  BY <1>1, InitIInv, PTL DEF Spec

-----------------------------------------------------------------------------
\* A <window, requestId> never names two live tasks: the handler that finds its
\* key in the table answers 409 before anything is spawned, and a dropped
\* handler's entry stays in the table while its task may still run.
THEOREM KeysRunOnce == Spec => []OneTaskPerKey
<1>1. IInv => OneTaskPerKey
  BY DEF IInv, Table, Occupies, UnderWay, OneTaskPerKey, Live
<1> QED
  BY <1>1, AlwaysIInv, PTL

\* The cancellation table of the gateway: every key in it belongs to a handler
\* that is between its insert and its remove, or was dropped in between.
THEOREM TableLeaksOnlyDropped == Spec => []OnlyDroppedHandlersLeak
<1>1. IInv => OnlyDroppedHandlersLeak
  BY DEF IInv, Table, Occupies, OnlyDroppedHandlersLeak
<1> QED
  BY <1>1, AlwaysIInv, PTL

\* WorkerPool::request_keyed gives a worker to one isolation key for good: a
\* running keyed request is on the worker of its own key and of no other.
THEOREM WorkersAreExclusive == Spec => []IsolatedWorkersAreExclusive
<1>1. IInv => IsolatedWorkersAreExclusive
  BY DEF IInv, Shapes, Affinities, IsolatedWorkersAreExclusive
<1> QED
  BY <1>1, AlwaysIInv, PTL

-----------------------------------------------------------------------------
(* Capacity: a pool has a worker for every isolation key of its bootstrap.   *)

\* What a request has read while it saw configuration c only.
ReadFrom(c, r) ==
    /\ key[r][1] \in c.windows
    /\ command[r] # Plugin =>
           /\ pc[r] \in {"isolation", "key", "pool", "await", "dropped"}
                  => execution[r] = c.execution[command[r]]
           /\ pc[r] \in {"key", "pool", "await", "dropped"} => isolation[r] = c.isolation
           /\ pc[r] \in {"pool", "await", "dropped"} => ikey[r] \in c.windows

\* Configuration c is what version p of the bootstrap was: its pool has the
\* workers c asks for, and serves the keys of c's windows unless it was mixed.
IsOf(c, p) ==
    /\ p = version => c = bootstrap
    /\ p <= parallel_workers => workers[p] = requested_parallel_count(c)
    /\ p \notin mixed => DOMAIN affinities[p] \subseteq c.windows
    /\ \A r \in Requests : seen[r] = {p} => ReadFrom(c, r)

Versions ==
    /\ command \in [Requests -> Commands \cup {Plugin}]
    /\ seen \in [Requests -> SUBSET Pools]
    /\ \A r \in Requests : \A v \in seen[r] : v <= version
    /\ \A r \in Requests :
           pc[r] \in {"register", "execution", "isolation", "key", "pool", "await", "dropped"}
               => seen[r] # {}
    /\ \A r \in Requests : seen[r] # {} => pc[r] \notin {"unsent", "sent"}
    /\ \A r \in Requests :
           pc[r] \in {"execution", "isolation", "key", "pool"} => command[r] # Plugin
    /\ \A r \in Requests : task[r] = "queued" => command[r] # Plugin /\ home[r] <= parallel_workers
    /\ parallel_workers <= version /\ version <= parallel_workers + 1
    /\ \A p \in Pools : p > parallel_workers => DOMAIN affinities[p] = {}

Served == \A p \in Pools : p <= version => \E c \in Configs : IsOf(c, p)

\* A pool that was not mixed has taken one worker for each key.
Counted ==
    \A p \in Pools \ mixed : /\ IsFiniteSet(DOMAIN affinities[p])
                             /\ next_affinity[p] = Cardinality(DOMAIN affinities[p])

\* The inductive invariant of the capacity.
Capacity == IInv /\ Versions /\ Served /\ Counted /\ CapacitySufficesWithoutReload

-----------------------------------------------------------------------------
(* isolation_key: the walk up the parents stays among the windows.            *)

\* A set of numbers has a first one.
LEMMA FirstExists ==
    ASSUME NEW T \in SUBSET Nat, T # {}
    PROVE  \E i \in T : \A j \in T : i <= j
<1>1. PICK i \in T : \A j \in T : ~(<<j, i>> \in OpToRel(<, Nat))
  BY NatLessThanWellFounded, WFMin, Zenon
<1>2. \A j \in T : ~(j < i)
  BY <1>1 DEF OpToRel
<1>. QED
  BY <1>2

\* A walk of n steps exists, each from a window to its parent, if it has one.
Walk(c, w, n, f) ==
    f = [i \in 0..n |-> IF i = 0 THEN w
                        ELSE IF f[i - 1] \in DOMAIN c.parent
                             THEN c.parent[f[i - 1]] ELSE f[i - 1]]

LEMMA WalkStays ==
    ASSUME NEW c \in Configs, NEW w \in c.windows, NEW n \in Nat, NEW f, Walk(c, w, n, f)
    PROVE  \A i \in 0..n : f[i] \in c.windows
<1>. DEFINE bad == {i \in 0..n : f[i] \notin c.windows}
<1>1. \A v \in c.windows : v \in DOMAIN c.parent => c.parent[v] \in c.windows
  BY RequestsAssumption DEF ConfigOK
<1>2. f[0] = w
  BY DEF Walk
<1>3. \A i \in 0..n : i # 0 => f[i] = IF f[i - 1] \in DOMAIN c.parent
                                       THEN c.parent[f[i - 1]] ELSE f[i - 1]
  BY DEF Walk
<1>4. ASSUME bad # {}
      PROVE  FALSE
  <2>1. bad \in SUBSET Nat
    OBVIOUS
  <2>2. PICK i \in bad : \A j \in bad : i <= j
    BY <1>4, <2>1, FirstExists
  <2>3. i # 0 /\ i - 1 \in 0..n
    BY <1>2, <2>2
  <2>4. f[i - 1] \in c.windows
    BY <2>2, <2>3
  <2>. QED
    BY <1>1, <1>3, <2>2, <2>3, <2>4
<1>. QED
  BY <1>4

LEMMA WalkExists ==
    ASSUME NEW c, NEW w, NEW n \in Nat
    PROVE  \E f : Walk(c, w, n, f)
<1>. DEFINE bad == {i \in Nat : ~\E f : Walk(c, w, i, f)}
<1>1. Walk(c, w, 0, [i \in 0..0 |-> w])
  BY DEF Walk
<1>2. ASSUME bad # {}
      PROVE  FALSE
  <2>1. bad \in SUBSET Nat
    OBVIOUS
  <2>2. PICK i \in bad : \A j \in bad : i <= j
    BY <1>2, <2>1, FirstExists
  <2>3. i # 0 /\ i - 1 \in Nat
    BY <1>1, <2>2
  <2>4. PICK g : Walk(c, w, i - 1, g)
    BY <2>2, <2>3
  <2>. DEFINE step(v) == IF v \in DOMAIN c.parent THEN c.parent[v] ELSE v
              f == [j \in 0..i |-> IF j = i THEN step(g[i - 1]) ELSE g[j]]
  <2>5. \A j \in 0..(i - 1) : g[j] = IF j = 0 THEN w ELSE step(g[j - 1])
    BY <2>4 DEF Walk
  <2>6. \A j \in 0..i : f[j] = IF j = 0 THEN w ELSE step(f[j - 1])
    <3>1. ASSUME NEW j \in 0..i, j = i
          PROVE  j # 0 /\ f[j] = step(g[i - 1]) /\ f[j - 1] = g[i - 1]
      BY <2>3, <3>1
    <3>2. ASSUME NEW j \in 0..i, j # i
          PROVE  /\ f[j] = g[j] /\ j \in 0..(i - 1)
                 /\ j # 0 => f[j - 1] = g[j - 1]
      BY <2>3, <3>2
    <3>. HIDE DEF f, step
    <3>. QED
      BY <2>5, <3>1, <3>2
  <2>7. Walk(c, w, i, f)
    <3>1. f = [j \in 0..i |-> f[j]]
      OBVIOUS
    <3>. HIDE DEF f
    <3>2. f = [j \in 0..i |-> IF j = 0 THEN w ELSE step(f[j - 1])]
      BY <2>6, <3>1
    <3>. QED
      BY <3>2 DEF Walk
  <2>. QED
    BY <2>2, <2>7
<1>. QED
  BY <1>2

\* The key of a window of a configuration is a window of it.
LEMMA KeyIsWindow ==
    ASSUME NEW c \in Configs, NEW w \in c.windows
    PROVE  isolation_key(c, w) \in c.windows
<1>. DEFINE limit == Cardinality(c.windows) + 1
            above == CHOOSE f : Walk(c, w, limit, f)
<1>1. limit \in Nat
  BY RequestsAssumption, FS_CardinalityType DEF ConfigOK
<1>2. Walk(c, w, limit, above)
  BY <1>1, WalkExists
<1>3. above[limit] \in c.windows
  <2>. HIDE DEF above, limit
  <2>1. limit \in 0..limit
    BY <1>1
  <2>. QED
    BY <1>1, <1>2, <2>1, WalkStays
<1>4. isolation_key(c, w) = IF c.isolation = "workspace" THEN above[limit] ELSE w
  BY Zenon DEF isolation_key, Walk
<1>. QED
  BY <1>3, <1>4

-----------------------------------------------------------------------------
LEMMA InitCapacity == Init => Versions /\ Served /\ Counted /\ CapacitySufficesWithoutReload
<1>. SUFFICES ASSUME Init
              PROVE  Versions /\ Served /\ Counted /\ CapacitySufficesWithoutReload
  OBVIOUS
<1>1. \A p \in Pools : DOMAIN affinities[p] = {}
  BY DEF Init, Empty
<1>2. Versions
  <2>1. /\ command \in [Requests -> Commands \cup {Plugin}] /\ seen \in [Requests -> SUBSET Pools]
        /\ \A r \in Requests : seen[r] = {} /\ pc[r] = "unsent" /\ task[r] = "none"
        /\ parallel_workers = 0 /\ version = 0
    BY DEF Init
  <2>. QED
    BY <1>1, <2>1 DEF Versions
<1>3. Served
  <2>1. /\ bootstrap \in Configs /\ version = 0 /\ parallel_workers = 0
        /\ \A r \in Requests : seen[r] = {}
        /\ 0 \in Pools => workers[0] = requested_parallel_count(bootstrap)
    BY DEF Init
  <2>2. \A p \in Pools : p <= version => p = 0
    BY <2>1 DEF Pools
  <2>3. \A r \in Requests : seen[r] # {0}
    BY <2>1
  <2>4. 0 \in Pools => IsOf(bootstrap, 0)
    BY <1>1, <2>1, <2>3 DEF IsOf
  <2>. QED
    BY <2>1, <2>2, <2>4 DEF Served
<1>4. Counted
  BY <1>1, FS_EmptySet DEF Init, Counted
<1>5. CapacitySufficesWithoutReload
  BY DEF Init, CapacitySufficesWithoutReload
<1>. QED
  BY <1>2, <1>3, <1>4, <1>5

\* The requests other than r, and those that did not change at all.
Same(s) == /\ key'[s] = key[s] /\ command'[s] = command[s] /\ execution'[s] = execution[s]
           /\ isolation'[s] = isolation[s] /\ ikey'[s] = ikey[s] /\ home'[s] = home[s]
           /\ seen'[s] = seen[s] /\ pc'[s] = pc[s] /\ task'[s] = task[s]

\* What one handler does to requests and pools.
LEMMA HandlerEffects ==
    ASSUME Capacity, NEW r \in Requests, Handle(r)
    PROVE  /\ UNCHANGED <<host, pool, mixed>>
           /\ \A s \in Requests \ {r} : Same(s)
  BY DEF Capacity, IInv, Shapes, Versions, Handle, NeverArrives, CheckWindow, Register, ReadExecution, ReadIsolation,
         ReadKey, Spawn, DropHandler, Finish, Return, Same, req, handlerReads, host, pool
\* What one task does.
LEMMA TaskEffects ==
    ASSUME Capacity, NEW r \in Requests, Run(r)
    PROVE  /\ UNCHANGED <<host, workers, command, seen, pc, key, execution, isolation, ikey, home>>
           /\ mixed \subseteq mixed'
           /\ \A s \in Requests \ {r} : task'[s] = task[s]
           /\ task[r] \in {"queued", "running"}
           /\ task'[r] \in {"running", "ok", "error", "exhausted"}
  BY DEF Capacity, IInv, Shapes, Run, RunPrimary, RunParallel, request_keyed, TaskEnds, taskOnly, host

\* Every action keeps what requests can have seen.
LEMMA NextVersions == Capacity /\ [Next]_vars => Versions'
<1>. SUFFICES ASSUME Capacity, [Next]_vars
              PROVE  Versions'
  OBVIOUS
<1>. USE DEF Capacity
<1>1. ASSUME UNCHANGED <<version, parallel_workers, affinities, command, seen, pc, task, home>>
      PROVE  Versions'
  BY <1>1 DEF Versions
<1>2. ASSUME NEW r \in Requests, Handle(r)
      PROVE  Versions'
  <2>1. /\ UNCHANGED <<version, parallel_workers, affinities>>
        /\ \A s \in Requests \ {r} : Same(s)
    BY <1>2, HandlerEffects DEF host, pool
  <2>2. version \in Pools /\ parallel_workers \in Pools /\ seen[r] \in SUBSET Pools
        /\ parallel_workers <= version
    BY DEF IInv, Shapes, Versions
  <2>3. /\ command' \in [Requests -> Commands \cup {Plugin}]
        /\ seen' \in [Requests -> SUBSET Pools]
    BY <1>2, <2>2 DEF Versions, Handle, NeverArrives, CheckWindow, Register, ReadExecution, ReadIsolation,
         ReadKey, Spawn, DropHandler, Finish, Return, req, handlerReads
  <2>4. /\ \A v \in seen'[r] : v <= version
        /\ pc'[r] \in {"register", "execution", "isolation", "key", "pool", "await", "dropped"}
               => seen'[r] # {}
        /\ seen'[r] # {} => pc'[r] \notin {"unsent", "sent"}
        /\ pc'[r] \in {"execution", "isolation", "key", "pool"} => command'[r] # Plugin
        /\ task'[r] = "queued" => command'[r] # Plugin /\ home'[r] <= parallel_workers
    <3>. USE DEF IInv, Shapes, Versions
    <3>1. CASE Return(r, "done") \/ Return(r, "conflict")
      BY <3>1 DEF Return
    <3>2. CASE CheckWindow(r) /\ ~Return(r, "done")
      <4>1. /\ pc[r] = "sent" /\ seen' = [seen EXCEPT ![r] = {version}]
            /\ pc' = [pc EXCEPT ![r] = "register"] /\ UNCHANGED <<command, task>>
        BY <3>2 DEF CheckWindow
      <4>2. task[r] = "none"
        BY <4>1 DEF Table
      <4>3. version <= version
        BY RequestsAssumption DEF Pools
      <4>. QED
        BY <4>1, <4>2, <4>3
    <3>3. CASE Register(r) /\ ~Return(r, "conflict")
      BY <3>3 DEF Register, req, Table
    <3>4. CASE ReadExecution(r) \/ ReadIsolation(r) \/ ReadKey(r)
      <4>1. /\ pc[r] \in {"execution", "isolation", "key"} /\ UNCHANGED <<command, task, home>>
            /\ pc' = [pc EXCEPT ![r] = IF pc[r] = "execution" THEN "isolation"
                                       ELSE IF pc[r] = "isolation" THEN "key" ELSE "pool"]
            /\ seen' = [seen EXCEPT ![r] = @ \cup {version}]
        BY <3>4 DEF ReadExecution, ReadIsolation, ReadKey, handlerReads
      <4>2. task[r] = "none" /\ command[r] # Plugin
        BY <4>1 DEF Table
      <4>3. version <= version
        BY RequestsAssumption DEF Pools
      <4>. QED
        BY <4>1, <4>2, <4>3
    <3>5. CASE Spawn(r)
      <4>1. parallel_workers <= parallel_workers
        BY RequestsAssumption DEF Pools
      <4>. QED
        BY <3>5, <4>1 DEF Spawn, handlerReads
    <3>6. CASE DropHandler(r)
      BY <3>6 DEF DropHandler, handlerReads, req
    <3>. QED
      BY <1>2, <3>1, <3>2, <3>3, <3>4, <3>5, <3>6 DEF Handle, NeverArrives, Finish
  <2>. QED
    BY <2>1, <2>3, <2>4 DEF Versions, Same
<1>3. ASSUME NEW r \in Requests, Run(r)
      PROVE  Versions'
  <2>1. /\ UNCHANGED <<version, parallel_workers, command, seen, pc, home>>
        /\ \A s \in Requests : task'[s] = "queued" => task[s] = "queued"
    BY <1>3, TaskEffects DEF host
  <2>2. \A p \in Pools : p > parallel_workers => DOMAIN affinities'[p] = {}
    <3>1. \A p \in Pools : p # home[r] => affinities'[p] = affinities[p]
      BY <1>3 DEF IInv, Shapes, Run, RunPrimary, RunParallel, request_keyed, TaskEnds, taskOnly
    <3>2. CASE task[r] = "queued" 
      <4>1. home[r] <= parallel_workers /\ home[r] \in Pools /\ parallel_workers \in Pools
        BY <3>2 DEF IInv, Shapes, Versions
      <4>2. \A p \in Pools : p > parallel_workers => p # home[r]
        BY <4>1 DEF Pools
      <4>. QED
        BY <3>1, <4>2 DEF Versions
    <3>3. CASE task[r] # "queued"
      BY <1>3, <3>3 DEF Run, RunPrimary, RunParallel, request_keyed, TaskEnds, taskOnly, Versions
    <3>. QED
      BY <3>2, <3>3
  <2>. QED
    BY <2>1, <2>2 DEF Versions
<1>4. ASSUME NEW u \in Uses, Send(u[1], u[2])
      PROVE  Versions'
  <2>1. /\ UNCHANGED <<version, parallel_workers, affinities, seen, task, home>>
        /\ command' = [command EXCEPT ![sent + 1] = u[2]]
        /\ pc' = [pc EXCEPT ![sent + 1] = "sent"]
        /\ sent + 1 \in Requests /\ pc[sent + 1] = "unsent"
    BY <1>4, RequestsAssumption DEF Send, host, pool, IInv, Shapes, Requests
  <2>2. u[2] \in Commands \cup {Plugin} /\ seen[sent + 1] = {} /\ task[sent + 1] = "none"
    BY <2>1, RequestsAssumption DEF IInv, Shapes, Table, Versions
  <2>. QED
    BY <2>1, <2>2 DEF Versions, IInv, Shapes
<1>5. ASSUME NEW c \in Configs, SwapBootstrap(c)
      PROVE  Versions'
  <2>1. /\ UNCHANGED <<parallel_workers, affinities, command, seen, pc, task, home>>
        /\ version' = version + 1 /\ version = parallel_workers
    BY <1>5 DEF SwapBootstrap, pool, req
  <2>2. /\ version \in Nat
        /\ \A r \in Requests : \A v \in seen[r] : v \in Nat
    BY RequestsAssumption DEF IInv, Shapes, Versions, Pools
  <2>. QED
    BY <2>1, <2>2 DEF Versions
<1>6. CASE SwapPool
  <2>1. /\ UNCHANGED <<version, affinities, command, seen, pc, task, home>>
        /\ parallel_workers' = version /\ version # parallel_workers
    BY <1>6 DEF SwapPool, req
  <2>2. /\ version \in Nat /\ parallel_workers \in Nat /\ Pools \subseteq Nat
        /\ \A r \in Requests : home[r] \in Nat
    BY RequestsAssumption DEF IInv, Shapes, Pools
  <2>. QED
    BY <2>1, <2>2 DEF Versions
<1>7. ASSUME NEW r \in Requests, Abort(r)
      PROVE  Versions'
  BY <1>1, <1>7 DEF Abort, host, pool, req
<1>8. ASSUME NEW w \in Windows, Load(w)
      PROVE  Versions'
  BY <1>1, <1>8 DEF Load, host, pool, req
<1>9. ASSUME NEW k \in cancels, cancel(k)
      PROVE  Versions'
  BY <1>1, <1>9 DEF cancel, host, pool, req
<1>10. CASE UNCHANGED vars
  BY <1>1, <1>10 DEF vars
<1>. QED
  BY <1>2, <1>3, <1>4, <1>5, <1>6, <1>7, <1>8, <1>9, <1>10 DEF Next
\* Pools that stay as they are go on serving their versions, if the one
\* request that moves has read from the versions it has seen.
LEMMA OneReads ==
    ASSUME Served, NEW r \in Requests,
           UNCHANGED <<host, workers>>, mixed \subseteq mixed',
           \A p \in Pools \ mixed : DOMAIN affinities'[p] \subseteq DOMAIN affinities[p],
           \A s \in Requests \ {r} : Same(s),
           \A p \in Pools, c \in Configs :
               p <= version /\ IsOf(c, p) /\ seen'[r] = {p} => ReadFrom(c, r)'
    PROVE  Served'
<1>. SUFFICES ASSUME NEW p \in Pools, p <= version
              PROVE  \E c \in Configs : IsOf(c, p)'
  BY DEF Served, host
<1>1. PICK c \in Configs : IsOf(c, p)
  BY DEF Served
<1>2. ASSUME NEW s \in Requests, seen'[s] = {p}
      PROVE  ReadFrom(c, s)'
  <2>1. CASE s = r
    BY <1>1, <1>2, <2>1
  <2>2. CASE s # r
    BY <1>1, <1>2, <2>2 DEF Same, IsOf, ReadFrom
  <2>. QED
    BY <2>1, <2>2
<1>3. IsOf(c, p)'
  BY <1>1, <1>2 DEF IsOf, host
<1>. QED
  BY <1>3

\* A handler reads from the version it sees.
LEMMA HandlerReads ==
    ASSUME Capacity, NEW r \in Requests, Handle(r), NEW p \in Pools, NEW c \in Configs,
           p <= version, IsOf(c, p), seen'[r] = {p}
    PROVE  ReadFrom(c, r)'
<1>1. /\ DOMAIN pc = Requests /\ DOMAIN execution = Requests /\ DOMAIN isolation = Requests
      /\ DOMAIN ikey = Requests /\ DOMAIN seen = Requests
      /\ \A v \in seen[r] : v <= version
      /\ pc[r] \in {"execution", "isolation", "key", "pool", "await"} => seen[r] # {}
      /\ p = version => c = bootstrap
      /\ seen[r] = {p} => ReadFrom(c, r)
  BY DEF Capacity, IInv, Shapes, Versions, IsOf
<1>2. CASE Return(r, "done") \/ Return(r, "conflict")
  BY <1>1, <1>2 DEF Return
<1>3. CASE CheckWindow(r) /\ ~Return(r, "done")
  <2>1. /\ seen'[r] = {version} /\ pc'[r] = "register" /\ UNCHANGED <<key, command>>
        /\ key[r][1] \in bootstrap.windows
    BY <1>1, <1>3 DEF CheckWindow
  <2>. QED
    BY <1>1, <2>1 DEF ReadFrom
<1>4. CASE Register(r) /\ ~Return(r, "conflict")
  <2>1. /\ UNCHANGED <<seen, key, command>>
        /\ pc'[r] = "execution" \/ (command[r] = Plugin /\ pc'[r] = "await")
    BY <1>1, <1>4 DEF Register, req
  <2>. QED
    BY <1>1, <2>1 DEF ReadFrom
\* A read leaves the request with this version only if it had no other.
<1>5. ASSUME seen'[r] = seen[r] \cup {version}, seen[r] # {}
      PROVE  c = bootstrap /\ ReadFrom(c, r)
  BY <1>1, <1>5
<1>6. CASE ReadExecution(r)
  <2>1. /\ seen'[r] = seen[r] \cup {version} /\ pc[r] = "execution" /\ pc'[r] = "isolation"
        /\ execution'[r] = bootstrap.execution[command[r]] /\ UNCHANGED <<key, command>>
    BY <1>1, <1>6 DEF ReadExecution
  <2>. QED
    BY <1>1, <1>5, <2>1 DEF ReadFrom
<1>7. CASE ReadIsolation(r)
  <2>1. /\ seen'[r] = seen[r] \cup {version} /\ pc[r] = "isolation" /\ pc'[r] = "key"
        /\ isolation'[r] = bootstrap.isolation /\ UNCHANGED <<key, command, execution>>
    BY <1>1, <1>7 DEF ReadIsolation
  <2>. QED
    BY <1>1, <1>5, <2>1 DEF ReadFrom
<1>8. CASE ReadKey(r)
  <2>1. /\ seen'[r] = seen[r] \cup {version} /\ pc[r] = "key" /\ pc'[r] = "pool"
        /\ ikey'[r] = isolation_key(bootstrap, key[r][1])
        /\ UNCHANGED <<key, command, execution, isolation>>
    BY <1>1, <1>8 DEF ReadKey
  <2>2. c = bootstrap /\ ReadFrom(c, r)
    BY <1>1, <1>5, <2>1
  <2>3. isolation_key(bootstrap, key[r][1]) \in c.windows
    BY <2>2, KeyIsWindow DEF ReadFrom
  <2>. QED
    BY <2>1, <2>2, <2>3 DEF ReadFrom
<1>9. CASE Spawn(r) \/ DropHandler(r)
  <2>1. /\ pc[r] \in {"pool", "await"}
        /\ UNCHANGED <<seen, key, command, execution, isolation, ikey>>
    BY <1>9 DEF Spawn, DropHandler, req
  <2>. QED
    BY <1>1, <2>1 DEF ReadFrom
<1>. QED
  BY <1>2, <1>3, <1>4, <1>6, <1>7, <1>8, <1>9 DEF Handle, NeverArrives, Finish

\* What a queued task that was not mixed into its pool has read.
LEMMA QueuedRead ==
    ASSUME Capacity, NEW r \in Requests, task[r] = "queued", seen[r] = {home[r]}
    PROVE  /\ home[r] \in Pools
           /\ \E c \in Configs : 
               /\ IsOf(c, home[r]) /\ execution[r] = c.execution[command[r]] /\ command[r] \in Commands
               /\ isolation[r] = c.isolation /\ ikey[r] \in c.windows
               /\ workers[home[r]] = requested_parallel_count(c)
<1>1. /\ home[r] \in Pools /\ home[r] <= version /\ home[r] <= parallel_workers
      /\ pc[r] \in {"await", "dropped"} /\ command[r] \in Commands /\ command[r] # Plugin
  BY DEF Capacity, IInv, Shapes, Table, Versions
<1>2. PICK c \in Configs : IsOf(c, home[r])
  BY <1>1 DEF Capacity, Served
<1>. QED
  BY <1>1, <1>2 DEF IsOf, ReadFrom

\* A pool that was not mixed has a worker for a parallel request of its
\* bootstrap, and one for every key that has none yet.
LEMMA HasRoom ==
    ASSUME Capacity, NEW r \in Requests, task[r] = "queued", seen[r] = {home[r]}
    PROVE  /\ execution[r] = "parallel" => workers[home[r]] # 0
           /\ Keyed(r) /\ home[r] \notin mixed /\ ikey[r] \notin DOMAIN affinities[home[r]]
                  => next_affinity[home[r]] < workers[home[r]]
<1>. DEFINE p == home[r]
<1>1. PICK c \in Configs :
        /\ IsOf(c, p) /\ execution[r] = c.execution[command[r]] /\ command[r] \in Commands
        /\ isolation[r] = c.isolation /\ ikey[r] \in c.windows
        /\ workers[p] = requested_parallel_count(c)
  BY QueuedRead
<1>2. p \in Pools
  BY QueuedRead
<1>3. /\ c.parallel_worker_count \in 1..16 /\ IsFiniteSet(c.windows)
      /\ Cardinality(c.windows) \in Nat
  BY RequestsAssumption, FS_CardinalityType DEF ConfigOK
<1>4. execution[r] = "parallel" => workers[p] # 0
  <2>1. ASSUME execution[r] = "parallel"
        PROVE  requested_parallel_count(c) # 0
    <3>1. \E m \in Commands : c.execution[m] # "stateful"
      BY <1>1, <2>1
    <3>2. requested_parallel_count(c) >= c.parallel_worker_count
      BY <1>3, <3>1 DEF requested_parallel_count
    <3>. QED
      BY <1>3, <3>2, CountType
  <2>. QED
    BY <1>1, <2>1
<1>5. ASSUME Keyed(r), p \notin mixed, ikey[r] \notin DOMAIN affinities[p]
      PROVE  next_affinity[p] < workers[p]
  <2>1. workers[p] >= Cardinality(c.windows) /\ workers[p] \in Nat
    BY <1>1, <1>3, <1>5 DEF Keyed, requested_parallel_count
  <2>2. DOMAIN affinities[p] \subseteq c.windows /\ DOMAIN affinities[p] # c.windows
    BY <1>1, <1>5 DEF IsOf
  <2>3. Cardinality(DOMAIN affinities[p]) < Cardinality(c.windows)
    <3>1. /\ Cardinality(DOMAIN affinities[p]) <= Cardinality(c.windows)
          /\ Cardinality(DOMAIN affinities[p]) = Cardinality(c.windows)
                 => DOMAIN affinities[p] = c.windows
      BY <1>3, <2>2, FS_Subset
    <3>2. Cardinality(DOMAIN affinities[p]) \in Nat
      BY <1>2, <1>5, FS_CardinalityType DEF Capacity, Counted
    <3>. QED
      BY <1>3, <2>2, <3>1, <3>2
  <2>4. next_affinity[p] = Cardinality(DOMAIN affinities[p]) /\ next_affinity[p] \in Nat
    BY <1>2, <1>5 DEF Capacity, IInv, Shapes, Counted
  <2>. QED
    BY <1>3, <2>1, <2>3, <2>4
<1>. QED
  BY <1>4, <1>5
\* A task that takes a worker for a new key, which its own version names if the
\* pool was not mixed; any other leaves the affinities alone.
LEMMA TaskTakes ==
    ASSUME Capacity, NEW r \in Requests, Run(r)
    PROVE  \/ UNCHANGED affinities
              /\ (next_affinity' = next_affinity \/ (task'[r] = "exhausted" /\ request_keyed(r)))
           \/ /\ task[r] = "queued" /\ home[r] \in Pools
              /\ ikey[r] \notin DOMAIN affinities[home[r]]
              /\ next_affinity' = [next_affinity EXCEPT ![home[r]] = @ + 1]
              /\ \A p \in Pools \ {home[r]} : affinities'[p] = affinities[p]
              /\ DOMAIN affinities'[home[r]] = (DOMAIN affinities[home[r]]) \cup {ikey[r]}
              /\ home[r] \notin mixed' => seen[r] = {home[r]}
<1>. DEFINE p == home[r]
            k == ikey[r]
<1>1. /\ DOMAIN affinities = Pools /\ home[r] \in Pools /\ DOMAIN task = Requests
      /\ next_affinity \in [Pools -> Nat]
  BY DEF Capacity, IInv, Shapes
<1>2. CASE RunPrimary(r) \/ RunParallel(r) \/ TaskEnds(r)
  BY <1>2 DEF RunPrimary, RunParallel, TaskEnds
<1>3. CASE request_keyed(r)
  <2>1. \/ UNCHANGED <<affinities, next_affinity>>
        \/ UNCHANGED affinities /\ task' = [task EXCEPT ![r] = "exhausted"]
        \/ /\ task[r] = "queued" /\ k \notin DOMAIN affinities[p]
           /\ next_affinity' = [next_affinity EXCEPT ![p] = @ + 1]
           /\ affinities' = [affinities EXCEPT ![p] = Put(@, k, next_affinity'[p])]
           /\ mixed' = IF seen[r] = {p} THEN mixed ELSE mixed \cup {p}
    BY <1>3 DEF request_keyed
  <2>2. ASSUME affinities' = [affinities EXCEPT ![p] = Put(@, k, next_affinity'[p])]
        PROVE  /\ DOMAIN affinities'[p] = (DOMAIN affinities[p]) \cup {k}
               /\ \A q \in Pools \ {p} : affinities'[q] = affinities[q]
    BY <1>1, <2>2 DEF Put
  <2>. QED
    BY <1>1, <1>3, <2>1, <2>2
<1>. QED
  BY <1>2, <1>3 DEF Run

\* A request that finds no worker had read another bootstrap than its pool's,
\* or the pool had served one that had.
LEMMA ExhaustedIsMixed ==
    ASSUME Capacity, NEW r \in Requests, Run(r), task'[r] = "exhausted"
    PROVE  home[r] \in mixed'
<1>1. /\ DOMAIN task = Requests /\ home[r] \in Pools
      /\ next_affinity[home[r]] \in Nat /\ workers[home[r]] \in Nat
  BY DEF Capacity, IInv, Shapes
<1>2. task[r] = "queued" /\ (RunParallel(r) \/ request_keyed(r))
  BY <1>1 DEF Run, RunPrimary, RunParallel, request_keyed, TaskEnds
<1>3. mixed' = IF seen[r] = {home[r]} THEN mixed ELSE mixed \cup {home[r]}
  BY <1>2 DEF RunParallel, request_keyed
<1>4. CASE RunParallel(r)
  <2>1. execution[r] = "parallel" /\ workers[home[r]] = 0
    BY <1>1, <1>4 DEF RunParallel
  <2>. QED
    BY <1>2, <1>3, <2>1, HasRoom
<1>5. CASE request_keyed(r)
  <2>1. /\ Keyed(r) /\ ikey[r] \notin DOMAIN affinities[home[r]]
        /\ next_affinity[home[r]] >= workers[home[r]]
    BY <1>1, <1>5 DEF request_keyed
  <2>2. ~(next_affinity[home[r]] < workers[home[r]])
    BY <1>1, <2>1
  <2>. QED
    BY <1>2, <1>3, <2>1, <2>2, HasRoom
<1>. QED
  BY <1>2, <1>4, <1>5

\* Every action keeps every pool's configuration.
LEMMA NextServed == Capacity /\ [Next]_vars => Served'
<1>. SUFFICES ASSUME Capacity, [Next]_vars
              PROVE  Served'
  OBVIOUS
<1>1. ASSUME NEW r \in Requests, Handle(r)
      PROVE  Served'
  <2>1. /\ UNCHANGED <<host, pool, mixed>>
        /\ \A s \in Requests \ {r} : Same(s)
    BY <1>1, HandlerEffects
  <2>2. \A p \in Pools, c \in Configs :
            p <= version /\ IsOf(c, p) /\ seen'[r] = {p} => ReadFrom(c, r)'
    BY <1>1, HandlerReads
  <2>3. UNCHANGED <<host, workers, affinities>> /\ mixed \subseteq mixed'
    BY <2>1 DEF pool
  <2>. QED
    BY <2>1, <2>2, <2>3, OneReads DEF Capacity
<1>2. ASSUME NEW r \in Requests, Run(r)
      PROVE  Served'
  <2>1. /\ UNCHANGED <<host, workers, command, seen, pc, key, execution, isolation, ikey, home>>
        /\ mixed \subseteq mixed'
    BY <1>2, TaskEffects
  <2>. SUFFICES ASSUME NEW p \in Pools, p <= version
                PROVE  \E c \in Configs : IsOf(c, p)'
    BY <2>1 DEF Served, host
  <2>2. PICK c \in Configs : IsOf(c, p)
    BY DEF Capacity, Served
  <2>3. \A s \in Requests : seen'[s] = {p} => ReadFrom(c, s)'
    BY <2>1, <2>2 DEF IsOf, ReadFrom
  <2>4. ASSUME p \notin mixed'
        PROVE  DOMAIN affinities'[p] \subseteq c.windows
    <3>1. DOMAIN affinities[p] \subseteq c.windows
      BY <2>1, <2>2, <2>4 DEF IsOf
    <3>2. CASE affinities'[p] = affinities[p]
      BY <3>1, <3>2
    <3>3. CASE affinities'[p] # affinities[p]
      <4>1. /\ task[r] = "queued" /\ p = home[r] /\ seen[r] = {p}
            /\ DOMAIN affinities'[p] = (DOMAIN affinities[p]) \cup {ikey[r]}
        BY <1>2, <2>4, <3>3, TaskTakes
      <4>2. pc[r] \in {"await", "dropped"} /\ command[r] # Plugin
        BY <4>1 DEF Capacity, IInv, Table, Versions
      <4>3. ikey[r] \in c.windows
        BY <2>2, <4>1, <4>2 DEF IsOf, ReadFrom
      <4>. QED
        BY <3>1, <4>1, <4>3
    <3>. QED
      BY <3>2, <3>3
  <2>5. IsOf(c, p)'
    BY <2>1, <2>2, <2>3, <2>4 DEF IsOf, host
  <2>. QED
    BY <2>5
<1>3. ASSUME UNCHANGED <<host, workers, affinities, mixed, execution, isolation, ikey, seen>>,
             \A s \in Requests : seen[s] # {} =>
                 key'[s] = key[s] /\ command'[s] = command[s] /\ pc'[s] = pc[s]
      PROVE  Served'
  <2>. SUFFICES ASSUME NEW p \in Pools, p <= version
                PROVE  \E c \in Configs : IsOf(c, p)'
    BY <1>3 DEF Served, host
  <2>1. PICK c \in Configs : IsOf(c, p)
    BY DEF Capacity, Served
  <2>2. \A s \in Requests : seen'[s] = {p} => ReadFrom(c, s)'
    BY <1>3, <2>1 DEF IsOf, ReadFrom
  <2>3. IsOf(c, p)'
    BY <1>3, <2>1, <2>2 DEF IsOf, host
  <2>. QED
    BY <2>3
<1>4. ASSUME NEW u \in Uses, Send(u[1], u[2])
      PROVE  Served'
  <2>1. /\ UNCHANGED <<host, workers, affinities, mixed, execution, isolation, ikey, seen>>
        /\ DOMAIN key = Requests /\ DOMAIN command = Requests /\ DOMAIN pc = Requests
        /\ pc[sent + 1] = "unsent" /\ sent + 1 \in Requests
        /\ \A s \in Requests \ {sent + 1} :
               key'[s] = key[s] /\ command'[s] = command[s] /\ pc'[s] = pc[s]
    BY <1>4, RequestsAssumption DEF Send, pool, Capacity, IInv, Shapes, Versions, Requests
  <2>2. seen[sent + 1] = {}
    BY <2>1 DEF Capacity, Versions
  <2>. QED
    BY <1>3, <2>1, <2>2
<1>5. ASSUME NEW b \in Configs, SwapBootstrap(b)
      PROVE  Served'
  <2>1. /\ UNCHANGED <<parallel_workers, workers, affinities, mixed, pc, key, command, execution,
                       isolation, ikey, seen>>
        /\ version' = version + 1 /\ version = parallel_workers /\ bootstrap' = b
        /\ version \in Nat
    BY <1>5, RequestsAssumption DEF SwapBootstrap, pool, req, Capacity, IInv, Shapes, Pools
  <2>. SUFFICES ASSUME NEW p \in Pools, p <= version'
                PROVE  \E c \in Configs : IsOf(c, p)'
    BY DEF Served
  <2>2. p \in Nat
    BY RequestsAssumption DEF Pools
  <2>3. CASE p = version'
    <3>1. /\ DOMAIN affinities[p] = {}
          /\ \A s \in Requests : seen[s] # {p}
      BY <2>1, <2>2, <2>3 DEF Capacity, Versions
    <3>2. IsOf(b, p)'
      BY <2>1, <2>3, <3>1 DEF IsOf
    <3>. QED
      BY <3>2
  <2>4. CASE p # version'
    <3>1. PICK c \in Configs : IsOf(c, p)
      BY <2>1, <2>2, <2>4 DEF Capacity, Served
    <3>2. \A s \in Requests : seen'[s] = {p} => ReadFrom(c, s)'
      BY <2>1, <3>1 DEF IsOf, ReadFrom
    <3>3. IsOf(c, p)'
      BY <2>1, <2>4, <3>1, <3>2 DEF IsOf
    <3>. QED
      BY <3>3
  <2>. QED
    BY <2>3, <2>4
<1>6. CASE SwapPool
  <2>1. /\ UNCHANGED <<bootstrap, version, affinities, mixed, pc, key, command, execution,
                       isolation, ikey, seen>>
        /\ version # parallel_workers /\ parallel_workers' = version
        /\ workers' = [workers EXCEPT ![version] = requested_parallel_count(bootstrap)]
        /\ version \in Pools /\ DOMAIN workers = Pools
    BY <1>6 DEF SwapPool, req, Capacity, IInv, Shapes
  <2>. SUFFICES ASSUME NEW p \in Pools, p <= version
                PROVE  \E c \in Configs : IsOf(c, p)'
    BY <2>1 DEF Served
  <2>2. PICK c \in Configs : IsOf(c, p)
    BY DEF Capacity, Served
  <2>3. \A s \in Requests : seen'[s] = {p} => ReadFrom(c, s)'
    BY <2>1, <2>2 DEF IsOf, ReadFrom
  <2>4. workers'[p] = requested_parallel_count(c)
    <3>1. CASE p = version
      BY <2>1, <2>2, <3>1 DEF IsOf
    <3>2. CASE p # version
      <4>1. p <= parallel_workers
        BY <2>1, <3>2, RequestsAssumption DEF Capacity, Versions, IInv, Shapes, Pools
      <4>. QED
        BY <2>1, <2>2, <3>2, <4>1 DEF IsOf
    <3>. QED
      BY <3>1, <3>2
  <2>5. IsOf(c, p)'
    BY <2>1, <2>2, <2>3, <2>4 DEF IsOf
  <2>. QED
    BY <2>5
<1>7. ASSUME NEW r \in Requests, Abort(r)
      PROVE  Served'
  BY <1>3, <1>7 DEF Abort, pool, req
<1>8. ASSUME NEW w \in Windows, Load(w)
      PROVE  Served'
  BY <1>3, <1>8 DEF Load, pool, req
<1>9. ASSUME NEW k \in cancels, cancel(k)
      PROVE  Served'
  BY <1>3, <1>9 DEF cancel, pool, req
<1>10. CASE UNCHANGED vars
  BY <1>3, <1>10 DEF vars, host
<1>. QED
  BY <1>1, <1>2, <1>4, <1>5, <1>6, <1>7, <1>8, <1>9, <1>10 DEF Next

\* Every action keeps the count of workers taken, and turns nobody away from a
\* pool that was not mixed.
LEMMA NextCounted ==
    Capacity /\ [Next]_vars => Counted' /\ CapacitySufficesWithoutReload'
<1>. SUFFICES ASSUME Capacity, [Next]_vars
              PROVE  Counted' /\ CapacitySufficesWithoutReload'
  OBVIOUS
<1>1. ASSUME NEW r \in Requests, Run(r)
      PROVE  Counted' /\ CapacitySufficesWithoutReload'
  <2>1. /\ mixed \subseteq mixed' /\ UNCHANGED home
        /\ \A s \in Requests \ {r} : task'[s] = task[s]
    BY <1>1, TaskEffects
  <2>2. CapacitySufficesWithoutReload'
    BY <1>1, <2>1, ExhaustedIsMixed DEF Capacity, CapacitySufficesWithoutReload
  <2>3. ASSUME NEW p \in Pools \ mixed'
        PROVE  /\ IsFiniteSet(DOMAIN affinities'[p])
               /\ next_affinity'[p] = Cardinality(DOMAIN affinities'[p])
    <3>1. /\ IsFiniteSet(DOMAIN affinities[p]) /\ next_affinity[p] = Cardinality(DOMAIN affinities[p])
          /\ next_affinity \in [Pools -> Nat]
      BY <2>1 DEF Capacity, IInv, Shapes, Counted
    <3>2. CASE affinities' = affinities /\ task'[r] = "exhausted" /\ request_keyed(r)
      <4>1. p # home[r]
        BY <1>1, <3>2, ExhaustedIsMixed
      <4>2. next_affinity'[p] = next_affinity[p]
        BY <3>1, <3>2, <4>1 DEF request_keyed
      <4>. QED
        BY <3>1, <3>2, <4>2
    <3>3. CASE affinities' = affinities /\ next_affinity' = next_affinity
      BY <3>1, <3>3
    <3>4. CASE /\ task[r] = "queued" /\ home[r] \in Pools
               /\ ikey[r] \notin DOMAIN affinities[home[r]]
               /\ next_affinity' = [next_affinity EXCEPT ![home[r]] = @ + 1]
               /\ \A q \in Pools \ {home[r]} : affinities'[q] = affinities[q]
               /\ DOMAIN affinities'[home[r]] = (DOMAIN affinities[home[r]]) \cup {ikey[r]}
      <4>1. CASE p = home[r]
        <5>1. /\ IsFiniteSet((DOMAIN affinities[p]) \cup {ikey[r]})
              /\ Cardinality((DOMAIN affinities[p]) \cup {ikey[r]}) = Cardinality(DOMAIN affinities[p]) + 1
          BY <3>1, <3>4, <4>1, FS_AddElement
        <5>. QED
          BY <3>1, <3>4, <4>1, <5>1
      <4>2. CASE p # home[r]
        BY <3>1, <3>4, <4>2
      <4>. QED
        BY <4>1, <4>2
    <3>. QED
      BY <1>1, <3>2, <3>3, <3>4, TaskTakes
  <2>. QED
    BY <2>2, <2>3 DEF Counted
\* The other steps give no worker away and end no task.
<1>2. ASSUME UNCHANGED <<affinities, next_affinity, mixed>>,
             \A s \in Requests : task'[s] = "exhausted" => task[s] = "exhausted" /\ home'[s] = home[s]
      PROVE  Counted' /\ CapacitySufficesWithoutReload'
  BY <1>2 DEF Capacity, Counted, CapacitySufficesWithoutReload
<1>3. ASSUME NEW r \in Requests, Handle(r)
      PROVE  Counted' /\ CapacitySufficesWithoutReload'
  <2>1. /\ UNCHANGED <<pool, mixed>>
        /\ \A s \in Requests \ {r} : Same(s)
    BY <1>3, HandlerEffects
  <2>2. task'[r] = "exhausted" => task[r] = "exhausted" /\ home'[r] = home[r]
    BY <1>3 DEF Capacity, IInv, Shapes, Handle, NeverArrives, CheckWindow, Register, ReadExecution,
           ReadIsolation, ReadKey, Spawn, DropHandler, Finish, Return, req, handlerReads
  <2>. QED
    BY <1>2, <2>1, <2>2 DEF pool, Same
<1>4. ASSUME NEW u \in Uses, Send(u[1], u[2])
      PROVE  Counted' /\ CapacitySufficesWithoutReload'
  BY <1>2, <1>4 DEF Send, pool
<1>5. ASSUME NEW c \in Configs, SwapBootstrap(c)
      PROVE  Counted' /\ CapacitySufficesWithoutReload'
  BY <1>2, <1>5 DEF SwapBootstrap, pool, req
<1>6. CASE SwapPool
  BY <1>2, <1>6 DEF SwapPool, req
<1>7. ASSUME NEW r \in Requests, Abort(r)
      PROVE  Counted' /\ CapacitySufficesWithoutReload'
  BY <1>2, <1>7 DEF Abort, pool, req
<1>8. ASSUME NEW w \in Windows, Load(w)
      PROVE  Counted' /\ CapacitySufficesWithoutReload'
  BY <1>2, <1>8 DEF Load, pool, req
<1>9. ASSUME NEW k \in cancels, cancel(k)
      PROVE  Counted' /\ CapacitySufficesWithoutReload'
  BY <1>2, <1>9 DEF cancel, pool, req
<1>10. CASE UNCHANGED vars
  BY <1>2, <1>10 DEF vars
<1>. QED
  BY <1>1, <1>3, <1>4, <1>5, <1>6, <1>7, <1>8, <1>9, <1>10 DEF Next

\* A pool has a worker for every isolation key of its bootstrap and for its
\* parallel commands: request_keyed and the round robin turn a request away only
\* where a reload swapped bootstrap and pool between two of its reads, or
\* between those of a request the pool served before.
THEOREM CapacitySuffices == Spec => []CapacitySufficesWithoutReload
<1>1. Init => Capacity
  BY InitIInv, InitCapacity DEF Capacity
<1>2. Capacity /\ [Next]_vars => Capacity'
  BY NextShapes, NextTable, NextAffinities, NextVersions, NextServed, NextCounted DEF Capacity, IInv
<1>3. Capacity => CapacitySufficesWithoutReload
  BY DEF Capacity
<1>. QED
  BY <1>1, <1>2, <1>3, PTL DEF Spec
=============================================================================
