-------------------------- MODULE GatewayRequests --------------------------
(***************************************************************************)
(* Bridge requests in the gateway (gateway.rs): the cancellation table that *)
(* names every request a page has under way, the choice of the PHP worker   *)
(* that serves it, and the hot reload that swaps configuration and worker   *)
(* pool under different locks while handlers are between two reads of them. *)
(*                                                                         *)
(* A request is a number, its token in the table is the request itself.     *)
(* Its key is <<window, requestId>>; a page counts its requestIds from 1    *)
(* again whenever it is loaded.  The handler is a future that the HTTP      *)
(* server drops at its only await when the page has gone away; the blocking *)
(* task it awaits is not dropped.  A pool is named by the reload it belongs *)
(* to.  What a worker does with a request is WorkerSupervisor's subject:    *)
(* here a task ends with an answer or an error.                             *)
(***************************************************************************)
EXTENDS Integers, FiniteSets

CONSTANTS Windows,     \* window ids pages can be loaded for
          Configs,     \* bootstraps the application can be reloaded with
          Commands,    \* commands of the application
          Plugin,      \* a command of a Rust plugin, sent to plugin_invoke
          Uses,        \* <<window, command>>: what the pages call
          MaxRequests, \* bound: requests sent by the pages
          MaxAborts,   \* bound: requests the pages give up
          MaxLoads,    \* bound: page loads after the first
          MaxReloads   \* bound: hot reloads

\* A bootstrap as PHP declares it and Bootstrap::validate accepts it.
ConfigOK(c) == /\ c.windows \subseteq Windows /\ c.windows # {}
               /\ IsFiniteSet(c.windows)
               /\ c.parallel_worker_count \in 1..16
               /\ c.isolation \in {"shared", "window", "workspace"}
               /\ DOMAIN c.parent \subseteq c.windows
               /\ \A w \in DOMAIN c.parent : c.parent[w] \in c.windows
               /\ c.execution \in [Commands -> {"stateful", "parallel"}]

ASSUME RequestsAssumption == /\ \A c \in Configs : ConfigOK(c)
                             /\ Plugin \notin Commands
                             /\ Uses \subseteq Windows \X (Commands \cup {Plugin})
                             /\ MaxRequests \in Nat
                             /\ MaxAborts \in Nat
                             /\ MaxLoads \in Nat
                             /\ MaxReloads \in Nat

Requests == 1..MaxRequests
Pools == 0..MaxReloads
None == 0

VARIABLES bootstrap,       \* GatewayState.bootstrap
          version,         \* how often it was replaced
          parallel_workers,\* GatewayState.parallel_workers: the current pool
          workers,         \* pool -> WorkerPool.workers.len()
          next,            \* pool -> WorkerPool.next
          affinities,      \* pool -> WorkerPool.affinities
          next_affinity,   \* pool -> WorkerPool.next_affinity
          cancellations,   \* key -> the request whose token is in the table
          active_commands, \* GatewayMetrics.active_commands
          nextRequestId,   \* window -> the page's counter
          sent, aborts, loads,
          cancels,         \* keys of /_pam/cancel calls on their way
          pc,              \* request -> where its handler is
          key, command,    \* request -> what its page sent
          execution,       \* request -> command_execution()
          isolation,       \* request -> process_isolation()
          ikey,            \* request -> isolation_key()
          home,            \* request -> the pool from parallel_workers()
          worker,          \* request -> the worker of its pool, from 1
          gone,            \* request -> its page no longer waits for it
          token,           \* request -> its CancellationToken is cancelled
          task,            \* request -> its blocking task
          \* observation only
          seen,            \* request -> versions of the bootstrap it has read
          mixed            \* pools given a request that read another bootstrap

pool == <<workers, next, affinities, next_affinity>>
host == <<bootstrap, version, parallel_workers>>
page == <<nextRequestId, sent, aborts, loads>>
req == <<key, command, execution, isolation, ikey, home, worker, seen>>
vars == <<bootstrap, version, parallel_workers, workers, next, affinities,
          next_affinity, cancellations, active_commands, nextRequestId, sent,
          aborts, loads, cancels, pc, key, command, execution, isolation, ikey,
          home, worker, gone, token, task, seen, mixed>>

HandlerStates == {"unsent", "sent", "register", "execution", "isolation", "key",
                  "pool", "await", "done", "conflict", "dropped"}
TaskStates == {"none", "queued", "running", "ok", "error", "exhausted"}
Keys == Windows \X (1..MaxRequests)
NoKey == <<None, None>>

\* Mutant: the windows do not count.
configured_count(c) == c.parallel_worker_count

\* requested_parallel_count
requested_parallel_count(c) ==
    IF c.isolation # "shared"
    THEN IF c.parallel_worker_count >= Cardinality(c.windows)
         THEN c.parallel_worker_count ELSE Cardinality(c.windows)
    ELSE IF \E m \in Commands : c.execution[m] # "stateful"
         THEN c.parallel_worker_count ELSE 0

\* isolation_key: the outermost parent, or wherever the walk is cut off after
\* one step more than there are windows.
isolation_key(c, w) ==
    LET limit == Cardinality(c.windows) + 1
        above[n \in 0..limit] ==
            IF n = 0 THEN w
            ELSE IF above[n - 1] \in DOMAIN c.parent
                 THEN c.parent[above[n - 1]] ELSE above[n - 1]
    IN IF c.isolation = "workspace" THEN above[limit] ELSE w

Empty == [k \in {} |-> None]
Drop(f, k) == [x \in (DOMAIN f) \ {k} |-> f[x]]
Put(f, k, v) == [x \in (DOMAIN f) \cup {k} |-> IF x = k THEN v ELSE f[x]]

-----------------------------------------------------------------------------
Init == /\ bootstrap \in Configs
        /\ version = 0
        /\ parallel_workers = 0
        /\ workers = [p \in Pools |-> IF p = 0 THEN requested_parallel_count(bootstrap)
                                       ELSE 0]
        /\ next = [p \in Pools |-> 0]
        /\ affinities = [p \in Pools |-> Empty]
        /\ next_affinity = [p \in Pools |-> 0]
        /\ cancellations = Empty
        /\ active_commands = 0
        /\ nextRequestId = [w \in Windows |-> 1]
        /\ sent = 0
        /\ aborts = 0
        /\ loads = 0
        /\ cancels = {}
        /\ pc = [r \in Requests |-> "unsent"]
        /\ key = [r \in Requests |-> NoKey]
        /\ command = [r \in Requests |-> Plugin]
        /\ execution = [r \in Requests |-> "stateful"]
        /\ isolation = [r \in Requests |-> "shared"]
        /\ ikey = [r \in Requests |-> None]
        /\ home = [r \in Requests |-> 0]
        /\ worker = [r \in Requests |-> None]
        /\ seen = [r \in Requests |-> {}]
        /\ gone = [r \in Requests |-> FALSE]
        /\ token = [r \in Requests |-> FALSE]
        /\ task = [r \in Requests |-> "none"]
        /\ mixed = {}

-----------------------------------------------------------------------------
(* The page (BRIDGE_SCRIPT).                                               *)

\* request: const requestId = nextRequestId++; fetch(endpoint, ...).
Send(w, m) ==
    /\ <<w, m>> \in Uses
    /\ sent < MaxRequests
    /\ sent' = sent + 1
    /\ nextRequestId' = [nextRequestId EXCEPT ![w] = @ + 1]
    /\ key' = [key EXCEPT ![sent'] = <<w, nextRequestId[w]>>]
    /\ command' = [command EXCEPT ![sent'] = m]
    /\ pc' = [pc EXCEPT ![sent'] = "sent"]
    /\ UNCHANGED <<execution, isolation, ikey, home, worker, seen, host, pool,
                   cancellations, active_commands, aborts, loads, cancels, gone,
                   token, task, mixed>>

\* abort: controller.abort(); cancelRemote(requestId).
Abort(r) ==
    /\ pc[r] \notin {"unsent", "done", "conflict", "dropped"}
    /\ ~gone[r]
    /\ aborts < MaxAborts
    /\ aborts' = aborts + 1
    /\ gone' = [gone EXCEPT ![r] = TRUE]
    /\ cancels' = cancels \cup {key[r]}
    /\ UNCHANGED <<host, pool, cancellations, active_commands, nextRequestId, sent,
                   loads, pc, req, token, task, mixed>>

\* A page that has sent something is loaded again: its connections close, its
\* counter starts over.
Load(w) ==
    /\ loads < MaxLoads
    /\ nextRequestId[w] > 1
    /\ loads' = loads + 1
    /\ nextRequestId' = [nextRequestId EXCEPT ![w] = 1]
    /\ gone' = [r \in Requests |-> gone[r] \/ key[r][1] = w]
    /\ UNCHANGED <<host, pool, cancellations, active_commands, sent, aborts, cancels, pc,
                   req, token, task, mixed>>

-----------------------------------------------------------------------------
(* Handlers.                                                               *)

\* The handler returns and what it had read is gone with it.
Return(r, p) ==
    /\ pc' = [pc EXCEPT ![r] = p]
    /\ key' = [key EXCEPT ![r] = NoKey]
    /\ command' = [command EXCEPT ![r] = Plugin]
    /\ execution' = [execution EXCEPT ![r] = "stateful"]
    /\ isolation' = [isolation EXCEPT ![r] = "shared"]
    /\ ikey' = [ikey EXCEPT ![r] = None]
    /\ home' = [home EXCEPT ![r] = 0]
    /\ worker' = [worker EXCEPT ![r] = None]
    /\ seen' = [seen EXCEPT ![r] = {}]
    /\ gone' = [gone EXCEPT ![r] = FALSE]
    /\ token' = [token EXCEPT ![r] = FALSE]
    /\ task' = [task EXCEPT ![r] = "none"]

\* A request whose connection closed before the server read it.
NeverArrives(r) ==
    /\ pc[r] = "sent"
    /\ gone[r]
    /\ Return(r, "done")
    /\ UNCHANGED <<host, pool, cancellations, active_commands, page, cancels, mixed>>

\* has_window, in a lock of its own, and the range of the page's timeout.
CheckWindow(r) ==
    /\ pc[r] = "sent"
    /\ \E in_range \in BOOLEAN :
          \/ /\ key[r][1] \notin bootstrap.windows \/ ~in_range
             /\ Return(r, "done")
          \/ /\ key[r][1] \in bootstrap.windows /\ in_range
             /\ pc' = [pc EXCEPT ![r] = "register"]
             /\ seen' = [seen EXCEPT ![r] = {version}]
             /\ UNCHANGED <<key, command, execution, isolation, ikey, home, worker,
                            gone, token, task>>
    /\ UNCHANGED <<host, pool, cancellations, active_commands, page, cancels, mixed>>

\* cancellations.insert(key, cancellation): the new token replaces an old one
\* before the handler finds out that there was one.
Register(r) ==
    /\ pc[r] = "register"
    /\ cancellations' = Put(cancellations, key[r], r)
    /\ \/ /\ key[r] \in DOMAIN cancellations
          /\ Return(r, "conflict")
       \/ /\ key[r] \notin DOMAIN cancellations
          /\ \/ /\ command[r] # Plugin
                /\ pc' = [pc EXCEPT ![r] = "execution"]
                /\ UNCHANGED task
             \/ /\ command[r] = Plugin
                /\ pc' = [pc EXCEPT ![r] = "await"]
                /\ task' = [task EXCEPT ![r] = "running"]
          /\ UNCHANGED <<req, gone, token>>
    /\ UNCHANGED <<host, pool, active_commands, page, cancels, mixed>>

handlerReads == <<host, pool, cancellations, page, cancels, gone, token, mixed>>

\* command_execution: an unknown command is stateful.
ReadExecution(r) ==
    /\ pc[r] = "execution"
    /\ execution' = [execution EXCEPT ![r] = bootstrap.execution[command[r]]]
    /\ seen' = [seen EXCEPT ![r] = @ \cup {version}]
    /\ pc' = [pc EXCEPT ![r] = "isolation"]
    /\ UNCHANGED <<key, command, isolation, ikey, home, worker, handlerReads,
                   active_commands, task>>

\* process_isolation
ReadIsolation(r) ==
    /\ pc[r] = "isolation"
    /\ isolation' = [isolation EXCEPT ![r] = bootstrap.isolation]
    /\ seen' = [seen EXCEPT ![r] = @ \cup {version}]
    /\ pc' = [pc EXCEPT ![r] = "key"]
    /\ UNCHANGED <<key, command, execution, ikey, home, worker, handlerReads,
                   active_commands, task>>

\* isolation_key, then the counters.
ReadKey(r) ==
    /\ pc[r] = "key"
    /\ ikey' = [ikey EXCEPT ![r] = isolation_key(bootstrap, key[r][1])]
    /\ seen' = [seen EXCEPT ![r] = @ \cup {version}]
    /\ active_commands' = active_commands + 1
    /\ pc' = [pc EXCEPT ![r] = "pool"]
    /\ UNCHANGED <<key, command, execution, isolation, home, worker, handlerReads, task>>

\* parallel_workers() and spawn_blocking.
Spawn(r) ==
    /\ pc[r] = "pool"
    /\ home' = [home EXCEPT ![r] = parallel_workers]
    /\ pc' = [pc EXCEPT ![r] = "await"]
    /\ task' = [task EXCEPT ![r] = "queued"]
    /\ UNCHANGED <<key, command, execution, isolation, ikey, worker, seen, handlerReads,
                   active_commands>>

\* The connection is closed: the future is dropped where it awaits its task.
DropHandler(r) ==
    /\ pc[r] = "await"
    /\ gone[r]
    /\ pc' = [pc EXCEPT ![r] = "dropped"]
    /\ UNCHANGED <<handlerReads, active_commands, req, task>>

\* Mutant: an error returns before the gauge and the table are corrected.
FinishOrFail(r) ==
    /\ pc[r] = "await"
    /\ task[r] \in {"ok", "error", "exhausted"}
    /\ cancellations' = IF task[r] = "ok" THEN Drop(cancellations, key[r])
                        ELSE cancellations
    /\ active_commands' = IF command[r] = Plugin \/ task[r] # "ok"
                          THEN active_commands ELSE active_commands - 1
    /\ Return(r, "done")
    /\ UNCHANGED <<host, pool, page, cancels, mixed>>

\* After the await: the gauge (plugin_invoke has none), the table, the answer.
Finish(r) ==
    /\ pc[r] = "await"
    /\ task[r] \in {"ok", "error", "exhausted"}
    /\ cancellations' = Drop(cancellations, key[r])
    /\ active_commands' = IF command[r] = Plugin THEN active_commands
                          ELSE active_commands - 1
    /\ Return(r, "done")
    /\ UNCHANGED <<host, pool, page, cancels, mixed>>

\* Mutant: the handler takes the token out of the table.
cancel_and_remove(k) ==
    /\ k \in cancels
    /\ cancels' = cancels \ {k}
    /\ token' = [r \in Requests |-> \/ token[r]
                                    \/ k \in DOMAIN cancellations /\ cancellations[k] = r]
    /\ cancellations' = Drop(cancellations, k)
    /\ UNCHANGED <<host, pool, active_commands, page, pc, req, gone, task, mixed>>

\* cancel: the token found under the key, if any.
cancel(k) ==
    /\ k \in cancels
    /\ cancels' = cancels \ {k}
    /\ token' = [r \in Requests |-> \/ token[r]
                                    \/ k \in DOMAIN cancellations /\ cancellations[k] = r]
    /\ UNCHANGED <<host, pool, cancellations, active_commands, page, pc, req,
                   gone, task, mixed>>

-----------------------------------------------------------------------------
(* Blocking tasks.                                                         *)

Primary(r) == execution[r] = "stateful" /\ isolation[r] = "shared"
Keyed(r) == execution[r] = "stateful" /\ isolation[r] # "shared"

taskOnly == <<host, workers, cancellations, active_commands, page, cancels, pc, key,
              command, execution, isolation, ikey, home, seen, gone, token>>

\* supervisor.lock()?.request(...)
RunPrimary(r) ==
    /\ task[r] = "queued"
    /\ Primary(r)
    /\ task' = [task EXCEPT ![r] = "running"]
    /\ UNCHANGED <<taskOnly, next, affinities, next_affinity, worker, mixed>>

\* WorkerPool::request: round-robin, or the error of an empty pool.
RunParallel(r) ==
    /\ task[r] = "queued"
    /\ execution[r] = "parallel"
    /\ LET p == home[r]
       IN \/ /\ workers[p] = 0
             /\ task' = [task EXCEPT ![r] = "exhausted"]
             /\ UNCHANGED <<next, worker>>
          \/ /\ workers[p] # 0
             /\ next' = [next EXCEPT ![p] = @ + 1]
             /\ worker' = [worker EXCEPT ![r] = 1 + (next[p] % workers[p])]
             /\ task' = [task EXCEPT ![r] = "running"]
    /\ mixed' = IF seen[r] = {home[r]} THEN mixed ELSE mixed \cup {home[r]}
    /\ UNCHANGED <<taskOnly, affinities, next_affinity>>

\* Mutant: the counter of taken workers is read and not advanced.
request_keyed_no_advance(r) ==
    /\ task[r] = "queued"
    /\ Keyed(r)
    /\ LET p == home[r]
           k == ikey[r]
       IN /\ next_affinity[p] < workers[p]
          /\ affinities' = [affinities EXCEPT ![p] = Put(@, k, next_affinity[p] + 1)]
          /\ worker' = [worker EXCEPT ![r] = next_affinity[p] + 1]
          /\ task' = [task EXCEPT ![r] = "running"]
    /\ UNCHANGED <<taskOnly, next, next_affinity, mixed>>

\* WorkerPool::request_keyed: the key's worker, or the next one without a key.
\* Worker indices are counted from 1 here.
request_keyed(r) ==
    /\ task[r] = "queued"
    /\ Keyed(r)
    /\ LET p == home[r]
           k == ikey[r]
       IN \/ /\ workers[p] # 0
             /\ k \in DOMAIN affinities[p]
             /\ worker' = [worker EXCEPT ![r] = affinities[p][k]]
             /\ task' = [task EXCEPT ![r] = "running"]
             /\ UNCHANGED <<affinities, next_affinity>>
          \/ /\ k \notin DOMAIN affinities[p]
             /\ next_affinity[p] < workers[p]
             /\ next_affinity' = [next_affinity EXCEPT ![p] = @ + 1]
             /\ affinities' = [affinities EXCEPT ![p] = Put(@, k, next_affinity'[p])]
             /\ worker' = [worker EXCEPT ![r] = next_affinity'[p]]
             /\ task' = [task EXCEPT ![r] = "running"]
          \/ /\ k \notin DOMAIN affinities[p]
             /\ next_affinity[p] >= workers[p]
             /\ next_affinity' = IF workers[p] = 0 THEN next_affinity
                                 ELSE [next_affinity EXCEPT ![p] = @ + 1]
             /\ task' = [task EXCEPT ![r] = "exhausted"]
             /\ UNCHANGED <<affinities, worker>>
    /\ mixed' = IF seen[r] = {home[r]} THEN mixed ELSE mixed \cup {home[r]}
    /\ UNCHANGED <<taskOnly, next>>

\* WorkerSupervisor::request or the plugin returns.
TaskEnds(r) ==
    /\ task[r] = "running"
    /\ \E result \in {"ok", "error"} : task' = [task EXCEPT ![r] = result]
    /\ UNCHANGED <<taskOnly, next, affinities, next_affinity, worker, mixed>>

-----------------------------------------------------------------------------
(* finish_runtime_reload, on the watcher's thread.                         *)

SwapBootstrap(c) ==
    /\ version = parallel_workers
    /\ version < MaxReloads
    /\ version' = version + 1
    /\ bootstrap' = c
    /\ UNCHANGED <<parallel_workers, pool, cancellations, active_commands, page,
                   cancels, pc, req, gone, token, task, mixed>>

\* The pool was prepared before either was swapped.
SwapPool ==
    /\ version # parallel_workers
    /\ parallel_workers' = version
    /\ workers' = [workers EXCEPT ![version] = requested_parallel_count(bootstrap)]
    /\ UNCHANGED <<bootstrap, version, next, affinities, next_affinity, cancellations,
                   active_commands, page, cancels, pc, req, gone, token, task,
                   mixed>>

-----------------------------------------------------------------------------
Handle(r) == \/ NeverArrives(r) \/ CheckWindow(r) \/ Register(r) \/ ReadExecution(r)
             \/ ReadIsolation(r) \/ ReadKey(r) \/ Spawn(r) \/ DropHandler(r) \/ Finish(r)

Run(r) == RunPrimary(r) \/ RunParallel(r) \/ request_keyed(r) \/ TaskEnds(r)

Next == \/ \E w \in Windows : Load(w)
        \/ \E u \in Uses : Send(u[1], u[2])
        \/ \E r \in Requests : Abort(r) \/ Handle(r) \/ Run(r)
        \/ \E k \in cancels : cancel(k)
        \/ \E c \in Configs : SwapBootstrap(c)
        \/ SwapPool

Spec == Init /\ [][Next]_vars

-----------------------------------------------------------------------------
UnderWay(r) == pc[r] \in {"execution", "isolation", "key", "pool", "await"}
Live(r) == task[r] \in {"queued", "running"}

TypeOK ==
    /\ bootstrap \in Configs
    /\ version \in Pools /\ parallel_workers \in Pools
    /\ workers \in [Pools -> Nat]
    /\ next \in [Pools -> Nat]
    /\ next_affinity \in [Pools -> Nat]
    /\ \A p \in Pools :
           /\ DOMAIN affinities[p] \subseteq Windows
           /\ \A k \in DOMAIN affinities[p] : affinities[p][k] \in 1..workers[p]
    /\ DOMAIN cancellations \subseteq Keys
    /\ \A k \in DOMAIN cancellations : cancellations[k] \in Requests
    /\ nextRequestId \in [Windows -> 1..(MaxRequests + 1)]
    /\ sent \in 0..MaxRequests /\ aborts \in 0..MaxAborts /\ loads \in 0..MaxLoads
    /\ cancels \subseteq Keys
    /\ pc \in [Requests -> HandlerStates]
    /\ key \in [Requests -> Keys \cup {NoKey}]
    /\ command \in [Requests -> Commands \cup {Plugin}]
    /\ execution \in [Requests -> {"stateful", "parallel"}]
    /\ isolation \in [Requests -> {"shared", "window", "workspace"}]
    /\ ikey \in [Requests -> Windows \cup {None}]
    /\ home \in [Requests -> Pools]
    /\ \A r \in Requests : worker[r] \in 0..workers[home[r]]
    /\ seen \in [Requests -> SUBSET Pools]
    /\ gone \in [Requests -> BOOLEAN]
    /\ token \in [Requests -> BOOLEAN]
    /\ task \in [Requests -> TaskStates]
    /\ mixed \subseteq Pools
    \* The gauge counts the handlers that are past it and those dropped there.
    /\ active_commands = Cardinality({r \in Requests :
                             /\ command[r] # Plugin
                             /\ pc[r] \in {"pool", "await", "dropped"}})

\* A request identity runs at most once at a time, in PHP or in a plugin, over
\* page loads that start the ids again, cancellations and refused duplicates.
OneTaskPerKey ==
    \A r, s \in Requests : Live(r) /\ Live(s) /\ key[r] = key[s] => r = s

\* The table holds the keys of requests under way and of those whose handler
\* was dropped, and no others: nothing but a closed connection leaks an entry.
OnlyDroppedHandlersLeak ==
    DOMAIN cancellations =
        {key[r] : r \in {s \in Requests : UnderWay(s) \/ pc[s] = "dropped"}}

\* Isolation: a stateful request under way runs on a worker of its pool that
\* belongs to its isolation key, and to no other, however the keys arrive.
IsolatedWorkersAreExclusive ==
    \A r \in Requests : Keyed(r) /\ task[r] = "running" =>
        LET owners == affinities[home[r]]
        IN {k \in DOMAIN owners : owners[k] = worker[r]} = {ikey[r]}

\* A pool has a worker for every isolation key: a request is turned away for
\* want of one only if a reload let the pool serve another bootstrap's request.
CapacitySufficesWithoutReload ==
    \A r \in Requests : task[r] = "exhausted" => home[r] \in mixed

=============================================================================
