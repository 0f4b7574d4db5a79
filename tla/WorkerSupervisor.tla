-------------------------- MODULE WorkerSupervisor --------------------------
(***************************************************************************)
(* One supervised PHP worker (worker.rs): the callers that share it behind  *)
(* the supervisor mutex, the WorkerClient that writes a request and waits   *)
(* for its answer, the PHP process at the other end of the pipes, and the   *)
(* reload that restarts the worker while the host is running.               *)
(*                                                                         *)
(* A call is one WorkerSupervisor::request: a command, an event or a job    *)
(* attempt.  A process is a number; the ids of a worker's requests start    *)
(* again with every process, as in WorkerClient::spawn.  The reader thread  *)
(* only moves lines from the pipe to the channel, so pipe and channel are   *)
(* one queue; the end of file is the queue of a dead process run empty.     *)
(* PHP may answer twice, print something else, stop answering, or die.      *)
(***************************************************************************)
EXTENDS Integers, Sequences, FiniteSets

CONSTANTS Calls,      \* the requests made of this supervisor
          Oversize,   \* calls whose encoding exceeds MAX_MESSAGE_BYTES
          Large,      \* calls larger than the pipe: PHP must read to let it end
          None,       \* no caller, no request, no answer
          Reloader,   \* the reload of the running application
          MaxNoise,   \* bound: unexpected lines PHP prints
          MaxCrashes, \* bound: times PHP dies by itself
          MaxFailures,\* bound: starts of a worker that fail
          MaxReloads  \* bound: reloads

ASSUME SupervisorAssumption ==
    /\ Oversize \subseteq Calls
    /\ Large \subseteq Calls
    /\ None \notin Calls
    /\ Reloader \notin Calls \cup {None}
    /\ MaxNoise \in Nat /\ MaxCrashes \in Nat
    /\ MaxFailures \in Nat /\ MaxReloads \in Nat

VARIABLES lock,       \* who holds Mutex<WorkerSupervisor>
          worker,     \* WorkerSupervisor.worker: a process, or 0 for None
          generation, \* WorkerSupervisor.generation
          next_id,    \* WorkerClient.next_id
          stdin,      \* the request in the process's standard input, or None
          busy,       \* the request PHP is handling, or None
          out,        \* lines PHP printed that request() has not received
          pc,         \* call -> where it is
          token,      \* call -> its CancellationToken is cancelled
          outcome,    \* call -> what request() returned
          alive,      \* processes that are running
          noise, crashes, failures, reloads,
          \* observation only
          spawned,    \* processes started so far
          executed,   \* call -> how often a handler ran for it
          answer      \* call -> the call its response answers

process == <<next_id, stdin, busy, out>>
budgets == <<noise, crashes, failures, reloads>>
vars == <<lock, worker, generation, next_id, stdin, busy, out, pc, token,
          outcome, alive, noise, crashes, failures, reloads,
          spawned, executed, answer>>

CallStates == {"new", "queued", "ready", "writing", "waiting", "failed",
               "restart", "done"}
Outcomes == {"none", "ok", "cancelled", "timedout", "crashed"}
Requests == [id : Nat, call : Calls]
Garbage == [id |-> 0, call |-> None]

Init == /\ lock = None
        /\ worker = 1 /\ generation = 1 /\ spawned = 1 /\ alive = {1}
        /\ next_id = 2   \* the boot request took id 1
        /\ stdin = None /\ busy = None /\ out = <<>>
        /\ pc = [c \in Calls |-> "new"]
        /\ token = [c \in Calls |-> FALSE]
        /\ outcome = [c \in Calls |-> "none"]
        /\ noise = 0 /\ crashes = 0 /\ failures = 0 /\ reloads = 0
        /\ executed = [c \in Calls |-> 0]
        /\ answer = [c \in Calls |-> None]

-----------------------------------------------------------------------------
(* Starting and stopping the process.                                      *)

\* worker.take(): Drop for WorkerClient kills, waits and joins the reader.
take_worker ==
    /\ worker' = 0
    /\ alive' = alive \ {worker}
    /\ stdin' = None /\ busy' = None /\ out' = <<>>
    /\ UNCHANGED next_id

\* spawn_ready_worker succeeds: WorkerClient::spawn, boot with request id 1,
\* Bootstrap::validate.  The caller has taken the old worker before.
spawn_ready_worker ==
    /\ spawned' = spawned + 1
    /\ worker' = spawned'
    /\ alive' = alive \cup {spawned'}
    /\ generation' = generation + 1
    /\ next_id' = 2
    /\ stdin' = None /\ busy' = None /\ out' = <<>>
    /\ UNCHANGED failures

\* It fails to start, boot or validate: the process it may have started is
\* dropped, and neither worker nor generation changes.
spawn_fails ==
    /\ failures < MaxFailures
    /\ failures' = failures + 1
    /\ UNCHANGED <<spawned, worker, alive, generation, process>>

-----------------------------------------------------------------------------
(* A caller.                                                               *)

Submit(c) ==
    /\ pc[c] = "new"
    /\ pc' = [pc EXCEPT ![c] = "queued"]
    /\ UNCHANGED <<lock, worker, generation, process, token, outcome, alive,
                   budgets, spawned, executed, answer>>

\* The page aborts, its deadline passes or the scheduler stops.
cancel(c) ==
    /\ pc[c] \notin {"new", "done"}
    /\ ~token[c]
    /\ token' = [token EXCEPT ![c] = TRUE]
    /\ UNCHANGED <<lock, worker, generation, process, pc, outcome, alive,
                   budgets, spawned, executed, answer>>

Acquire(c) ==
    /\ pc[c] = "queued"
    /\ lock = None
    /\ lock' = c
    /\ pc' = [pc EXCEPT ![c] = "ready"]
    /\ UNCHANGED <<worker, generation, process, token, outcome, alive,
                   budgets, spawned, executed, answer>>

\* request: no worker is left from an earlier failure; start one first, and
\* give up with Crashed when that fails.
EnsureWorker(c) ==
    /\ pc[c] = "ready"
    /\ worker = 0
    /\ \/ /\ spawn_ready_worker
          /\ UNCHANGED <<lock, pc, outcome>>
       \/ /\ spawn_fails
          /\ pc' = [pc EXCEPT ![c] = "done"]
          /\ outcome' = [outcome EXCEPT ![c] = "crashed"]
          /\ lock' = None
    /\ UNCHANGED <<token, noise, crashes, reloads, executed, answer>>

\* WorkerClient::request up to the flush.  A dead process refuses the write.
Send(c) ==
    /\ pc[c] = "ready"
    /\ worker # 0
    /\ next_id' = next_id + 1
    /\ \/ /\ c \notin Oversize
          /\ worker \in alive
          /\ stdin' = [id |-> next_id, call |-> c]
          /\ pc' = [pc EXCEPT ![c] = IF c \in Large THEN "writing" ELSE "waiting"]
          /\ UNCHANGED outcome
       \/ /\ c \in Oversize \/ worker \notin alive
          /\ pc' = [pc EXCEPT ![c] = "failed"]
          /\ outcome' = [outcome EXCEPT ![c] = "crashed"]
          /\ UNCHANGED stdin
    /\ UNCHANGED <<lock, worker, generation, busy, out, token, alive, budgets,
                   spawned, executed, answer>>

\* write_all of a request larger than the pipe returns once PHP has read it, or
\* fails once PHP is dead.  Neither deadline nor token is looked at here.
WriteAll(c) ==
    /\ pc[c] = "writing"
    /\ \/ /\ worker \in alive
          /\ stdin = None
          /\ pc' = [pc EXCEPT ![c] = "waiting"]
          /\ UNCHANGED outcome
       \/ /\ worker \notin alive
          /\ pc' = [pc EXCEPT ![c] = "failed"]
          /\ outcome' = [outcome EXCEPT ![c] = "crashed"]
    /\ UNCHANGED <<lock, worker, generation, process, token, alive, budgets,
                   spawned, executed, answer>>

Fail(c, o) ==
    /\ pc' = [pc EXCEPT ![c] = "failed"]
    /\ outcome' = [outcome EXCEPT ![c] = o]

\* The two checks at the head of the wait loop.
IsCancelled(c) ==
    /\ pc[c] = "waiting"
    /\ token[c]
    /\ Fail(c, "cancelled")
    /\ UNCHANGED <<lock, worker, generation, process, token, alive, budgets,
                   spawned, executed, answer>>

\* Mutant: only a request PHP has begun to handle has a deadline.
ExpiresWhenBusy(c) ==
    /\ pc[c] = "waiting"
    /\ busy # None
    /\ Fail(c, "timedout")
    /\ UNCHANGED <<lock, worker, generation, process, token, alive, budgets,
                   spawned, executed, answer>>

TimedOut(c) ==
    /\ pc[c] = "waiting"
    /\ Fail(c, "timedout")
    /\ UNCHANGED <<lock, worker, generation, process, token, alive, budgets,
                   spawned, executed, answer>>

\* Mutant: the identity of the response is not compared.
accepts_any(line, id) == line # Garbage

\* ResponseEnvelope::validate_for: the line parsed, and it answers this request.
validate_for(line, id) == line # Garbage /\ line.id = id

\* recv_timeout yields a line, or the end of file the reader reported.
Receive(c) ==
    /\ pc[c] = "waiting"
    /\ \/ /\ out # <<>>
          /\ out' = Tail(out)
          /\ \/ /\ validate_for(Head(out), next_id - 1)
                /\ pc' = [pc EXCEPT ![c] = "done"]
                /\ outcome' = [outcome EXCEPT ![c] = "ok"]
                /\ answer' = [answer EXCEPT ![c] = Head(out).call]
                /\ lock' = None
             \/ /\ ~validate_for(Head(out), next_id - 1)
                /\ Fail(c, "crashed")
                /\ UNCHANGED <<lock, answer>>
       \/ /\ out = <<>>
          /\ worker \notin alive
          /\ Fail(c, "crashed")
          /\ UNCHANGED <<lock, out, answer>>
    /\ UNCHANGED <<worker, generation, next_id, stdin, busy, token, alive,
                   budgets, spawned, executed>>

\* request, any error: self.worker.take() ...
take(c) ==
    /\ pc[c] = "failed"
    /\ take_worker
    /\ pc' = [pc EXCEPT ![c] = "restart"]
    /\ UNCHANGED <<lock, generation, token, outcome, budgets, spawned,
                   executed, answer>>

\* Mutant: the interrupted command is sent again to the fresh worker.
restart_and_retry(c) ==
    /\ pc[c] = "restart"
    /\ \/ /\ spawn_ready_worker
          /\ pc' = [pc EXCEPT ![c] = IF outcome[c] = "crashed" THEN "ready" ELSE "done"]
          /\ lock' = IF outcome[c] = "crashed" THEN lock ELSE None
       \/ /\ spawn_fails
          /\ pc' = [pc EXCEPT ![c] = "done"]
          /\ lock' = None
    /\ UNCHANGED <<token, outcome, noise, crashes, reloads, executed, answer>>

\* ... and let _ = self.restart(): a fresh worker for the next request, or none.
\* The error is returned either way; the command is not sent again.
restart(c) ==
    /\ pc[c] = "restart"
    /\ spawn_ready_worker \/ spawn_fails
    /\ pc' = [pc EXCEPT ![c] = "done"]
    /\ lock' = None
    /\ UNCHANGED <<token, outcome, noise, crashes, reloads, executed, answer>>

-----------------------------------------------------------------------------
(* GatewayState::reload: supervisor.lock()?.restart().                     *)

ReloadTake ==
    /\ lock = None
    /\ reloads < MaxReloads
    /\ reloads' = reloads + 1
    /\ lock' = Reloader
    /\ take_worker
    /\ UNCHANGED <<generation, pc, token, outcome, noise, crashes, failures,
                   spawned, executed, answer>>

ReloadRestart ==
    /\ lock = Reloader
    /\ spawn_ready_worker \/ spawn_fails
    /\ lock' = None
    /\ UNCHANGED <<pc, token, outcome, noise, crashes, reloads, executed,
                   answer>>

-----------------------------------------------------------------------------
(* The PHP process.                                                        *)

phpOnly == <<lock, worker, generation, next_id, pc, token, outcome, failures,
             reloads, spawned, answer>>

PhpRead ==
    /\ worker \in alive
    /\ stdin # None
    /\ busy = None
    /\ busy' = stdin
    /\ stdin' = None
    /\ executed' = [executed EXCEPT ![stdin.call] = @ + 1]
    /\ UNCHANGED <<phpOnly, out, alive, noise, crashes>>

\* The answer, and possibly the same answer once more.
PhpReply ==
    /\ worker \in alive
    /\ busy # None
    /\ busy' = None
    /\ \/ /\ out' = Append(out, busy)
          /\ UNCHANGED noise
       \/ /\ noise < MaxNoise
          /\ noise' = noise + 1
          /\ out' = out \o <<busy, busy>>
    /\ UNCHANGED <<phpOnly, stdin, alive, crashes, executed>>

\* A line that is not a response envelope, while handling or between requests.
PhpNoise ==
    /\ worker \in alive
    /\ noise < MaxNoise
    /\ noise' = noise + 1
    /\ out' = Append(out, Garbage)
    /\ UNCHANGED <<phpOnly, stdin, busy, alive, crashes, executed>>

PhpDies ==
    /\ worker \in alive
    /\ crashes < MaxCrashes
    /\ crashes' = crashes + 1
    /\ alive' = alive \ {worker}
    /\ stdin' = None
    /\ busy' = None
    /\ UNCHANGED <<phpOnly, out, noise, executed>>

-----------------------------------------------------------------------------
Advance(c) == \/ Acquire(c) \/ EnsureWorker(c) \/ Send(c) \/ WriteAll(c)
              \/ IsCancelled(c) \/ TimedOut(c) \/ Receive(c)
              \/ take(c) \/ restart(c)

Terminated == /\ \A c \in Calls : pc[c] = "done"
              /\ UNCHANGED vars

Next == \/ \E c \in Calls : Submit(c) \/ cancel(c) \/ Advance(c)
        \/ ReloadTake \/ ReloadRestart
        \/ PhpRead \/ PhpReply \/ PhpNoise \/ PhpDies
        \/ Terminated

\* A host thread that can go on does, and its deadline passes.  Nothing is
\* assumed of PHP, nor that a call is submitted.
Fairness == /\ \A c \in Calls : WF_vars(Advance(c))
            /\ WF_vars(ReloadRestart)

Spec == Init /\ [][Next]_vars /\ Fairness

-----------------------------------------------------------------------------
TypeOK ==
    /\ lock \in Calls \cup {None, Reloader}
    /\ spawned \in Nat /\ generation \in 1..spawned
    /\ worker \in 0..spawned
    /\ alive \subseteq 1..spawned
    /\ next_id \in Nat
    /\ stdin \in Requests \cup {None}
    /\ busy \in Requests \cup {None}
    /\ out \in Seq(Requests \cup {Garbage})
    /\ pc \in [Calls -> CallStates]
    /\ token \in [Calls -> BOOLEAN]
    /\ outcome \in [Calls -> Outcomes]
    /\ noise \in 0..MaxNoise /\ crashes \in 0..MaxCrashes
    /\ failures \in 0..MaxFailures /\ reloads \in 0..MaxReloads
    /\ executed \in [Calls -> Nat]
    /\ answer \in [Calls -> Calls \cup {None}]

\* "The interrupted command is never retried automatically": however a call
\* ends, its handler runs at most once, and not after it was reported failed.
ExecutedAtMostOnce ==
    /\ \A c \in Calls : executed[c] <= 1
    /\ \A c \in Calls : pc[c] = "done" =>
           /\ stdin # None => stdin.call # c
           /\ busy # None => busy.call # c

\* A call that succeeds carries the answer to itself, although ids start again
\* with every process and PHP may have printed more than it was asked for.
AnswersItsOwnCall ==
    \A c \in Calls : outcome[c] = "ok" => answer[c] = c /\ executed[c] = 1

\* A submitted call returns and so the mutex is always released, whatever PHP
\* does and whoever else is waiting, as long as no write_all stays blocked.
EveryCallReturns ==
    []<>(\A c \in Calls : pc[c] # "writing")
        => \A c \in Calls : pc[c] = "queued" ~> pc[c] = "done"
=============================================================================
