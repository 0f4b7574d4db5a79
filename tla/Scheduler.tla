----------------------------- MODULE Scheduler -----------------------------
(***************************************************************************)
(* Background jobs (scheduler.rs): one thread per job and schedule, the      *)
(* journal that makes persistent jobs durable, the stop flag, and the ways   *)
(* a schedule comes and goes: application start, hot reload                  *)
(* (GatewayState::replace_scheduler), quit (Drop) and the death of the host. *)
(*                                                                         *)
(* A schedule is a number, its threads are <<schedule, job>>.  Deadlines and *)
(* back-off times are left out: a wait ends at any moment, or at once when   *)
(* the journal said "running".  A journal entry is its state; next_run_at    *)
(* and attempts are not read back otherwise.  Every update rewrites the      *)
(* whole map of its own schedule; the temporary file, fsync and rename make  *)
(* it one step.                                                             *)
(***************************************************************************)
EXTENDS Integers, FiniteSets

CONSTANTS Jobs, Persistent, \* job.persistent
          Skips,            \* jobs with JobOverlapPolicy::Skip
          MaximumAttempts,  \* job -> job.maximum_attempts
          Nobody,           \* the holder of a free mutex
          MaxSchedules,     \* bound: schedules started
          MaxReloads,       \* bound: schedules that replace another one
          MaxMishaps        \* bound: deaths of the host, failed journal writes

ASSUME SchedulerAssumption ==
    /\ Persistent \subseteq Jobs /\ Skips \subseteq Jobs
    /\ MaximumAttempts \in [Jobs -> 1..10]
    /\ MaxSchedules \in Nat \ {0} /\ MaxReloads \in Nat /\ MaxMishaps \in Nat

Schedules == 1..MaxSchedules
Threads == Schedules \X Jobs

VARIABLES disk,     \* persistent job -> its entry in jobs.json
          mem,      \* schedule -> JobJournal.states, its copy of the file
          life,     \* schedule -> unborn, active, stopping, gone
          host,     \* the host process: up, quitting, down
          pc,       \* thread -> where it is
          attempt,  \* thread -> the attempt it is at
          lock,     \* who holds the supervisor mutex
          reloads, mishaps,
          \* observation only
          ended,    \* thread -> how its attempt sequence ended, from "finish" on
          owed,     \* persistent job -> the host died while PHP was at it
          overlapped \* two schedules have been alive in one host

vars == <<disk, mem, life, host, pc, attempt, lock, reloads, mishaps,
          ended, owed, overlapped>>

Entries == {"none", "pending", "running"}
ThreadStates == {"none", "delay", "start", "run", "locking", "request",
                 "backoff", "finish", "ended"}
Ends == {"no", "done", "exhausted", "skipped", "cancelled"}

alive(s) == life[s] \in {"active", "stopping"}
stop(s) == life[s] = "stopping"   \* *self.stop = true and every token cancelled

Init == /\ disk = [j \in Persistent |-> "none"]
        /\ mem = [s \in Schedules |-> [j \in Persistent |-> "none"]]
        /\ life = [s \in Schedules |-> "unborn"]
        /\ host = "down"
        /\ pc = [t \in Threads |-> "none"]
        /\ attempt = [t \in Threads |-> 0]
        /\ lock = Nobody
        /\ reloads = 0
        /\ mishaps = 0
        /\ ended = [t \in Threads |-> "no"]
        /\ owed = [j \in Persistent |-> FALSE]
        /\ overlapped = FALSE

-----------------------------------------------------------------------------
(* The life of a schedule.                                                  *)

\* Mutant: an unfinished run waits for its interval like any other.
delay_ignoring_state(s, j) == "delay"

\* JobJournal::initial_delay: an entry left running means Duration::ZERO.
initial_delay(s, j) ==
    IF j \in Persistent /\ disk[j] = "running" THEN "start" ELSE "delay"

\* start_with_dispatcher: the journal is opened and every thread spawned.
start(s) ==
    /\ life[s] = "unborn"
    /\ \A r \in Schedules : r < s => life[r] # "unborn"
    /\ mem' = [mem EXCEPT ![s] = disk]
    /\ pc' = [t \in Threads |-> IF t[1] = s THEN initial_delay(s, t[2]) ELSE pc[t]]
    /\ attempt' = [t \in Threads |-> IF t[1] = s THEN 1 ELSE attempt[t]]
    /\ UNCHANGED <<disk, lock, mishaps, ended, owed>>

Boot(s) == /\ host = "down"
           /\ host' = "up"
           /\ start(s)
           /\ life' = [life EXCEPT ![s] = "active"]
           /\ UNCHANGED <<reloads, overlapped>>

\* replace_scheduler: the new schedule is started while the old one runs ...
replace_scheduler(s) ==
    /\ host = "up"
    /\ Cardinality({r \in Schedules : alive(r)}) <= 1
    /\ reloads < MaxReloads
    /\ reloads' = reloads + 1
    /\ start(s)
    /\ life' = [life EXCEPT ![s] = "active"]
    /\ overlapped' = TRUE
    /\ UNCHANGED host

\* ... and the assignment drops the old one: its flag is set, its tokens are
\* cancelled, then its threads are joined.
DropReplaced(r) ==
    /\ host = "up"
    /\ life[r] = "active"
    /\ \E s \in Schedules : s > r /\ life[s] = "active"
    /\ life' = [life EXCEPT ![r] = "stopping"]
    /\ UNCHANGED <<disk, mem, host, pc, attempt, lock, reloads, mishaps, ended, owed,
                   overlapped>>

\* Drop for Gateway, or the end of the background agent.
Quit(s) ==
    /\ host = "up"
    /\ life[s] = "active"
    /\ \A r \in Schedules \ {s} : ~alive(r)
    /\ life' = [life EXCEPT ![s] = "stopping"]
    /\ host' = "quitting"
    /\ UNCHANGED <<disk, mem, pc, attempt, lock, reloads, mishaps, ended, owed,
                   overlapped>>

\* What schedules that are gone had in memory.
Forget(S) ==
    /\ mem' = [s \in Schedules |-> IF s \in S THEN [j \in Persistent |-> "none"]
                                   ELSE mem[s]]
    /\ attempt' = [t \in Threads |-> IF t[1] \in S THEN 0 ELSE attempt[t]]
    /\ ended' = [t \in Threads |-> IF t[1] \in S THEN "no" ELSE ended[t]]

\* Drop returns once every thread is joined; with it the host ends.
Joined(s) ==
    /\ stop(s)
    /\ \A j \in Jobs : pc[s, j] = "ended"
    /\ life' = [life EXCEPT ![s] = "gone"]
    /\ Forget({s})
    /\ host' = IF host = "quitting" THEN "down" ELSE host
    /\ overlapped' = (overlapped /\ host # "quitting")
    /\ UNCHANGED <<disk, pc, lock, reloads, mishaps, owed>>

\* The host is killed: threads and memory are gone, the journal is not.
Crash ==
    /\ host # "down"
    /\ mishaps < MaxMishaps
    /\ mishaps' = mishaps + 1
    /\ host' = "down"
    /\ life' = [s \in Schedules |-> IF alive(s) THEN "gone" ELSE life[s]]
    /\ pc' = [t \in Threads |-> IF alive(t[1]) THEN "ended" ELSE pc[t]]
    /\ lock' = Nobody
    /\ owed' = [j \in Persistent |->
                   owed[j] \/ \E s \in Schedules : alive(s) /\ pc[s, j] = "request"]
    /\ overlapped' = FALSE
    /\ Forget({s \in Schedules : alive(s)})
    /\ UNCHANGED <<disk, reloads>>

-----------------------------------------------------------------------------
(* The thread of one job.                                                  *)

At(t, p) == alive(t[1]) /\ pc[t] = p
Goto(t, p) == pc' = [pc EXCEPT ![t] = p]
schedule == <<life, host, reloads, overlapped>>
others == <<life, host, reloads, overlapped, owed>>

\* wait_or_stop returns false: time has passed and the stop flag is not set.
Elapse(t) ==
    /\ pc[t] \in {"delay", "backoff"}
    /\ life[t[1]] = "active"
    /\ Goto(t, "start")
    /\ attempt' = [attempt EXCEPT ![t] = IF pc[t] = "backoff" THEN @ + 1 ELSE 1]
    /\ UNCHANGED <<others, disk, mem, lock, mishaps, ended>>

\* Mutant: a back-off is slept through.
StopDelayOnly(t) ==
    /\ pc[t] = "delay"
    /\ stop(t[1])
    /\ Goto(t, "ended")
    /\ UNCHANGED <<others, disk, mem, attempt, lock, mishaps, ended>>

\* wait_or_stop returns true, before or during the wait: the thread returns.
StopWaiting(t) ==
    /\ pc[t] \in {"delay", "backoff"}
    /\ stop(t[1])
    /\ Goto(t, "ended")
    /\ attempt' = [attempt EXCEPT ![t] = 0]
    /\ UNCHANGED <<others, disk, mem, lock, mishaps, ended>>

\* JobJournal::update: this schedule's copy of the map replaces the file.  An
\* error leaves the file, keeps the entry in memory and ends the thread.
update(t, entry, p) ==
    LET s == t[1]
        j == t[2]
    IN IF j \notin Persistent
       THEN Goto(t, p) /\ UNCHANGED <<disk, mem, mishaps>>
       ELSE /\ mem' = [mem EXCEPT ![s][j] = entry]
            /\ \/ /\ disk' = mem'[s]
                  /\ Goto(t, p)
                  /\ UNCHANGED mishaps
               \/ /\ mishaps < MaxMishaps
                  /\ mishaps' = mishaps + 1
                  /\ Goto(t, "ended")
                  /\ UNCHANGED disk

\* Mutant: only the first attempt of a sequence is journaled after a pause.
started_unjournaled(t) ==
    /\ At(t, "start")
    /\ \/ attempt[t] = 1 /\ Goto(t, "run") /\ UNCHANGED <<disk, mem, mishaps>>
       \/ attempt[t] # 1 /\ update(t, "running", "run")
    /\ UNCHANGED <<others, attempt, lock, ended>>

started(t) ==
    /\ At(t, "start")
    /\ update(t, "running", "run")
    /\ UNCHANGED <<others, attempt, lock, ended>>

\* After an attempt that returned false.
AfterFailure(t) == IF attempt[t] < MaximumAttempts[t[2]] THEN "backoff" ELSE "finish"

\* How the sequence ends, once it does.
FailedAs(t, e) ==
    ended' = [ended EXCEPT ![t] = IF AfterFailure(t) = "finish" THEN e ELSE "no"]

\* run_job gets the mutex and looks at the stop flag once more, before
\* pam.job.started is published and PHP receives the job.
Enter(t) ==
    \/ /\ ~stop(t[1])
       /\ lock' = t
       /\ Goto(t, "request")
       /\ owed' = [j \in Persistent |-> owed[j] /\ j # t[2]]
       /\ UNCHANGED ended
    \/ /\ stop(t[1])
       /\ FailedAs(t, "cancelled")
       /\ Goto(t, AfterFailure(t))
       /\ UNCHANGED <<lock, owed>>

\* run_job up to the mutex: a Wait job blocks in lock(), a Skip job tries it,
\* and a busy worker ends its sequence as if it had succeeded.
run_job(t) ==
    /\ At(t, "run")
    /\ ~stop(t[1])
    /\ \/ /\ t[2] \notin Skips
          /\ Goto(t, "locking")
          /\ UNCHANGED <<lock, ended, owed>>
       \/ /\ t[2] \in Skips
          /\ lock = Nobody
          /\ Enter(t)
       \/ /\ t[2] \in Skips
          /\ lock # Nobody
          /\ ended' = [ended EXCEPT ![t] = "skipped"]
          /\ Goto(t, "finish")
          /\ UNCHANGED <<lock, owed>>
    /\ UNCHANGED <<schedule, disk, mem, attempt, mishaps>>

TakeLock(t) ==
    /\ At(t, "locking")
    /\ lock = Nobody
    /\ Enter(t)
    /\ UNCHANGED <<schedule, disk, mem, attempt, mishaps>>

\* The first look at the stop flag: the job does not run, the attempt failed.
RunStopped(t) ==
    /\ At(t, "run")
    /\ stop(t[1])
    /\ FailedAs(t, "cancelled")
    /\ Goto(t, AfterFailure(t))
    /\ UNCHANGED <<others, disk, mem, attempt, lock, mishaps>>

\* supervisor.request returns; a stop may also cancel it.
Complete(t) ==
    /\ At(t, "request")
    /\ lock' = Nobody
    /\ ended' = [ended EXCEPT ![t] = "done"]
    /\ Goto(t, "finish")
    /\ UNCHANGED <<others, disk, mem, attempt, mishaps>>

\* Mutant: the journal is closed after every failed attempt.
FinishEachAttempt(t) ==
    /\ At(t, "request")
    /\ lock' = Nobody
    /\ FailedAs(t, IF stop(t[1]) THEN "cancelled" ELSE "exhausted")
    /\ update(t, "pending", AfterFailure(t))
    /\ UNCHANGED <<others, attempt>>

JobFails(t) ==
    /\ At(t, "request")
    /\ lock' = Nobody
    /\ FailedAs(t, IF stop(t[1]) THEN "cancelled" ELSE "exhausted")
    /\ Goto(t, AfterFailure(t))
    /\ UNCHANGED <<others, disk, mem, attempt, mishaps>>

finished(t) ==
    /\ At(t, "finish")
    /\ update(t, "pending", "delay")
    /\ attempt' = [attempt EXCEPT ![t] = IF pc'[t] = "delay" THEN 1 ELSE @]
    /\ ended' = [ended EXCEPT ![t] = IF pc'[t] = "delay" THEN "no" ELSE @]
    /\ UNCHANGED <<others, lock>>

-----------------------------------------------------------------------------
\* What a thread does whether or not a wait is over.
Step(t) == \/ StopWaiting(t) \/ started(t) \/ run_job(t) \/ RunStopped(t)
           \/ Complete(t) \/ JobFails(t) \/ finished(t)

Next == \/ \E s \in Schedules : \/ Boot(s) \/ replace_scheduler(s) \/ DropReplaced(s)
                                \/ Quit(s) \/ Joined(s)
        \/ Crash
        \/ \E t \in Threads : Elapse(t) \/ TakeLock(t) \/ Step(t)

\* Threads run on and requests return; nothing is assumed of timers.  A thread
\* that waits for the mutex gets it: between two runs of one job the mutex is
\* free for an interval of at least one second.
Fairness == /\ \A t \in Threads : WF_vars(Step(t))
            /\ \A t \in Schedules \X (Jobs \ Skips) : SF_vars(TakeLock(t))
            /\ \A s \in Schedules : WF_vars(Joined(s))

Spec == Init /\ [][Next]_vars /\ Fairness

-----------------------------------------------------------------------------
TypeOK ==
    /\ disk \in [Persistent -> Entries]
    /\ mem \in [Schedules -> [Persistent -> Entries]]
    /\ life \in [Schedules -> {"unborn", "active", "stopping", "gone"}]
    /\ host \in {"up", "quitting", "down"}
    /\ pc \in [Threads -> ThreadStates]
    /\ attempt \in [Threads -> 0..10]
    /\ \A t \in Threads : attempt[t] <= MaximumAttempts[t[2]]
    /\ lock \in Threads \cup {Nobody}
    /\ reloads \in 0..MaxReloads
    /\ mishaps \in 0..MaxMishaps
    /\ ended \in [Threads -> Ends]
    /\ owed \in [Persistent -> BOOLEAN]
    /\ overlapped \in BOOLEAN

\* "The journal records an execution as running before PHP receives it": while
\* PHP handles a persistent job and until its outcome is recorded, the file says
\* so, whatever other jobs record meanwhile, unless a reload made two schedules
\* share the file.
RunningIsJournaled ==
    ~overlapped =>
        \A t \in Threads : /\ alive(t[1]) /\ t[2] \in Persistent
                           /\ pc[t] \in {"locking", "request", "backoff"}
                           => disk[t[2]] = "running"

\* An execution that was begun is closed in the journal only by a thread whose
\* attempt sequence ended: the job was done, all attempts failed, it was skipped
\* because the worker was busy, or the schedule was being stopped.
ClosedOnlyAfterSequence ==
    [][~overlapped =>
        \A j \in Persistent : disk[j] = "running" /\ disk'[j] = "pending" =>
            \E s \in Schedules :
                /\ pc[s, j] \in {"finish", "ended"}
                /\ ended[s, j] \in {"done", "skipped", "cancelled"} \/
                   (ended[s, j] = "exhausted" /\ attempt[s, j] = MaximumAttempts[j])]_vars

\* "If the host dies while the state is running, the next application start
\* detects the unfinished state and executes it immediately": no timer has to
\* fire before PHP gets the job again, unless the schedule is stopped first.
UnfinishedRunIsResumed ==
    \A s \in Schedules, j \in Persistent \ Skips :
        (owed[j] /\ life[s] = "active" /\ ~overlapped)
            ~> (~owed[j] \/ life[s] # "active" \/ pc[s, j] = "ended")

\* Stopping a schedule ends: every wait is interruptible, a running request is
\* cancelled, and no thread is left waiting for another one.
StopEnds == \A s \in Schedules : stop(s) ~> life[s] = "gone"

=============================================================================
