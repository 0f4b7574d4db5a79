--------------------------- MODULE SchedulerProofs ---------------------------
(***************************************************************************)
(* What the journal of the background jobs promises, for any jobs, number   *)
(* of schedules, deaths of the host, failed writes and reloads: PHP is at a *)
(* persistent job only while the file says so, and a run is closed in the   *)
(* file only after its attempts have ended.                                 *)
(***************************************************************************)
EXTENDS Scheduler, TLAPS

\* The part of the state the argument is about.
Shapes ==
    /\ disk \in [Persistent -> Entries]
    /\ mem \in [Schedules -> [Persistent -> Entries]]
    /\ life \in [Schedules -> {"unborn", "active", "stopping", "gone"}]
    /\ host \in {"up", "quitting", "down"}
    /\ pc \in [Threads -> ThreadStates]
    /\ attempt \in [Threads -> Nat]
    /\ ended \in [Threads -> Ends]
    /\ overlapped \in BOOLEAN

\* Without a reload, and in a host that ends, one schedule is alive at most, and
\* none is without a host.
Alone ==
    /\ host = "down" => \A s \in Schedules : ~alive(s)
    /\ ~overlapped \/ host = "quitting" =>
          \A r, s \in Schedules : alive(r) /\ alive(s) => r = s

\* How a sequence of attempts may end.
Over(t) ==
    \/ ended[t] \in {"done", "skipped", "cancelled"}
    \/ ended[t] = "exhausted" /\ attempt[t] = MaximumAttempts[t[2]]

\* A thread counts its attempts, and finishes what is over.
Sequence ==
    \A t \in Threads : alive(t[1]) =>
        /\ attempt[t] <= MaximumAttempts[t[2]]
        /\ pc[t] = "backoff" => attempt[t] < MaximumAttempts[t[2]]
        /\ pc[t] = "finish" => Over(t)

AtWork == {"run", "locking", "request", "backoff", "finish"}

\* A run is in the file and in the copy every other update writes; the copy is
\* ahead of the file only where a thread could not write that its run is over.
Journal ==
    ~overlapped =>
        \A t \in Threads : alive(t[1]) /\ t[2] \in Persistent =>
            /\ pc[t] \in AtWork => disk[t[2]] = "running" /\ mem[t[1]][t[2]] = "running"
            /\ mem[t[1]][t[2]] = "pending" /\ disk[t[2]] = "running" =>
                  pc[t] = "ended" /\ Over(t)

IInv == Shapes /\ Alone /\ Sequence /\ Journal

-----------------------------------------------------------------------------
\* A thread is its schedule and its job.
LEMMA ThreadPairs ==
    /\ \A t \in Threads : t[1] \in Schedules /\ t[2] \in Jobs
    /\ \A t, u \in Threads : t[1] = u[1] /\ t[2] = u[2] => t = u
    /\ \A t \in Threads : MaximumAttempts[t[2]] \in 1..10
    /\ Persistent \subseteq Jobs
BY SchedulerAssumption DEF Threads

\* An entry of a schedule's copy.
LEMMA CopyType ==
    ASSUME NEW s \in Schedules, NEW j \in Persistent, NEW e \in Entries,
           NEW m \in [Schedules -> [Persistent -> Entries]]
    PROVE  [m EXCEPT ![s][j] = e] \in [Schedules -> [Persistent -> Entries]]
<1>1. [m[s] EXCEPT ![j] = e] \in [Persistent -> Entries]
  OBVIOUS
<1>. QED
  BY <1>1

\* A step of one thread that writes no journal: it goes on only where it has the
\* attempts, and from work that was recorded.
Moves(t) ==
    /\ UNCHANGED <<life, host, overlapped, disk, mem>>
    /\ \A u \in Threads : u # t => pc'[u] = pc[u] /\ attempt'[u] = attempt[u] /\ ended'[u] = ended[u]
    /\ alive(t[1]) =>
          /\ attempt'[t] <= MaximumAttempts[t[2]]
          /\ pc'[t] = "backoff" => attempt'[t] < MaximumAttempts[t[2]]
          /\ pc'[t] = "finish" => Over(t)'
          /\ pc'[t] \in AtWork => pc[t] \in AtWork
          /\ pc[t] # "ended"

\* It disturbs nothing that is said of the others.
LEMMA MovesKeep ==
    ASSUME IInv, NEW t \in Threads, Moves(t)
    PROVE  Alone' /\ Sequence' /\ Journal'
<1>. USE DEF IInv, Moves
<1>3. Alone'
  BY DEF Alone, alive
<1>1. Sequence'
  BY DEF Sequence, Over, alive
<1>2. Journal'
  BY DEF Journal, Over, alive
<1>. QED
  BY <1>1, <1>2, <1>3

\* A wait that ends begins an attempt that is left.
LEMMA ElapseKeeps == ASSUME IInv, NEW t \in Threads, Elapse(t) PROVE IInv'
<1>1. Shapes'
  BY ThreadPairs DEF IInv, Elapse, Goto, schedule, others, Shapes, ThreadStates, Ends
<1>2. UNCHANGED <<life, host, overlapped, disk, mem>>
  BY DEF Elapse, Goto, schedule, others
<1>3. \A u \in Threads : u # t => pc'[u] = pc[u] /\ attempt'[u] = attempt[u] /\ ended'[u] = ended[u]
  BY DEF IInv, Elapse, Goto, schedule, others, Shapes
<1>4. alive(t[1]) =>
        /\ attempt'[t] <= MaximumAttempts[t[2]]
        /\ pc'[t] = "backoff" => attempt'[t] < MaximumAttempts[t[2]]
        /\ pc'[t] = "finish" => Over(t)'
  BY ThreadPairs DEF IInv, Elapse, Goto, schedule, others, Shapes, Sequence, Over, alive
<1>5. alive(t[1]) => (pc'[t] \in AtWork => pc[t] \in AtWork) /\ pc[t] # "ended"
  BY DEF IInv, Elapse, Goto, schedule, others, Shapes, AtWork
<1>6. Moves(t)
  BY <1>2, <1>3, <1>4, <1>5 DEF Moves
<1>. QED
  BY <1>1, <1>6, MovesKeep DEF IInv

\* A stopped thread ends between two runs.
LEMMA StopWaitingKeeps == ASSUME IInv, NEW t \in Threads, StopWaiting(t) PROVE IInv'
<1>1. Shapes'
  BY ThreadPairs DEF IInv, StopWaiting, Goto, stop, others, Shapes, ThreadStates, Ends
<1>2. UNCHANGED <<life, host, overlapped, disk, mem>>
  BY DEF StopWaiting, Goto, stop, others
<1>3. \A u \in Threads : u # t => pc'[u] = pc[u] /\ attempt'[u] = attempt[u] /\ ended'[u] = ended[u]
  BY DEF IInv, StopWaiting, Goto, stop, others, Shapes
<1>4. alive(t[1]) =>
        /\ attempt'[t] <= MaximumAttempts[t[2]]
        /\ pc'[t] = "backoff" => attempt'[t] < MaximumAttempts[t[2]]
        /\ pc'[t] = "finish" => Over(t)'
  BY ThreadPairs DEF IInv, StopWaiting, Goto, stop, others, Shapes, Sequence, Over, alive
<1>5. alive(t[1]) => (pc'[t] \in AtWork => pc[t] \in AtWork) /\ pc[t] # "ended"
  BY DEF IInv, StopWaiting, Goto, stop, others, Shapes, AtWork
<1>6. Moves(t)
  BY <1>2, <1>3, <1>4, <1>5 DEF Moves
<1>. QED
  BY <1>1, <1>6, MovesKeep DEF IInv

\* A run that does not take place is over, or is tried again.
LEMMA run_jobKeeps == ASSUME IInv, NEW t \in Threads, run_job(t) PROVE IInv'
<1>1. Shapes'
  BY ThreadPairs DEF IInv, run_job, At, Goto, Enter, FailedAs, AfterFailure, schedule, stop, Shapes, ThreadStates, Ends
<1>2. UNCHANGED <<life, host, overlapped, disk, mem>>
  BY DEF run_job, At, Goto, Enter, FailedAs, AfterFailure, schedule, stop
<1>3. \A u \in Threads : u # t => pc'[u] = pc[u] /\ attempt'[u] = attempt[u] /\ ended'[u] = ended[u]
  BY DEF IInv, run_job, At, Goto, Enter, FailedAs, AfterFailure, schedule, stop, Shapes
<1>4. alive(t[1]) =>
        /\ attempt'[t] <= MaximumAttempts[t[2]]
        /\ pc'[t] = "backoff" => attempt'[t] < MaximumAttempts[t[2]]
        /\ pc'[t] = "finish" => Over(t)'
  BY ThreadPairs DEF IInv, run_job, At, Goto, Enter, FailedAs, AfterFailure, schedule, stop, Shapes, Sequence, Over, alive
<1>5. alive(t[1]) => (pc'[t] \in AtWork => pc[t] \in AtWork) /\ pc[t] # "ended"
  BY DEF IInv, run_job, At, Goto, Enter, FailedAs, AfterFailure, schedule, stop, Shapes, AtWork
<1>6. Moves(t)
  BY <1>2, <1>3, <1>4, <1>5 DEF Moves
<1>. QED
  BY <1>1, <1>6, MovesKeep DEF IInv

\* Neither does a stopped one.
LEMMA RunStoppedKeeps == ASSUME IInv, NEW t \in Threads, RunStopped(t) PROVE IInv'
<1>1. Shapes'
  BY ThreadPairs DEF IInv, RunStopped, At, Goto, FailedAs, AfterFailure, others, stop, Shapes, ThreadStates, Ends
<1>2. UNCHANGED <<life, host, overlapped, disk, mem>>
  BY DEF RunStopped, At, Goto, FailedAs, AfterFailure, others, stop
<1>3. \A u \in Threads : u # t => pc'[u] = pc[u] /\ attempt'[u] = attempt[u] /\ ended'[u] = ended[u]
  BY DEF IInv, RunStopped, At, Goto, FailedAs, AfterFailure, others, stop, Shapes
<1>4. alive(t[1]) =>
        /\ attempt'[t] <= MaximumAttempts[t[2]]
        /\ pc'[t] = "backoff" => attempt'[t] < MaximumAttempts[t[2]]
        /\ pc'[t] = "finish" => Over(t)'
  BY ThreadPairs DEF IInv, RunStopped, At, Goto, FailedAs, AfterFailure, others, stop, Shapes, Sequence, Over, alive
<1>5. alive(t[1]) => (pc'[t] \in AtWork => pc[t] \in AtWork) /\ pc[t] # "ended"
  BY DEF IInv, RunStopped, At, Goto, FailedAs, AfterFailure, others, stop, Shapes, AtWork
<1>6. Moves(t)
  BY <1>2, <1>3, <1>4, <1>5 DEF Moves
<1>. QED
  BY <1>1, <1>6, MovesKeep DEF IInv

\* The mutex changes nothing that was recorded.
LEMMA TakeLockKeeps == ASSUME IInv, NEW t \in Threads, TakeLock(t) PROVE IInv'
<1>1. Shapes'
  BY ThreadPairs DEF IInv, TakeLock, At, Goto, Enter, FailedAs, AfterFailure, schedule, stop, Shapes, ThreadStates, Ends
<1>2. UNCHANGED <<life, host, overlapped, disk, mem>>
  BY DEF TakeLock, At, Goto, Enter, FailedAs, AfterFailure, schedule, stop
<1>3. \A u \in Threads : u # t => pc'[u] = pc[u] /\ attempt'[u] = attempt[u] /\ ended'[u] = ended[u]
  BY DEF IInv, TakeLock, At, Goto, Enter, FailedAs, AfterFailure, schedule, stop, Shapes
<1>4. alive(t[1]) =>
        /\ attempt'[t] <= MaximumAttempts[t[2]]
        /\ pc'[t] = "backoff" => attempt'[t] < MaximumAttempts[t[2]]
        /\ pc'[t] = "finish" => Over(t)'
  BY ThreadPairs DEF IInv, TakeLock, At, Goto, Enter, FailedAs, AfterFailure, schedule, stop, Shapes, Sequence, Over, alive
<1>5. alive(t[1]) => (pc'[t] \in AtWork => pc[t] \in AtWork) /\ pc[t] # "ended"
  BY DEF IInv, TakeLock, At, Goto, Enter, FailedAs, AfterFailure, schedule, stop, Shapes, AtWork
<1>6. Moves(t)
  BY <1>2, <1>3, <1>4, <1>5 DEF Moves
<1>. QED
  BY <1>1, <1>6, MovesKeep DEF IInv

\* A run that returned is over.
LEMMA CompleteKeeps == ASSUME IInv, NEW t \in Threads, Complete(t) PROVE IInv'
<1>1. Shapes'
  BY ThreadPairs DEF IInv, Complete, At, Goto, others, Shapes, ThreadStates, Ends
<1>2. UNCHANGED <<life, host, overlapped, disk, mem>>
  BY DEF Complete, At, Goto, others
<1>3. \A u \in Threads : u # t => pc'[u] = pc[u] /\ attempt'[u] = attempt[u] /\ ended'[u] = ended[u]
  BY DEF IInv, Complete, At, Goto, others, Shapes
<1>4. alive(t[1]) =>
        /\ attempt'[t] <= MaximumAttempts[t[2]]
        /\ pc'[t] = "backoff" => attempt'[t] < MaximumAttempts[t[2]]
        /\ pc'[t] = "finish" => Over(t)'
  BY ThreadPairs DEF IInv, Complete, At, Goto, others, Shapes, Sequence, Over, alive
<1>5. alive(t[1]) => (pc'[t] \in AtWork => pc[t] \in AtWork) /\ pc[t] # "ended"
  BY DEF IInv, Complete, At, Goto, others, Shapes, AtWork
<1>6. Moves(t)
  BY <1>2, <1>3, <1>4, <1>5 DEF Moves
<1>. QED
  BY <1>1, <1>6, MovesKeep DEF IInv

\* A run that failed is over after the last attempt.
LEMMA JobFailsKeeps == ASSUME IInv, NEW t \in Threads, JobFails(t) PROVE IInv'
<1>1. Shapes'
  BY ThreadPairs DEF IInv, JobFails, At, Goto, FailedAs, AfterFailure, others, stop, Shapes, ThreadStates, Ends
<1>2. UNCHANGED <<life, host, overlapped, disk, mem>>
  BY DEF JobFails, At, Goto, FailedAs, AfterFailure, others, stop
<1>3. \A u \in Threads : u # t => pc'[u] = pc[u] /\ attempt'[u] = attempt[u] /\ ended'[u] = ended[u]
  BY DEF IInv, JobFails, At, Goto, FailedAs, AfterFailure, others, stop, Shapes
<1>4. alive(t[1]) =>
        /\ attempt'[t] <= MaximumAttempts[t[2]]
        /\ pc'[t] = "backoff" => attempt'[t] < MaximumAttempts[t[2]]
        /\ pc'[t] = "finish" => Over(t)'
  <2>1. CASE attempt[t] < MaximumAttempts[t[2]]
    BY <2>1, ThreadPairs DEF IInv, JobFails, At, Goto, FailedAs, AfterFailure, others, Shapes,
                             Sequence
  <2>2. CASE ~(attempt[t] < MaximumAttempts[t[2]])
    <3>1. alive(t[1]) => attempt[t] = MaximumAttempts[t[2]]
      BY <2>2, ThreadPairs DEF IInv, Shapes, Sequence
    <3>2. /\ attempt'[t] = attempt[t] /\ pc'[t] = "finish"
          /\ ended'[t] \in {"cancelled", "exhausted"}
      BY <2>2, ThreadPairs DEF IInv, JobFails, At, Goto, FailedAs, AfterFailure, others, Shapes
    <3>. QED
      BY <3>1, <3>2, ThreadPairs DEF IInv, Shapes, Over
  <2>. QED
    BY <2>1, <2>2
<1>5. alive(t[1]) => (pc'[t] \in AtWork => pc[t] \in AtWork) /\ pc[t] # "ended"
  BY DEF IInv, JobFails, At, Goto, FailedAs, AfterFailure, others, stop, Shapes, AtWork
<1>6. Moves(t)
  BY <1>2, <1>3, <1>4, <1>5 DEF Moves
<1>. QED
  BY <1>1, <1>6, MovesKeep DEF IInv

\* The run is in the file before PHP receives it, and stays in the copy other
\* threads write.
LEMMA startedKeeps == ASSUME IInv, NEW t \in Threads, started(t) PROVE IInv'
<1>. USE ThreadPairs DEF IInv
<1>1. Shapes'
  <2>1. mem' \in [Schedules -> [Persistent -> Entries]]
    <3>1. "running" \in Entries
      BY DEF Entries
    <3>2. t[2] \in Persistent =>
            [mem EXCEPT ![t[1]][t[2]] = "running"] \in [Schedules -> [Persistent -> Entries]]
      BY <3>1, CopyType DEF Shapes
    <3>. QED
      BY <3>2 DEF started, update, Shapes
  <2>2. disk' \in [Persistent -> Entries]
    BY <2>1 DEF started, update, Shapes
  <2>3. pc' \in [Threads -> ThreadStates]
    BY DEF started, update, Goto, Shapes, ThreadStates
  <2>4. attempt' \in [Threads -> Nat] /\ ended' \in [Threads -> Ends]
    BY DEF started, Shapes, Ends
  <2>. QED
    BY <2>1, <2>2, <2>3, <2>4 DEF started, others, Shapes
<1>2. Alone'
  BY DEF started, At, others, update, Goto, Alone, alive
<1>3. \A u \in Threads : u # t => pc'[u] = pc[u] /\ attempt'[u] = attempt[u] /\ ended'[u] = ended[u]
  BY DEF started, At, others, update, Goto, Shapes
<1>4. Sequence'
  BY <1>3 DEF started, At, others, update, Goto, Shapes, Sequence, Over, alive
<1>5. Journal'
  <2>. SUFFICES ASSUME ~overlapped, NEW u \in Threads, alive(u[1]), u[2] \in Persistent
                PROVE  /\ pc'[u] \in AtWork => disk'[u[2]] = "running" /\ mem'[u[1]][u[2]] = "running"
                       /\ mem'[u[1]][u[2]] = "pending" /\ disk'[u[2]] = "running" =>
                             pc'[u] = "ended" /\ Over(u)'
    BY DEF started, At, others, update, Goto, Journal, alive
  <2>1. u[1] = t[1] /\ (u # t => u[2] # t[2])
    BY DEF started, At, Alone
  <2>2. /\ pc[u] \in AtWork => disk[u[2]] = "running" /\ mem[u[1]][u[2]] = "running"
        /\ mem[u[1]][u[2]] = "pending" /\ disk[u[2]] = "running" => pc[u] = "ended" /\ Over(u)
    BY DEF Journal
  <2>3. CASE u = t
    BY <2>2, <2>3 DEF started, At, others, update, Goto, Shapes, Sequence, Over, AtWork
  <2>4. CASE u # t
    <3>1. pc'[u] = pc[u] /\ (Over(u) => Over(u)')
      BY <1>3, <2>4 DEF Over
    <3>2. mem'[u[1]][u[2]] = mem[u[1]][u[2]]
      BY <2>1, <2>4 DEF started, At, others, update, Goto, Shapes
    <3>3. disk'[u[2]] = disk[u[2]] \/ disk'[u[2]] = mem'[u[1]][u[2]]
      BY <2>1 DEF started, At, others, update, Goto, Shapes
    <3>. QED
      BY <2>2, <3>1, <3>2, <3>3
  <2>. QED
    BY <2>3, <2>4
<1>. QED
  BY <1>1, <1>2, <1>4, <1>5

\* The run is closed, in the file or at least in the copy, by a thread whose
\* sequence is over.
LEMMA finishedKeeps == ASSUME IInv, NEW t \in Threads, finished(t) PROVE IInv'
<1>. USE ThreadPairs DEF IInv
<1>1. Shapes'
  <2>1. mem' \in [Schedules -> [Persistent -> Entries]]
    <3>1. "pending" \in Entries
      BY DEF Entries
    <3>2. t[2] \in Persistent =>
            [mem EXCEPT ![t[1]][t[2]] = "pending"] \in [Schedules -> [Persistent -> Entries]]
      BY <3>1, CopyType DEF Shapes
    <3>. QED
      BY <3>2 DEF finished, update, Shapes
  <2>2. disk' \in [Persistent -> Entries]
    BY <2>1 DEF finished, update, Shapes
  <2>3. pc' \in [Threads -> ThreadStates]
    BY DEF finished, update, Goto, Shapes, ThreadStates
  <2>4. attempt' \in [Threads -> Nat] /\ ended' \in [Threads -> Ends]
    BY DEF finished, Shapes, Ends
  <2>. QED
    BY <2>1, <2>2, <2>3, <2>4 DEF finished, others, Shapes
<1>2. Alone'
  BY DEF finished, At, others, update, Goto, Alone, alive
<1>3. \A u \in Threads : u # t => pc'[u] = pc[u] /\ attempt'[u] = attempt[u] /\ ended'[u] = ended[u]
  BY DEF finished, At, others, update, Goto, Shapes
<1>4. Sequence'
  <2>1. /\ pc'[t] \in {"delay", "ended"}
        /\ attempt'[t] \in {1, attempt[t]}
    BY DEF finished, update, Goto, Shapes
  <2>. QED
    BY <1>3, <2>1 DEF finished, At, others, Sequence, Over, alive
<1>5. Journal'
  <2>. SUFFICES ASSUME ~overlapped, NEW u \in Threads, alive(u[1]), u[2] \in Persistent
                PROVE  /\ pc'[u] \in AtWork => disk'[u[2]] = "running" /\ mem'[u[1]][u[2]] = "running"
                       /\ mem'[u[1]][u[2]] = "pending" /\ disk'[u[2]] = "running" =>
                             pc'[u] = "ended" /\ Over(u)'
    BY DEF finished, At, others, update, Goto, Journal, alive
  <2>1. u[1] = t[1] /\ (u # t => u[2] # t[2])
    BY DEF finished, At, Alone
  <2>2. /\ pc[u] \in AtWork => disk[u[2]] = "running" /\ mem[u[1]][u[2]] = "running"
        /\ mem[u[1]][u[2]] = "pending" /\ disk[u[2]] = "running" => pc[u] = "ended" /\ Over(u)
    BY DEF Journal
  <2>3. CASE u = t
    BY <2>2, <2>3 DEF finished, At, others, update, Goto, Shapes, Sequence, Over, AtWork
  <2>4. CASE u # t
    <3>1. pc'[u] = pc[u] /\ (Over(u) => Over(u)')
      BY <1>3, <2>4 DEF Over
    <3>2. mem'[u[1]][u[2]] = mem[u[1]][u[2]]
      BY <2>1, <2>4 DEF finished, At, others, update, Goto, Shapes
    <3>3. disk'[u[2]] = disk[u[2]] \/ disk'[u[2]] = mem'[u[1]][u[2]]
      BY <2>1 DEF finished, At, others, update, Goto, Shapes
    <3>. QED
      BY <2>2, <3>1, <3>2, <3>3
  <2>. QED
    BY <2>3, <2>4
<1>. QED
  BY <1>1, <1>2, <1>4, <1>5

\* A host that starts is alone, and its copy is the file.
LEMMA BootKeeps == ASSUME IInv, NEW s \in Schedules, Boot(s) PROVE IInv'
<1>. USE ThreadPairs DEF IInv, Boot, start, initial_delay
<1>1. Shapes'
  BY DEF Shapes, ThreadStates, Ends, Entries
<1>2. Alone'
  BY DEF Shapes, Alone, alive
<1>3. Sequence'
  <2>. SUFFICES ASSUME NEW t \in Threads, alive(t[1])' PROVE
                  /\ attempt'[t] <= MaximumAttempts[t[2]]
                  /\ pc'[t] = "backoff" => attempt'[t] < MaximumAttempts[t[2]]
                  /\ pc'[t] = "finish" => Over(t)'
    BY DEF Sequence
  <2>1. CASE t[1] = s
    <3>1. attempt'[t] = 1 /\ pc'[t] \in {"start", "delay"}
      BY <2>1 DEF Shapes
    <3>. QED
      BY <3>1
  <2>2. CASE t[1] # s
    <3>1. alive(t[1]) /\ pc'[t] = pc[t] /\ attempt'[t] = attempt[t] /\ ended' = ended
      BY <2>2 DEF Shapes, alive
    <3>. QED
      BY <3>1 DEF Sequence, Over
  <2>. QED
    BY <2>1, <2>2
<1>4. Journal'
  BY DEF Shapes, Journal, AtWork, Over, Alone, alive
<1>. QED
  BY <1>1, <1>2, <1>3, <1>4

\* A reload is where two schedules share the file.
LEMMA replace_schedulerKeeps == ASSUME IInv, NEW s \in Schedules, replace_scheduler(s) PROVE IInv'
<1>. USE ThreadPairs DEF IInv, replace_scheduler, start, initial_delay
<1>1. Shapes'
  BY DEF Shapes, ThreadStates, Ends, Entries
<1>2. Alone'
  BY DEF Shapes, Alone, alive
<1>3. Sequence'
  <2>. SUFFICES ASSUME NEW t \in Threads, alive(t[1])' PROVE
                  /\ attempt'[t] <= MaximumAttempts[t[2]]
                  /\ pc'[t] = "backoff" => attempt'[t] < MaximumAttempts[t[2]]
                  /\ pc'[t] = "finish" => Over(t)'
    BY DEF Sequence
  <2>1. CASE t[1] = s
    <3>1. attempt'[t] = 1 /\ pc'[t] \in {"start", "delay"}
      BY <2>1 DEF Shapes
    <3>. QED
      BY <3>1
  <2>2. CASE t[1] # s
    <3>1. alive(t[1]) /\ pc'[t] = pc[t] /\ attempt'[t] = attempt[t] /\ ended' = ended
      BY <2>2 DEF Shapes, alive
    <3>. QED
      BY <3>1 DEF Sequence, Over
  <2>. QED
    BY <2>1, <2>2
<1>4. Journal'
  BY DEF Shapes, Journal, AtWork, Over, Alone, alive
<1>. QED
  BY <1>1, <1>2, <1>3, <1>4

\* Stopping a schedule does not end it,
LEMMA DropReplacedKeeps == ASSUME IInv, NEW r \in Schedules, DropReplaced(r) PROVE IInv'
<1>. USE ThreadPairs DEF IInv, DropReplaced
<1>1. Shapes'
  BY DEF Shapes, ThreadStates, Ends, Entries
<1>2. Alone'
  BY DEF Shapes, Alone, alive
<1>3. Sequence'
  BY DEF Shapes, Sequence, Over, Alone, alive
<1>4. Journal'
  BY DEF Shapes, Journal, AtWork, Over, Alone, alive
<1>. QED
  BY <1>1, <1>2, <1>3, <1>4

\* nor does the end of the host, which waits for its threads.
LEMMA QuitKeeps == ASSUME IInv, NEW s \in Schedules, Quit(s) PROVE IInv'
<1>. USE ThreadPairs DEF IInv, Quit
<1>1. Shapes'
  BY DEF Shapes, ThreadStates, Ends, Entries
<1>2. Alone'
  BY DEF Shapes, Alone, alive
<1>3. Sequence'
  BY DEF Shapes, Sequence, Over, Alone, alive
<1>4. Journal'
  BY DEF Shapes, Journal, AtWork, Over, Alone, alive
<1>. QED
  BY <1>1, <1>2, <1>3, <1>4

\* A schedule that is gone says nothing any more.
LEMMA JoinedKeeps == ASSUME IInv, NEW s \in Schedules, Joined(s) PROVE IInv'
<1>. USE ThreadPairs DEF IInv, Joined, stop, Forget
<1>1. Shapes'
  BY DEF Shapes, ThreadStates, Ends, Entries
<1>2. Alone'
  BY DEF Shapes, Alone, alive
<1>3. Sequence'
  BY DEF Shapes, Sequence, Over, Alone, alive
<1>4. Journal'
  <2>1. ~overlapped' => \A r \in Schedules : ~alive(r)'
    BY DEF Shapes, Alone, alive
  <2>. QED
    BY <2>1 DEF Journal
<1>. QED
  BY <1>1, <1>2, <1>3, <1>4

\* Nothing is alive after a kill.
LEMMA CrashKeeps == ASSUME IInv, Crash PROVE IInv'
<1>. USE ThreadPairs DEF IInv, Crash, Forget
<1>1. Shapes'
  BY DEF Shapes, ThreadStates, Ends, Entries
<1>2. Alone'
  BY DEF Shapes, Alone, alive
<1>3. Sequence'
  BY DEF Shapes, Sequence, Over, Alone, alive
<1>4. Journal'
  BY DEF Shapes, Journal, AtWork, Over, Alone, alive
<1>. QED
  BY <1>1, <1>2, <1>3, <1>4

-----------------------------------------------------------------------------
\* At first no schedule is alive.
LEMMA InitialInvariant == Init => IInv
<1>. SUFFICES ASSUME Init PROVE IInv
  OBVIOUS
<1>1. Shapes
  BY DEF Init, Shapes, Entries, ThreadStates, Ends
<1>2. \A s \in Schedules : ~alive(s)
  BY DEF Init, alive
<1>. QED
  BY <1>1, <1>2, ThreadPairs DEF IInv, Alone, Sequence, Journal

\* No step breaks the invariant.
LEMMA InvariantKept == IInv /\ [Next]_vars => IInv'
<1>. SUFFICES ASSUME IInv, [Next]_vars PROVE IInv'
  OBVIOUS
<1>1. ASSUME NEW s \in Schedules,
             Boot(s) \/ replace_scheduler(s) \/ DropReplaced(s) \/ Quit(s) \/ Joined(s)
      PROVE  IInv'
  BY <1>1, BootKeeps, replace_schedulerKeeps, DropReplacedKeeps, QuitKeeps, JoinedKeeps
<1>2. ASSUME NEW t \in Threads, Elapse(t) \/ TakeLock(t) \/ Step(t)
      PROVE  IInv'
  BY <1>2, ElapseKeeps, TakeLockKeeps, StopWaitingKeeps, startedKeeps, run_jobKeeps,
     RunStoppedKeeps, CompleteKeeps, JobFailsKeeps, finishedKeeps DEF Step
<1>3. CASE UNCHANGED vars
  BY <1>3 DEF vars, IInv, Shapes, Alone, Sequence, Journal, Over, alive
<1>. QED
  BY <1>1, <1>2, <1>3, CrashKeeps DEF Next

\* The invariant holds in every state.
LEMMA Invariant == Spec => []IInv
<1>. QED
  BY InitialInvariant, InvariantKept, PTL DEF Spec

\* "The journal records an execution as running before PHP receives it", and
\* says so until its outcome is recorded, whatever is recorded of other jobs.
THEOREM JournaledBeforePhp == Spec => []RunningIsJournaled
<1>1. IInv => RunningIsJournaled
  BY DEF IInv, Journal, AtWork, RunningIsJournaled
<1>. QED
  BY <1>1, Invariant, PTL

\* What a step may do to the file: a run that was begun is closed only by the
\* thread that finishes it, or, when that thread could not write, by another one
\* that writes the copy.
LEMMA ClosedByItsThread ==
    ASSUME IInv, Next, ~overlapped, NEW j \in Persistent,
           disk[j] = "running", disk'[j] = "pending"
    PROVE  \E s \in Schedules : pc[s, j] \in {"finish", "ended"} /\ Over(<<s, j>>)
<1>1. PICK t \in Threads : started(t) \/ finished(t)
  <2>1. disk' # disk
    OBVIOUS
  <2>2. \A s \in Schedules :
          ~(Boot(s) \/ replace_scheduler(s) \/ DropReplaced(s) \/ Quit(s) \/ Joined(s))
    BY <2>1 DEF Boot, replace_scheduler, start, DropReplaced, Quit, Joined
  <2>3. \A t \in Threads :
          ~(\/ Elapse(t) \/ TakeLock(t) \/ StopWaiting(t) \/ run_job(t)
            \/ RunStopped(t) \/ Complete(t) \/ JobFails(t))
    BY <2>1 DEF Elapse, TakeLock, StopWaiting, run_job, RunStopped, Complete, JobFails
  <2>4. ~Crash
    BY <2>1 DEF Crash
  <2>. QED
    BY <2>2, <2>3, <2>4 DEF Next, Step
<1>. DEFINE s == t[1]
            u == <<s, j>>
<1>2. /\ alive(s) /\ s \in Schedules /\ u \in Threads /\ u[1] = s /\ u[2] = j
      /\ t[2] = j => t = u
  BY <1>1, ThreadPairs DEF started, finished, At, Threads
<1>3. t[2] \in Persistent /\ disk' = mem'[s]
  BY <1>1 DEF started, finished, update
<1>4. CASE t[2] = j
  <2>1. finished(t)
    BY <1>1, <1>3, <1>4, <1>2 DEF started, update, IInv, Shapes
  <2>2. pc[t] = "finish" /\ Over(t)
    BY <1>2, <2>1 DEF finished, At, IInv, Sequence
  <2>. QED
    BY <1>2, <1>4, <2>2
<1>5. CASE t[2] # j
  <2>1. mem[s][j] = "pending"
    BY <1>1, <1>2, <1>3, <1>5 DEF started, finished, update, IInv, Shapes
  <2>2. pc[u] = "ended" /\ Over(u)
    BY <1>2, <2>1 DEF IInv, Journal
  <2>. QED
    BY <1>2, <2>2
<1>. QED
  BY <1>4, <1>5

\* An execution that was begun is closed in the journal only after its attempts
\* ended, whoever writes the file.
THEOREM ClosedWhenOver == Spec => ClosedOnlyAfterSequence
<1>. DEFINE Closed(j) == \E s \in Schedules :
                /\ pc[s, j] \in {"finish", "ended"}
                /\ ended[s, j] \in {"done", "skipped", "cancelled"} \/
                   (ended[s, j] = "exhausted" /\ attempt[s, j] = MaximumAttempts[j])
            Allowed == ~overlapped =>
                \A j \in Persistent : disk[j] = "running" /\ disk'[j] = "pending" => Closed(j)
<1>1. IInv /\ [Next]_vars => [Allowed]_vars
  <2>. SUFFICES ASSUME IInv, Next, ~overlapped, NEW j \in Persistent,
                       disk[j] = "running", disk'[j] = "pending"
                PROVE  Closed(j)
    BY DEF vars
  <2>1. PICK s \in Schedules : pc[s, j] \in {"finish", "ended"} /\ Over(<<s, j>>)
    BY ClosedByItsThread
  <2>. QED
    BY <2>1 DEF Over
<1>. QED
  BY <1>1, Invariant, PTL DEF Spec, ClosedOnlyAfterSequence

==============================================================================
