----------------------- MODULE WorkerSupervisorProofs -----------------------
(***************************************************************************)
(* What a caller of the PHP worker can rely on, for any number of callers,  *)
(* stray lines, deaths, failed starts and reloads: its command runs at most *)
(* once, and the answer it gets is its own.                                 *)
(***************************************************************************)
EXTENDS WorkerSupervisor, TLAPS

\* The part of the state the argument is about.
Shapes ==
    /\ next_id \in Nat
    /\ stdin \in Requests \cup {None} /\ busy \in Requests \cup {None}
    /\ out \in Seq(Requests \cup {Garbage})
    /\ pc \in [Calls -> CallStates]
    /\ outcome \in [Calls -> Outcomes]
    /\ executed \in [Calls -> Nat]
    /\ answer \in [Calls -> Calls \cup {None}]

Inside == {"ready", "writing", "waiting", "failed", "restart"}
AtPhp == {"writing", "waiting", "failed"}

\* Whoever is inside request holds the mutex.
Exclusive == \A c \in Calls : pc[c] \in Inside => lock = c

\* A request on its way to PHP, at PHP, or answered: its id has been given out,
\* its handler has run accordingly, and its caller has not returned before it
\* was answered.
Pending == stdin # None => /\ stdin.id < next_id /\ executed[stdin.call] = 0
                           /\ pc[stdin.call] \in AtPhp
Handled == busy # None => /\ busy.id < next_id /\ executed[busy.call] = 1
                          /\ pc[busy.call] \in AtPhp
Printed == \A i \in 1..Len(out) : out[i] # Garbage =>
              /\ out[i].id < next_id /\ executed[out[i].call] = 1
              /\ busy # None => busy.call # out[i].call

\* The latest id belongs to the caller that waits.
Latest == \A c \in Calls : pc[c] \in {"writing", "waiting"} =>
              /\ stdin # None /\ stdin.id = next_id - 1 => stdin.call = c
              /\ busy # None /\ busy.id = next_id - 1 => busy.call = c
              /\ \A i \in 1..Len(out) :
                    out[i] # Garbage /\ out[i].id = next_id - 1 => out[i].call = c

\* A handler runs once, after its call was sent, and before its call succeeds.
Counted == \A c \in Calls :
              /\ executed[c] <= 1
              /\ pc[c] \in {"new", "queued", "ready"} => executed[c] = 0
              /\ outcome[c] = "ok" => pc[c] = "done" /\ answer[c] = c /\ executed[c] = 1

IInv == Shapes /\ Exclusive /\ Pending /\ Handled /\ Printed /\ Latest /\ Counted

-----------------------------------------------------------------------------
\* Stray lines are no requests.
LEMMA GarbageIsNoRequest == Garbage \notin Requests /\ None \notin Calls /\ Reloader \notin Calls
BY SupervisorAssumption DEF Garbage, Requests

\* The lines a step leaves in the queue.
LEMMA QueueShapes ==
    ASSUME NEW S, NEW s \in Seq(S), NEW x \in S
    PROVE  /\ Append(s, x) \in Seq(S)
           /\ s \o <<x, x>> \in Seq(S)
           /\ \A i \in 1..Len(Append(s, x)) :
                 Append(s, x)[i] = x \/ \E k \in 1..Len(s) : Append(s, x)[i] = s[k]
           /\ \A i \in 1..Len(s \o <<x, x>>) :
                 \/ (s \o <<x, x>>)[i] = x
                 \/ \E k \in 1..Len(s) : (s \o <<x, x>>)[i] = s[k]
<1>1. Append(s, x) \in Seq(S) /\ <<x, x>> \in Seq(S)
  OBVIOUS
<1>2. \A i \in 1..Len(Append(s, x)) :
         Append(s, x)[i] = x \/ \E k \in 1..Len(s) : Append(s, x)[i] = s[k]
  OBVIOUS
<1>3. ASSUME NEW i \in 1..Len(s \o <<x, x>>)
      PROVE  \/ (s \o <<x, x>>)[i] = x
             \/ \E k \in 1..Len(s) : (s \o <<x, x>>)[i] = s[k]
  <2>1. Len(s) \in Nat /\ Len(<<x, x>>) = 2 /\ Len(s \o <<x, x>>) = Len(s) + 2
    BY <1>1
  <2>2. CASE i \in 1..Len(s)
    BY <2>1, <2>2
  <2>3. CASE i = Len(s) + 1 \/ i = Len(s) + 2
    BY <2>1, <2>3
  <2>. QED
    BY <2>1, <2>2, <2>3
<1>. QED
  BY <1>1, <1>2, <1>3

\* A fresh or emptied queue, and one whose first line was received.
LEMMA QueueShrinks ==
    ASSUME NEW S, NEW s \in Seq(S)
    PROVE  <<>> \in Seq(S) /\ (s # <<>> => Tail(s) \in Seq(S))
OBVIOUS

\* A call is queued.
LEMMA SubmitKeeps ==
    ASSUME IInv, NEW c \in Calls, Submit(c)
    PROVE  IInv'
<1>1. Shapes'
  BY DEF IInv, Shapes, Submit, process, CallStates, Outcomes
<1>. USE GarbageIsNoRequest DEF IInv, Submit, process, Shapes, Requests
<1>2. Exclusive'
  BY DEF Exclusive, Inside
<1>3. Pending'
  BY DEF Pending, AtPhp, Exclusive, Counted, Inside
<1>4. Handled'
  BY DEF Handled, AtPhp, Exclusive, Pending, Counted, Inside, Printed
<1>5. Printed'
  BY DEF Printed, Handled, Counted, Pending
<1>6. Latest'
  BY DEF Latest, Exclusive, Inside, Pending, Handled, Printed
<1>7. Counted'
  BY DEF Counted, Pending, Printed, Latest, AtPhp, Handled
<1>. QED
  BY <1>1, <1>2, <1>3, <1>4, <1>5, <1>6, <1>7 DEF IInv

\* Cancelling changes no more than the token.
LEMMA cancelKeeps ==
    ASSUME IInv, NEW c \in Calls, cancel(c)
    PROVE  IInv'
<1>1. Shapes'
  BY DEF IInv, Shapes, cancel, process, CallStates, Outcomes
<1>. USE GarbageIsNoRequest DEF IInv, cancel, process, Shapes, Requests
<1>2. Exclusive'
  BY DEF Exclusive, Inside
<1>3. Pending'
  BY DEF Pending, AtPhp, Exclusive, Counted, Inside
<1>4. Handled'
  BY DEF Handled, AtPhp, Exclusive, Pending, Counted, Inside, Printed
<1>5. Printed'
  BY DEF Printed, Handled, Counted, Pending
<1>6. Latest'
  BY DEF Latest, Exclusive, Inside, Pending, Handled, Printed
<1>7. Counted'
  BY DEF Counted, Pending, Printed, Latest, AtPhp, Handled
<1>. QED
  BY <1>1, <1>2, <1>3, <1>4, <1>5, <1>6, <1>7 DEF IInv

\* The mutex was free, so nobody else is inside.
LEMMA AcquireKeeps ==
    ASSUME IInv, NEW c \in Calls, Acquire(c)
    PROVE  IInv'
<1>1. Shapes'
  BY DEF IInv, Shapes, Acquire, process, CallStates, Outcomes
<1>. USE GarbageIsNoRequest DEF IInv, Acquire, process, Shapes, Requests
<1>2. Exclusive'
  BY DEF Exclusive, Inside
<1>3. Pending'
  BY DEF Pending, AtPhp, Exclusive, Counted, Inside
<1>4. Handled'
  BY DEF Handled, AtPhp, Exclusive, Pending, Counted, Inside, Printed
<1>5. Printed'
  BY DEF Printed, Handled, Counted, Pending
<1>6. Latest'
  BY DEF Latest, Exclusive, Inside, Pending, Handled, Printed
<1>7. Counted'
  BY DEF Counted, Pending, Printed, Latest, AtPhp, Handled
<1>. QED
  BY <1>1, <1>2, <1>3, <1>4, <1>5, <1>6, <1>7 DEF IInv

\* A fresh process has nothing of the old one in its pipes.
LEMMA EnsureWorkerKeeps ==
    ASSUME IInv, NEW c \in Calls, EnsureWorker(c)
    PROVE  IInv'
<1>1. Shapes'
  <2>1. out' \in Seq(Requests \cup {Garbage})
    BY QueueShrinks DEF IInv, Shapes, EnsureWorker, spawn_ready_worker, spawn_fails, process
  <2>2. /\ next_id' \in Nat
        /\ stdin' \in Requests \cup {None} /\ busy' \in Requests \cup {None}
    BY DEF IInv, Shapes, EnsureWorker, spawn_ready_worker, spawn_fails, process
  <2>3. pc' \in [Calls -> CallStates] /\ outcome' \in [Calls -> Outcomes]
    BY DEF IInv, Shapes, EnsureWorker, spawn_ready_worker, spawn_fails,
       process, CallStates, Outcomes
  <2>. QED
    BY <2>1, <2>2, <2>3 DEF IInv, Shapes, EnsureWorker, spawn_ready_worker, spawn_fails, process
<1>. USE GarbageIsNoRequest DEF IInv, EnsureWorker, spawn_ready_worker, spawn_fails,
              process, Shapes, Requests
<1>2. Exclusive'
  BY DEF Exclusive, Inside
<1>3. Pending'
  BY DEF Pending, AtPhp, Exclusive, Counted, Inside
<1>4. Handled'
  BY DEF Handled, AtPhp, Exclusive, Pending, Counted, Inside, Printed
<1>5. Printed'
  BY DEF Printed, Handled, Counted, Pending
<1>6. Latest'
  BY DEF Latest, Exclusive, Inside, Pending, Handled, Printed
<1>7. Counted'
  BY DEF Counted, Pending, Printed, Latest, AtPhp, Handled
<1>. QED
  BY <1>1, <1>2, <1>3, <1>4, <1>5, <1>6, <1>7 DEF IInv

\* The id is fresh, and nobody else has anything at PHP.
LEMMA SendKeeps ==
    ASSUME IInv, NEW c \in Calls, Send(c)
    PROVE  IInv'
<1>1. Shapes'
  <2>1. [id |-> next_id, call |-> c] \in Requests
    BY DEF IInv, Shapes, Requests
  <2>2. next_id' \in Nat /\ stdin' \in Requests \cup {None}
    BY <2>1 DEF IInv, Shapes, Send
  <2>3. pc' \in [Calls -> CallStates]
    BY DEF IInv, Shapes, Send, CallStates
  <2>4. outcome' \in [Calls -> Outcomes]
    BY DEF IInv, Shapes, Send, Outcomes
  <2>. QED
    BY <2>2, <2>3, <2>4 DEF IInv, Shapes, Send
<1>. USE GarbageIsNoRequest DEF IInv, Send, Shapes, Requests
<1>2. Exclusive'
  BY DEF Exclusive, Inside
<1>3. Pending'
  BY DEF Pending, AtPhp, Exclusive, Counted, Inside
<1>4. Handled'
  BY DEF Handled, AtPhp, Exclusive, Pending, Counted, Inside, Printed
<1>5. Printed'
  BY DEF Printed, Handled, Counted, Pending
<1>6. Latest'
  BY DEF Latest, Exclusive, Inside, Pending, Handled, Printed
<1>7. Counted'
  BY DEF Counted, Pending, Printed, Latest, AtPhp, Handled
<1>. QED
  BY <1>1, <1>2, <1>3, <1>4, <1>5, <1>6, <1>7 DEF IInv

\* The request stays the waiting caller's.
LEMMA WriteAllKeeps ==
    ASSUME IInv, NEW c \in Calls, WriteAll(c)
    PROVE  IInv'
<1>1. Shapes'
  BY DEF IInv, Shapes, WriteAll, process, CallStates, Outcomes
<1>. USE GarbageIsNoRequest DEF IInv, WriteAll, process, Shapes, Requests
<1>2. Exclusive'
  BY DEF Exclusive, Inside
<1>3. Pending'
  BY DEF Pending, AtPhp, Exclusive, Counted, Inside
<1>4. Handled'
  BY DEF Handled, AtPhp, Exclusive, Pending, Counted, Inside, Printed
<1>5. Printed'
  BY DEF Printed, Handled, Counted, Pending
<1>6. Latest'
  BY DEF Latest, Exclusive, Inside, Pending, Handled, Printed
<1>7. Counted'
  BY DEF Counted, Pending, Printed, Latest, AtPhp, Handled
<1>. QED
  BY <1>1, <1>2, <1>3, <1>4, <1>5, <1>6, <1>7 DEF IInv

\* A cancelled call stays inside until the worker is gone.
LEMMA IsCancelledKeeps ==
    ASSUME IInv, NEW c \in Calls, IsCancelled(c)
    PROVE  IInv'
<1>1. Shapes'
  BY DEF IInv, Shapes, IsCancelled, Fail, process, CallStates, Outcomes
<1>. USE GarbageIsNoRequest DEF IInv, IsCancelled, Fail, process, Shapes, Requests
<1>2. Exclusive'
  BY DEF Exclusive, Inside
<1>3. Pending'
  BY DEF Pending, AtPhp, Exclusive, Counted, Inside
<1>4. Handled'
  BY DEF Handled, AtPhp, Exclusive, Pending, Counted, Inside, Printed
<1>5. Printed'
  BY DEF Printed, Handled, Counted, Pending
<1>6. Latest'
  BY DEF Latest, Exclusive, Inside, Pending, Handled, Printed
<1>7. Counted'
  BY DEF Counted, Pending, Printed, Latest, AtPhp, Handled
<1>. QED
  BY <1>1, <1>2, <1>3, <1>4, <1>5, <1>6, <1>7 DEF IInv

\* So does one that ran out of time.
LEMMA TimedOutKeeps ==
    ASSUME IInv, NEW c \in Calls, TimedOut(c)
    PROVE  IInv'
<1>1. Shapes'
  BY DEF IInv, Shapes, TimedOut, Fail, process, CallStates, Outcomes
<1>. USE GarbageIsNoRequest DEF IInv, TimedOut, Fail, process, Shapes, Requests
<1>2. Exclusive'
  BY DEF Exclusive, Inside
<1>3. Pending'
  BY DEF Pending, AtPhp, Exclusive, Counted, Inside
<1>4. Handled'
  BY DEF Handled, AtPhp, Exclusive, Pending, Counted, Inside, Printed
<1>5. Printed'
  BY DEF Printed, Handled, Counted, Pending
<1>6. Latest'
  BY DEF Latest, Exclusive, Inside, Pending, Handled, Printed
<1>7. Counted'
  BY DEF Counted, Pending, Printed, Latest, AtPhp, Handled
<1>. QED
  BY <1>1, <1>2, <1>3, <1>4, <1>5, <1>6, <1>7 DEF IInv

\* The accepted line has the latest id, so it is the caller's own answer, and
\* neither the pipe nor PHP still holds its request.
LEMMA ReceiveKeeps ==
    ASSUME IInv, NEW c \in Calls, Receive(c)
    PROVE  IInv'
<1>a. out # <<>> => Head(out) = out[1] /\ 1 \in 1..Len(out)
  BY DEF IInv, Shapes
<1>b. \A i \in 1..Len(out') : \E k \in 1..Len(out) : out'[i] = out[k]
  <2>1. CASE out' = out
    BY <2>1
  <2>2. CASE out # <<>> /\ out' = Tail(out)
    <3>1. /\ Len(out') = Len(out) - 1 /\ Len(out) \in Nat
          /\ \A i \in 1..Len(out') : out'[i] = out[i + 1]
      BY <2>2 DEF IInv, Shapes
    <3>. QED
      BY <3>1
  <2>. QED
    BY <2>1, <2>2 DEF Receive
<1>1. Shapes'
  <2>1. out' \in Seq(Requests \cup {Garbage})
    BY QueueShrinks DEF IInv, Shapes, Receive
  <2>2. out # <<>> /\ Head(out) # Garbage => Head(out).call \in Calls
    BY <1>a DEF IInv, Shapes, Requests
  <2>. QED
    BY <2>1, <2>2 DEF IInv, Shapes, Receive, Fail, validate_for, CallStates, Outcomes
<1>. USE GarbageIsNoRequest DEF IInv, Receive, Fail, validate_for, Shapes, Requests
<1>2. Exclusive'
  BY <1>a, <1>b DEF Exclusive, Inside
<1>3. Pending'
  BY <1>a, <1>b DEF Pending, AtPhp, Exclusive, Counted, Inside, Latest, Printed
<1>4. Handled'
  BY <1>a, <1>b DEF Handled, AtPhp, Exclusive, Pending, Counted, Inside, Printed, Latest
<1>5. Printed'
  BY <1>a, <1>b DEF Printed, Handled, Counted, Pending
<1>6. Latest'
  BY <1>a, <1>b DEF Latest, Exclusive, Inside, Pending, Handled, Printed
<1>7. Counted'
  BY <1>a, <1>b DEF Counted, Pending, Printed, Latest, AtPhp, Handled
<1>. QED
  BY <1>1, <1>2, <1>3, <1>4, <1>5, <1>6, <1>7 DEF IInv

\* Nothing is left of the process that failed.
LEMMA takeKeeps ==
    ASSUME IInv, NEW c \in Calls, take(c)
    PROVE  IInv'
<1>1. Shapes'
  BY DEF IInv, Shapes, take, take_worker, CallStates, Outcomes
<1>. USE GarbageIsNoRequest DEF IInv, take, take_worker, Shapes, Requests
<1>2. Exclusive'
  BY DEF Exclusive, Inside
<1>3. Pending'
  BY DEF Pending, AtPhp, Exclusive, Counted, Inside
<1>4. Handled'
  BY DEF Handled, AtPhp, Exclusive, Pending, Counted, Inside, Printed
<1>5. Printed'
  BY DEF Printed, Handled, Counted, Pending
<1>6. Latest'
  BY DEF Latest, Exclusive, Inside, Pending, Handled, Printed
<1>7. Counted'
  BY DEF Counted, Pending, Printed, Latest, AtPhp, Handled
<1>. QED
  BY <1>1, <1>2, <1>3, <1>4, <1>5, <1>6, <1>7 DEF IInv

\* The interrupted call leaves, its process gone before it.
LEMMA restartKeeps ==
    ASSUME IInv, NEW c \in Calls, restart(c)
    PROVE  IInv'
<1>1. Shapes'
  <2>1. out' \in Seq(Requests \cup {Garbage})
    BY QueueShrinks DEF IInv, Shapes, restart, spawn_ready_worker, spawn_fails, process
  <2>2. /\ next_id' \in Nat
        /\ stdin' \in Requests \cup {None} /\ busy' \in Requests \cup {None}
    BY DEF IInv, Shapes, restart, spawn_ready_worker, spawn_fails, process
  <2>3. pc' \in [Calls -> CallStates] /\ outcome' \in [Calls -> Outcomes]
    BY DEF IInv, Shapes, restart, spawn_ready_worker, spawn_fails,
       process, CallStates, Outcomes
  <2>. QED
    BY <2>1, <2>2, <2>3 DEF IInv, Shapes, restart, spawn_ready_worker, spawn_fails, process
<1>. USE GarbageIsNoRequest DEF IInv, restart, spawn_ready_worker, spawn_fails,
              process, Shapes, Requests
<1>2. Exclusive'
  BY DEF Exclusive, Inside
<1>3. Pending'
  BY DEF Pending, AtPhp, Exclusive, Counted, Inside
<1>4. Handled'
  BY DEF Handled, AtPhp, Exclusive, Pending, Counted, Inside, Printed
<1>5. Printed'
  BY DEF Printed, Handled, Counted, Pending
<1>6. Latest'
  BY DEF Latest, Exclusive, Inside, Pending, Handled, Printed
<1>7. Counted'
  BY DEF Counted, Pending, Printed, Latest, AtPhp, Handled
<1>. QED
  BY <1>1, <1>2, <1>3, <1>4, <1>5, <1>6, <1>7 DEF IInv

\* A reload finds nobody inside.
LEMMA ReloadTakeKeeps ==
    ASSUME IInv, ReloadTake
    PROVE  IInv'
<1>1. Shapes'
  BY DEF IInv, Shapes, ReloadTake, take_worker, CallStates, Outcomes
<1>. USE GarbageIsNoRequest DEF IInv, ReloadTake, take_worker, Shapes, Requests
<1>2. Exclusive'
  BY DEF Exclusive, Inside
<1>3. Pending'
  BY DEF Pending, AtPhp, Exclusive, Counted, Inside
<1>4. Handled'
  BY DEF Handled, AtPhp, Exclusive, Pending, Counted, Inside, Printed
<1>5. Printed'
  BY DEF Printed, Handled, Counted, Pending
<1>6. Latest'
  BY DEF Latest, Exclusive, Inside, Pending, Handled, Printed
<1>7. Counted'
  BY DEF Counted, Pending, Printed, Latest, AtPhp, Handled
<1>. QED
  BY <1>1, <1>2, <1>3, <1>4, <1>5, <1>6, <1>7 DEF IInv

\* The reloaded worker starts empty.
LEMMA ReloadRestartKeeps ==
    ASSUME IInv, ReloadRestart
    PROVE  IInv'
<1>1. Shapes'
  <2>1. out' \in Seq(Requests \cup {Garbage})
    BY QueueShrinks DEF IInv, Shapes, ReloadRestart, spawn_ready_worker, spawn_fails, process
  <2>2. /\ next_id' \in Nat
        /\ stdin' \in Requests \cup {None} /\ busy' \in Requests \cup {None}
    BY DEF IInv, Shapes, ReloadRestart, spawn_ready_worker, spawn_fails, process
  <2>3. pc' \in [Calls -> CallStates] /\ outcome' \in [Calls -> Outcomes]
    BY DEF IInv, Shapes, ReloadRestart, spawn_ready_worker, spawn_fails,
       process, CallStates, Outcomes
  <2>. QED
    BY <2>1, <2>2, <2>3 DEF IInv, Shapes, ReloadRestart, spawn_ready_worker, spawn_fails, process
<1>. USE GarbageIsNoRequest DEF IInv, ReloadRestart, spawn_ready_worker, spawn_fails,
              process, Shapes, Requests
<1>2. Exclusive'
  BY DEF Exclusive, Inside
<1>3. Pending'
  BY DEF Pending, AtPhp, Exclusive, Counted, Inside
<1>4. Handled'
  BY DEF Handled, AtPhp, Exclusive, Pending, Counted, Inside, Printed
<1>5. Printed'
  BY DEF Printed, Handled, Counted, Pending
<1>6. Latest'
  BY DEF Latest, Exclusive, Inside, Pending, Handled, Printed
<1>7. Counted'
  BY DEF Counted, Pending, Printed, Latest, AtPhp, Handled
<1>. QED
  BY <1>1, <1>2, <1>3, <1>4, <1>5, <1>6, <1>7 DEF IInv

\* The handler runs for the first time.
LEMMA PhpReadKeeps ==
    ASSUME IInv, PhpRead
    PROVE  IInv'
<1>1. Shapes'
  <2>1. stdin.call \in Calls
    BY DEF IInv, Shapes, PhpRead, Requests
  <2>. QED
    BY <2>1 DEF IInv, Shapes, PhpRead, phpOnly
<1>. USE GarbageIsNoRequest DEF IInv, PhpRead, phpOnly, Shapes, Requests
<1>2. Exclusive'
  BY DEF Exclusive, Inside
<1>3. Pending'
  BY DEF Pending, AtPhp, Exclusive, Counted, Inside
<1>4. Handled'
  BY DEF Handled, AtPhp, Exclusive, Pending, Counted, Inside, Printed
<1>5. Printed'
  BY DEF Printed, Handled, Counted, Pending
<1>6. Latest'
  BY DEF Latest, Exclusive, Inside, Pending, Handled, Printed
<1>7. Counted'
  BY DEF Counted, Pending, Printed, Latest, AtPhp, Handled
<1>. QED
  BY <1>1, <1>2, <1>3, <1>4, <1>5, <1>6, <1>7 DEF IInv

\* What PHP prints, once or twice, is the request it handled.
LEMMA PhpReplyKeeps ==
    ASSUME IInv, PhpReply
    PROVE  IInv'
<1>a. busy \in Requests
  BY DEF IInv, Shapes, PhpReply
<1>b. \A i \in 1..Len(out') : out'[i] = busy \/ \E k \in 1..Len(out) : out'[i] = out[k]
  <2>1. busy \in Requests \cup {Garbage} /\ out \in Seq(Requests \cup {Garbage})
    BY <1>a DEF IInv, Shapes
  <2>a. /\ \A i \in 1..Len(Append(out, busy)) :
              \/ Append(out, busy)[i] = busy
              \/ \E k \in 1..Len(out) : Append(out, busy)[i] = out[k]
        /\ \A i \in 1..Len(out \o <<busy, busy>>) :
              \/ (out \o <<busy, busy>>)[i] = busy
              \/ \E k \in 1..Len(out) : (out \o <<busy, busy>>)[i] = out[k]
    BY <2>1, QueueShapes
  <2>2. CASE out' = Append(out, busy)
    BY <2>a, <2>2, Zenon
  <2>3. CASE out' = out \o <<busy, busy>>
    BY <2>a, <2>3, Zenon
  <2>. QED
    BY <2>2, <2>3 DEF PhpReply
<1>1. Shapes'
  <2>1. out' \in Seq(Requests \cup {Garbage})
    <3>1. busy \in Requests \cup {Garbage} /\ out \in Seq(Requests \cup {Garbage})
      BY <1>a DEF IInv, Shapes
    <3>2. /\ Append(out, busy) \in Seq(Requests \cup {Garbage})
          /\ out \o <<busy, busy>> \in Seq(Requests \cup {Garbage})
      BY <3>1, QueueShapes
    <3>. QED
      BY <3>2 DEF IInv, Shapes, PhpReply, phpOnly
  <2>2. /\ next_id' \in Nat
        /\ stdin' \in Requests \cup {None} /\ busy' \in Requests \cup {None}
    BY DEF IInv, Shapes, PhpReply, phpOnly
  <2>3. pc' \in [Calls -> CallStates] /\ outcome' \in [Calls -> Outcomes]
    BY DEF IInv, Shapes, PhpReply, phpOnly, CallStates, Outcomes
  <2>. QED
    BY <2>1, <2>2, <2>3 DEF IInv, Shapes, PhpReply, phpOnly
<1>. USE GarbageIsNoRequest DEF IInv, PhpReply, phpOnly, Shapes, Requests
<1>2. Exclusive'
  BY <1>a, <1>b DEF Exclusive, Inside
<1>3. Pending'
  BY <1>a, <1>b DEF Pending, AtPhp, Exclusive, Counted, Inside
<1>4. Handled'
  BY <1>a, <1>b DEF Handled, AtPhp, Exclusive, Pending, Counted, Inside, Printed
<1>5. Printed'
  <2>1. ASSUME NEW i \in 1..Len(out'), out'[i] # Garbage
        PROVE  out'[i].id < next_id /\ executed[out'[i].call] = 1
    <3>1. CASE out'[i] = busy
      BY <3>1 DEF Handled
    <3>2. CASE \E k \in 1..Len(out) : out'[i] = out[k]
      BY <2>1, <3>2 DEF Printed
    <3>. QED
      BY <1>b, <3>1, <3>2
  <2>. QED
    BY <2>1 DEF Printed
<1>6. Latest'
  <2>1. ASSUME NEW c \in Calls, pc[c] \in {"writing", "waiting"},
               NEW i \in 1..Len(out'), out'[i] # Garbage, out'[i].id = next_id - 1
        PROVE  out'[i].call = c
    <3>1. CASE out'[i] = busy
      BY <2>1, <3>1 DEF Latest
    <3>2. CASE \E k \in 1..Len(out) : out'[i] = out[k]
      BY <2>1, <3>2 DEF Latest
    <3>. QED
      BY <1>b, <3>1, <3>2
  <2>. QED
    BY <2>1 DEF Latest
<1>7. Counted'
  BY <1>a, <1>b DEF Counted, Pending, Printed, Latest, AtPhp, Handled
<1>. QED
  BY <1>1, <1>2, <1>3, <1>4, <1>5, <1>6, <1>7 DEF IInv

\* A stray line is no answer.
LEMMA PhpNoiseKeeps ==
    ASSUME IInv, PhpNoise
    PROVE  IInv'
<1>1. Shapes'
  BY DEF IInv, Shapes, PhpNoise, phpOnly, CallStates, Outcomes
<1>. USE GarbageIsNoRequest DEF IInv, PhpNoise, phpOnly, Shapes, Requests
<1>2. Exclusive'
  BY DEF Exclusive, Inside
<1>3. Pending'
  BY DEF Pending, AtPhp, Exclusive, Counted, Inside
<1>4. Handled'
  BY DEF Handled, AtPhp, Exclusive, Pending, Counted, Inside, Printed
<1>5. Printed'
  BY DEF Printed, Handled, Counted, Pending
<1>6. Latest'
  BY DEF Latest, Exclusive, Inside, Pending, Handled, Printed
<1>7. Counted'
  BY DEF Counted, Pending, Printed, Latest, AtPhp, Handled
<1>. QED
  BY <1>1, <1>2, <1>3, <1>4, <1>5, <1>6, <1>7 DEF IInv

\* Lines printed before the death may remain.
LEMMA PhpDiesKeeps ==
    ASSUME IInv, PhpDies
    PROVE  IInv'
<1>1. Shapes'
  BY DEF IInv, Shapes, PhpDies, phpOnly, CallStates, Outcomes
<1>. USE GarbageIsNoRequest DEF IInv, PhpDies, phpOnly, Shapes, Requests
<1>2. Exclusive'
  BY DEF Exclusive, Inside
<1>3. Pending'
  BY DEF Pending, AtPhp, Exclusive, Counted, Inside
<1>4. Handled'
  BY DEF Handled, AtPhp, Exclusive, Pending, Counted, Inside, Printed
<1>5. Printed'
  BY DEF Printed, Handled, Counted, Pending
<1>6. Latest'
  BY DEF Latest, Exclusive, Inside, Pending, Handled, Printed
<1>7. Counted'
  BY DEF Counted, Pending, Printed, Latest, AtPhp, Handled
<1>. QED
  BY <1>1, <1>2, <1>3, <1>4, <1>5, <1>6, <1>7 DEF IInv

-----------------------------------------------------------------------------
\* At the start nothing was asked of PHP.
LEMMA InitialInvariant == Init => IInv
<1>1. Init => Shapes
  <2>1. <<>> \in Seq(Requests \cup {Garbage})
    OBVIOUS
  <2>. QED
    BY <2>1 DEF Init, Shapes, CallStates, Outcomes
<1>2. Init => Exclusive /\ Pending /\ Handled /\ Printed /\ Latest /\ Counted
  BY DEF Init, Exclusive, Inside, Pending, Handled, Printed, Latest, Counted
<1>. QED
  BY <1>1, <1>2 DEF IInv

\* No step breaks the invariant.
LEMMA InvariantKept == IInv /\ [Next]_vars => IInv'
<1>. SUFFICES ASSUME IInv, [Next]_vars PROVE IInv'
  OBVIOUS
<1>1. ASSUME NEW c \in Calls, Submit(c) \/ cancel(c) \/ Advance(c)
      PROVE  IInv'
  BY <1>1, SubmitKeeps, cancelKeeps, AcquireKeeps, EnsureWorkerKeeps, SendKeeps,
     WriteAllKeeps, IsCancelledKeeps, TimedOutKeeps, ReceiveKeeps, takeKeeps,
     restartKeeps DEF Advance
<1>2. CASE ReloadTake \/ ReloadRestart
  BY <1>2, ReloadTakeKeeps, ReloadRestartKeeps
<1>3. CASE PhpRead \/ PhpReply \/ PhpNoise \/ PhpDies
  BY <1>3, PhpReadKeeps, PhpReplyKeeps, PhpNoiseKeeps, PhpDiesKeeps
<1>4. CASE UNCHANGED vars
  BY <1>4 DEF vars, IInv, Shapes, Exclusive, Pending, Handled, Printed, Latest, Counted
<1>. QED
  BY <1>1, <1>2, <1>3, <1>4 DEF Next, Terminated

\* The invariant holds in every state.
LEMMA Invariant == Spec => []IInv
<1>. QED
  BY InitialInvariant, InvariantKept, PTL DEF Spec

\* "The interrupted command is never retried automatically": for any number of
\* callers, deaths and reloads a handler runs at most once for a call, and no
\* longer once the call has returned.
THEOREM NeverRetried == Spec => []ExecutedAtMostOnce
<1>1. IInv => ExecutedAtMostOnce
  BY DEF IInv, Shapes, Counted, Pending, Handled, AtPhp, ExecutedAtMostOnce
<1>. QED
  BY <1>1, Invariant, PTL

\* A call that succeeds was answered by its own response, although ids start
\* again with every process and PHP may print an answer twice.
THEOREM OwnAnswer == Spec => []AnswersItsOwnCall
<1>1. IInv => AnswersItsOwnCall
  BY DEF IInv, Counted, AnswersItsOwnCall
<1>. QED
  BY <1>1, Invariant, PTL
=============================================================================
