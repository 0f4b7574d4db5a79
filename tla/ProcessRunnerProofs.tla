------------------------- MODULE ProcessRunnerProofs -------------------------
(***************************************************************************)
(* What processes and terminals promise to the pages, for any number of     *)
(* requests, reloads and faults and any size of the buffers: a result is    *)
(* complete, the end of a terminal is told last, and no child is left.      *)
(***************************************************************************)
EXTENDS ProcessRunner, TLAPS

Results == {"none", "timeout", "unread", "too large", "ok"}
Runs == [child : {"alive", "exited", "killed"}, pipes : BOOLEAN, input : BOOLEAN,
         written : Nat, unread : 0..1, kept : Nat, overflow : BOOLEAN, result : Results]
Terminals == [gen : Gens, id : Nat, session : BOOLEAN, child : {"alive", "exited", "abandoned"},
              input : Nat, output : 0..1, channel : Nat, ended : BOOLEAN, told : BOOLEAN]
Requests == [op : {"run"}, gen : Gens, pc : {"wait", "collect", "discard"}]
            \cup [op : {"open"}, gen : Gens]
            \cup [op : {"write"}, gen : Gens, term : Calls, rest : Nat]

\* What may still happen, and the generation the gateway hands out.
Budget ==
    /\ left \in [run : Nat, terminal : Nat, reload : Nat, fault : Nat]
    /\ current \in Nat /\ current + left.reload = MaxReloads + 1 /\ current > 0
    /\ next_session_id \in [Gens -> Nat]

\* The kinds of records there are.
Shapes ==
    /\ call \in [Calls -> Requests \cup {Idle, Done}]
    /\ terminal \in [Calls -> Terminals \cup {None}]
    /\ run \in [Calls -> Runs \cup {None, [child |-> "abandoned"]}]

\* A request has what it works on.
Working(c) ==
    /\ Busy(c, "run") =>
          /\ Started(c)
          /\ call[c].pc # "wait" => run[c].child # "alive"
          /\ call[c].pc = "collect" => run[c].child = "exited"
    /\ Busy(c, "open") => Exists(c)

\* What was written is kept or still to be read, until something did not fit,
\* and a success is final.
Output(c) ==
    Started(c) =>
        /\ run[c].kept <= MaxOutput
        /\ ~run[c].overflow => run[c].kept + run[c].unread = run[c].written
        /\ run[c].child = "alive" => Busy(c, "run")
        /\ run[c].result = "ok" =>
              /\ run[c].child = "exited" /\ ~run[c].input /\ ~run[c].overflow
              /\ ~run[c].pipes /\ run[c].unread = 0

\* The reader of a terminal somebody can still read from ends after the output,
\* and nothing comes after it.
Ending(t) ==
    Exists(t) =>
        /\ Alive(t) => terminal[t].session \/ Busy(t, "open")
        /\ terminal[t].ended /\ (terminal[t].session \/ Busy(t, "open")) =>
              ~Alive(t) /\ terminal[t].output = 0
        /\ terminal[t].told =>
              terminal[t].ended /\ ~Alive(t) /\ terminal[t].output = 0 /\ terminal[t].channel = 0

InOrder(c) == Working(c) /\ Output(c) /\ Ending(c)

IInv == Budget /\ Shapes /\ \A c \in Calls : InOrder(c)

-----------------------------------------------------------------------------
\* The sizes are numbers, and a generation is one that reloads can reach.
LEMMA Sizes ==
    /\ MaxOutput \in Nat /\ Channel \in Nat /\ ReadMax \in Nat /\ PtyInput \in Nat
    /\ MaxWrite \in Nat /\ MaxReloads \in Nat
    /\ Budget => current \in Gens
BY RunnerAssumption DEF Gens, Budget

\* A step concerns only the requests in S.
Only(S) == \A d \in Calls \ S : call'[d] = call[d] /\ terminal'[d] = terminal[d] /\ run'[d] = run[d]

\* What is in order elsewhere stays so.
LEMMA OthersStay ==
    ASSUME IInv, NEW S, Only(S), \A d \in S \cap Calls : InOrder(d)'
    PROVE  \A d \in Calls : InOrder(d)'
<1>. SUFFICES ASSUME NEW d \in Calls \ S PROVE InOrder(d)'
  OBVIOUS
<1>. QED
  BY DEF IInv, InOrder, Only, Working, Output, Ending, Busy, Started, Exists, Alive

\* A request that begins was idle.
LEMMA FreshIsIdle == ASSUME NEW c \in Calls, Fresh(c) PROVE call[c] = Idle
BY DEF Fresh

\* What an entry of the tables is.
LEMMA Entries ==
    ASSUME Shapes, NEW c \in Calls
    PROVE  /\ Started(c) => run[c] \in Runs
           /\ Exists(c) => terminal[c] \in Terminals
           /\ Busy(c, "run") => call[c] \in [op : {"run"}, gen : Gens, pc : {"wait", "collect", "discard"}]
           /\ Busy(c, "open") => call[c] \in [op : {"open"}, gen : Gens]
           /\ Busy(c, "write") => call[c] \in [op : {"write"}, gen : Gens, term : Calls, rest : Nat]
<1>1. Started(c) => run[c] \in Runs
  BY DEF Shapes, Started, None
<1>2. Exists(c) => terminal[c] \in Terminals
  BY DEF Shapes, Exists, None
<1>3. Running(c) => call[c] \in Requests
  BY DEF Shapes, Running, Idle, Done
<1>4. \A op \in {"run", "open", "write"} : Busy(c, op) => Running(c)
  BY DEF Busy, Running
<1>. QED
  BY <1>1, <1>2, <1>3, <1>4 DEF Requests, Busy

\* A step that spends leaves the reloads alone.
LEMMA Spending ==
    ASSUME Budget, UNCHANGED <<current, next_session_id>>,
           \/ Spend("run") \/ SpendOnFault("run") \/ Spend("terminal") \/ SpendOnFault("terminal")
           \/ Spend("fault") \/ Keep
    PROVE  Budget'
<1>1. CASE Spend("run") \/ Spend("terminal") \/ Spend("fault")
  BY <1>1 DEF Budget, Spend
<1>2. ASSUME NEW kind \in {"run", "terminal"}, SpendOnFault(kind) PROVE Budget'
  <2>1. left' = [left EXCEPT ![kind] = left[kind] - 1, !["fault"] = left["fault"] - 1]
    BY <1>2 DEF SpendOnFault, Budget
  <2>2. left[kind] \in Nat /\ left["fault"] \in Nat /\ left[kind] > 0 /\ left["fault"] > 0
    BY <1>2 DEF SpendOnFault, Budget
  <2>3. left' \in [run : Nat, terminal : Nat, reload : Nat, fault : Nat] /\ left'["reload"] = left["reload"]
    BY <2>1, <2>2 DEF Budget
  <2>. QED
    BY <2>3 DEF Budget
<1>3. CASE Keep
  BY <1>3 DEF Budget, Keep
<1>. QED
  BY <1>1, <1>2, <1>3

\* A process starts with its request.
LEMMA executeKeeps == ASSUME IInv, NEW c \in Calls, execute(c) PROVE IInv'
<1>. DEFINE started == [child |-> "alive", pipes |-> TRUE, input |-> TRUE, written |-> 0,
                        unread |-> 0, kept |-> 0, overflow |-> FALSE, result |-> "none"]
            waits == [op |-> "run", gen |-> current, pc |-> "wait"]
<1>0. call[c] = Idle
  BY FreshIsIdle DEF execute
<1>1. Budget'
  BY Spending DEF IInv, execute
<1>2. terminal' = terminal
  BY DEF execute
<1>3. started \in Runs /\ waits \in Requests
  BY Sizes DEF IInv, Runs, Results, Requests
<1>4. \/ run' = [run EXCEPT ![c] = started] /\ call' = [call EXCEPT ![c] = waits]
      \/ run' = [run EXCEPT ![c] = [child |-> "abandoned"]] /\ call' = [call EXCEPT ![c] = Done]
  BY DEF execute, Answer
<1>. HIDE DEF started, waits
<1>5. Shapes' /\ Only({c})
  BY <1>2, <1>3, <1>4 DEF IInv, Shapes, Only
<1>6. \/ run'[c] = started /\ call'[c] = waits
      \/ run'[c] = [child |-> "abandoned"] /\ call'[c] = Done
  BY <1>4 DEF IInv, Shapes
<1>7. Working(c)' /\ Output(c)'
  BY <1>6, Sizes DEF Working, Output, Busy, Started, Exists, Done, started, waits
<1>8. Ending(c)'
  BY <1>0, <1>2, <1>6 DEF IInv, InOrder, Ending, Busy, Exists, Alive, Idle, Done, waits
<1>. QED
  BY <1>1, <1>5, <1>7, <1>8, OthersStay DEF IInv, InOrder

\* A process writes while its pipes are open, and ends once.
LEMMA ProcessKeeps == ASSUME IInv, NEW c \in Calls, Process(c) PROVE IInv'
<1>0. Started(c)
  BY DEF Process, ChildWrites, ChildTakesInput, ChildEnds, PipesClose
<1>1. Budget' /\ call' = call /\ terminal' = terminal
  BY Spending DEF IInv, Process
<1>2. run[c] \in Runs
  BY <1>0, Entries DEF IInv
<1>3. PICK r \in Runs :
         /\ run' = [run EXCEPT ![c] = r]
         /\ r.kept = run[c].kept /\ r.overflow = run[c].overflow /\ r.result = run[c].result
         /\ r.written - r.unread = run[c].written - run[c].unread
         /\ r.child = "alive" => run[c].child = "alive"
         /\ run[c].child # "alive" => r.child = run[c].child
         /\ r.child # run[c].child => r.child = "exited"
         /\ ~run[c].input => ~r.input
         /\ ~run[c].pipes => ~r.pipes /\ r.unread = run[c].unread
  <2>1. CASE ChildWrites(c)
    <3>. DEFINE q == [run[c] EXCEPT !.written = @ + 1]
                r == [q EXCEPT !.unread = 1]
    <3>1. q \in Runs
      BY <1>2 DEF Runs
    <3>. HIDE DEF q
    <3>2. r \in Runs
      BY <3>1 DEF Runs
    <3>3. run' = [run EXCEPT ![c] = r] /\ run[c].unread = 0 /\ run[c].pipes
      BY <2>1 DEF ChildWrites, q
    <3>4. /\ r.kept = run[c].kept /\ r.overflow = run[c].overflow /\ r.result = run[c].result
          /\ r.child = run[c].child /\ r.input = run[c].input /\ r.unread = 1
          /\ r.written = run[c].written + 1
      BY <1>2 DEF Runs, q
    <3>. HIDE DEF r
    <3>5. r.written - r.unread = run[c].written - run[c].unread
      BY <1>2, <3>3, <3>4 DEF Runs
    <3>. QED
      BY <3>2, <3>3, <3>4, <3>5
  <2>2. CASE ChildTakesInput(c)
    <3>. DEFINE r == [run[c] EXCEPT !.input = FALSE]
    <3>1. r \in Runs
      BY <1>2 DEF Runs
    <3>. QED
      BY <1>2, <2>2, <3>1 DEF Runs, ChildTakesInput
  <2>3. CASE ChildEnds(c)
    <3>. DEFINE r == [run[c] EXCEPT !.child = "exited"]
    <3>1. r \in Runs
      BY <1>2 DEF Runs
    <3>. QED
      BY <1>2, <2>3, <3>1 DEF Runs, ChildEnds
  <2>4. CASE PipesClose(c)
    <3>. DEFINE r == [run[c] EXCEPT !.pipes = FALSE]
    <3>1. r \in Runs
      BY <1>2 DEF Runs
    <3>. QED
      BY <1>2, <2>4, <3>1 DEF Runs, PipesClose
  <2>. QED
    BY <2>1, <2>2, <2>3, <2>4 DEF Process
<1>4. Shapes' /\ Only({c}) /\ run'[c] = r
  BY <1>1, <1>3 DEF IInv, Shapes, Only
<1>5. Working(c)'
  BY <1>0, <1>1, <1>2, <1>3, <1>4 DEF IInv, InOrder, Working, Busy, Started, Exists, Runs
<1>6. Output(c)'
  BY <1>0, <1>1, <1>2, <1>3, <1>4 DEF IInv, InOrder, Output, Busy, Started, Runs
<1>7. Ending(c)'
  BY <1>1 DEF IInv, InOrder, Ending, Busy, Exists, Alive
<1>. QED
  BY <1>1, <1>4, <1>5, <1>6, <1>7, OthersStay DEF IInv, InOrder

\* Nothing that was written is lost unnoticed.
LEMMA drainKeeps == ASSUME IInv, NEW c \in Calls, drain(c) PROVE IInv'
<1>. DEFINE p == [run[c] EXCEPT !.unread = 0]
            q == [p EXCEPT !.kept = IF @ < MaxOutput THEN @ + 1 ELSE @]
            r == [q EXCEPT !.overflow = @ \/ Overflows(c)]
<1>0. Started(c) /\ run[c].unread = 1
  BY DEF drain
<1>1. Budget' /\ call' = call /\ terminal' = terminal
  BY Spending DEF IInv, drain
<1>2. run[c] \in Runs
  BY <1>0, Entries DEF IInv
<1>3. r \in Runs /\ run' = [run EXCEPT ![c] = r]
  <2>1. p \in Runs
    BY <1>2 DEF Runs
  <2>. HIDE DEF p
  <2>2. q \in Runs
    BY <2>1, Sizes DEF Runs
  <2>. HIDE DEF q
  <2>3. r \in Runs
    BY <2>2 DEF Runs, Overflows
  <2>4. run' = [run EXCEPT ![c] = r]
    BY DEF drain, p, q
  <2>. QED
    BY <2>3, <2>4
<1>4. r.unread = 0 /\ (r.child = run[c].child /\ r.pipes = run[c].pipes /\ r.input = run[c].input
      /\ r.result = run[c].result /\ r.written = run[c].written)
  BY <1>2 DEF Runs
<1>5. /\ r.kept <= MaxOutput
      /\ ~r.overflow => ~run[c].overflow /\ r.kept = run[c].kept + 1
  <2>1. r.kept = IF run[c].kept < MaxOutput THEN run[c].kept + 1 ELSE run[c].kept
    BY <1>2 DEF Runs
  <2>2. r.overflow = (run[c].overflow \/ Overflows(c))
    BY <1>2 DEF Runs
  <2>. HIDE DEF r
  <2>3. run[c].kept <= MaxOutput /\ run[c].kept \in Nat
    BY <1>0, <1>2 DEF IInv, InOrder, Output, Runs
  <2>4. ~r.overflow => ~run[c].overflow /\ run[c].kept # MaxOutput
    BY <2>2 DEF Overflows
  <2>. QED
    BY <2>1, <2>3, <2>4, Sizes
<1>. HIDE DEF r
<1>6. Shapes' /\ Only({c}) /\ run'[c] = r
  BY <1>1, <1>3 DEF IInv, Shapes, Only
<1>7. Working(c)'
  BY <1>0, <1>1, <1>4, <1>6 DEF IInv, InOrder, Working, Busy, Started, Exists
<1>8. Output(c)'
  BY <1>0, <1>1, <1>2, <1>4, <1>5, <1>6, Sizes DEF IInv, InOrder, Output, Busy, Started, Runs
<1>9. Ending(c)'
  BY <1>1 DEF IInv, InOrder, Ending, Busy, Exists, Alive
<1>. QED
  BY <1>1, <1>6, <1>7, <1>8, <1>9, OthersStay DEF IInv, InOrder

\* The requests for processes and for new terminals stay where they are.
SameWork ==
    \A c \in Calls : /\ Busy(c, "run")' <=> Busy(c, "run")
                     /\ Busy(c, "open")' <=> Busy(c, "open")
                     /\ Busy(c, "run") => call'[c] = call[c]

\* A request that is answered at once is no work for anybody else.
LEMMA AnsweredAtOnce ==
    ASSUME IInv, NEW c \in Calls, Fresh(c), Answer(c)
    PROVE  SameWork /\ call' \in [Calls -> Requests \cup {Idle, Done}]
<1>1. call[c] = Idle
  BY FreshIsIdle
<1>2. call' \in [Calls -> Requests \cup {Idle, Done}]
  BY DEF IInv, Shapes, Answer
<1>3. call'[c] = Done /\ \A d \in Calls \ {c} : call'[d] = call[d]
  BY DEF IInv, Shapes, Answer
<1>. QED
  BY <1>1, <1>2, <1>3 DEF SameWork, Busy, Idle, Done

\* A step that touches neither processes nor terminals nor their requests.
LEMMA NothingTouched ==
    ASSUME IInv, Budget', call' \in [Calls -> Requests \cup {Idle, Done}], SameWork,
           UNCHANGED <<terminal, run>>
    PROVE  IInv'
<1>1. \A c \in Calls : InOrder(c)'
  BY DEF IInv, InOrder, Working, Output, Ending, SameWork, Busy, Started, Exists, Alive
<1>. QED
  BY <1>1 DEF IInv, Shapes

\* A step that changes one terminal and leaves processes and their requests.
LEMMA TerminalTouched ==
    ASSUME IInv, NEW d \in Calls, NEW x \in Terminals, Exists(d),
           terminal' = [terminal EXCEPT ![d] = x], run' = run, Budget',
           call' \in [Calls -> Requests \cup {Idle, Done}], SameWork, Ending(d)'
    PROVE  IInv'
<1>1. Shapes' /\ terminal'[d] = x /\ \A c \in Calls \ {d} : terminal'[c] = terminal[c]
  BY DEF IInv, Shapes
<1>2. x.child # "none"
  BY DEF Terminals
<1>3. ASSUME NEW c \in Calls PROVE Working(c)' /\ Output(c)'
  BY <1>1, <1>2 DEF IInv, InOrder, Working, Output, SameWork, Busy, Started, Exists
<1>4. ASSUME NEW c \in Calls PROVE Ending(c)'
  BY <1>1 DEF IInv, InOrder, Ending, SameWork, Busy, Exists, Alive
<1>. QED
  BY <1>1, <1>3, <1>4 DEF IInv, InOrder

\* A refused command starts nothing.
LEMMA allowed_commandKeeps == ASSUME IInv, NEW c \in Calls, allowed_command(c) PROVE IInv'
BY AnsweredAtOnce, NothingTouched, Spending DEF allowed_command, IInv

\* A size changes nothing here.
LEMMA resize_ptyKeeps == ASSUME IInv, NEW c \in Calls, resize_pty(c) PROVE IInv'
BY AnsweredAtOnce, NothingTouched, Spending DEF resize_pty, IInv

\* A number without a session is refused.
LEMMA SessionMissingKeeps == ASSUME IInv, NEW c \in Calls, SessionMissing(c) PROVE IInv'
BY AnsweredAtOnce, NothingTouched, Spending DEF SessionMissing, IInv

\* A write waits for a terminal of its own generation.
LEMMA write_ptyKeeps == ASSUME IInv, NEW c \in Calls, write_pty(c) PROVE IInv'
<1>1. call[c] = Idle
  BY FreshIsIdle DEF write_pty
<1>2. PICK d \in Calls, n \in 1..MaxWrite :
         call' = [call EXCEPT ![c] = [op |-> "write", gen |-> current, term |-> d, rest |-> n]]
  BY DEF write_pty, Reached, Sessions
<1>3. [op |-> "write", gen |-> current, term |-> d, rest |-> n] \in Requests
  BY Sizes DEF IInv, Requests
<1>4. call' \in [Calls -> Requests \cup {Idle, Done}]
  BY <1>2, <1>3 DEF IInv, Shapes
<1>5. SameWork
  BY <1>1, <1>2 DEF IInv, Shapes, SameWork, Busy, Idle
<1>. QED
  BY <1>4, <1>5, NothingTouched, Spending DEF write_pty, IInv

\* The request goes on when the process has ended or was killed.
LEMMA try_waitKeeps == ASSUME IInv, NEW c \in Calls, try_wait(c) PROVE IInv'
<1>0. Busy(c, "run") /\ Started(c) /\ call[c].pc = "wait"
  BY DEF IInv, InOrder, Working, try_wait
<1>1. Budget' /\ terminal' = terminal
  BY Spending DEF IInv, try_wait
<1>2. /\ run[c] \in Runs
      /\ call[c] \in [op : {"run"}, gen : Gens, pc : {"wait", "collect", "discard"}]
  BY <1>0, Entries DEF IInv
<1>3. /\ \A p \in {"collect", "discard"} : [call[c] EXCEPT !.pc = p] \in Requests
      /\ [run[c] EXCEPT !.child = "killed"] \in Runs
  BY <1>2 DEF Requests, Runs
<1>4. /\ call'[c].op = "run" /\ Shapes' /\ Only({c})
      /\ \/ run'[c] = run[c] /\ run[c].child = "exited" /\ call'[c].pc = "collect"
         \/ run'[c] = [run[c] EXCEPT !.child = "killed"] /\ run[c].child = "alive" /\ call'[c].pc = "discard"
  <2>1. CASE run[c].child = "exited" /\ call' = [call EXCEPT ![c].pc = "collect"] /\ run' = run
    BY <1>1, <1>2, <1>3, <2>1 DEF IInv, Shapes, Only
  <2>2. CASE /\ run[c].child = "alive" /\ run' = [run EXCEPT ![c].child = "killed"]
             /\ call' = [call EXCEPT ![c].pc = "discard"]
    BY <1>1, <1>2, <1>3, <2>2 DEF IInv, Shapes, Only
  <2>. QED
    BY <2>1, <2>2 DEF try_wait
<1>5. Working(c)'
  BY <1>2, <1>4 DEF Working, Busy, Started, Runs
<1>6. Output(c)'
  BY <1>0, <1>2, <1>4 DEF IInv, InOrder, Output, Busy, Started, Runs
<1>7. Ending(c)'
  BY <1>0, <1>1, <1>4 DEF IInv, InOrder, Ending, Busy, Exists, Alive
<1>. QED
  BY <1>1, <1>4, <1>5, <1>6, <1>7, OthersStay DEF IInv, InOrder

\* The joins come before the answer.
LEMMA collectKeeps == ASSUME IInv, NEW c \in Calls, collect(c) PROVE IInv'
<1>. DEFINE v == IF call[c].pc = "discard" THEN "timeout"
                 ELSE IF run[c].input THEN "unread"
                 ELSE IF run[c].overflow THEN "too large" ELSE "ok"
            r == [run[c] EXCEPT !.result = v]
<1>0. /\ Busy(c, "run") /\ Started(c) /\ call[c].pc \in {"collect", "discard"}
      /\ ~run[c].pipes /\ run[c].unread = 0 /\ run[c].child # "alive"
      /\ call[c].pc = "collect" => run[c].child = "exited"
  BY DEF IInv, InOrder, Working, collect, Joined
<1>1. Budget' /\ terminal' = terminal
  BY Spending DEF IInv, collect
<1>2. run[c] \in Runs
  BY <1>0, Entries DEF IInv
<1>3. v \in Results /\ (v = "ok" => call[c].pc # "discard" /\ ~run[c].input /\ ~run[c].overflow)
  BY DEF Results
<1>4. run' = [run EXCEPT ![c] = r] /\ call' = [call EXCEPT ![c] = Done]
  BY DEF collect, Answer
<1>. HIDE DEF v
<1>5. r \in Runs
  BY <1>2, <1>3 DEF Runs
<1>6. /\ r.result = v /\ r.child = run[c].child /\ r.pipes = run[c].pipes /\ r.input = run[c].input
      /\ r.written = run[c].written /\ r.unread = run[c].unread /\ r.kept = run[c].kept
      /\ r.overflow = run[c].overflow
  BY <1>2 DEF Runs
<1>. HIDE DEF r
<1>7. Shapes' /\ Only({c}) /\ run'[c] = r /\ call'[c] = Done
  BY <1>1, <1>4, <1>5 DEF IInv, Shapes, Only
<1>8. Working(c)'
  BY <1>7 DEF Working, Busy, Done
<1>9. Output(c)'
  BY <1>0, <1>3, <1>6, <1>7 DEF IInv, InOrder, Output, Started
<1>10. Ending(c)'
  BY <1>0, <1>1, <1>7 DEF IInv, InOrder, Ending, Busy, Exists, Alive, Done
<1>. QED
  BY <1>1, <1>7, <1>8, <1>9, <1>10, OthersStay DEF IInv, InOrder

\* A terminal's child starts with its request.
LEMMA open_ptyKeeps == ASSUME IInv, NEW c \in Calls, open_pty(c) PROVE IInv'
<1>. DEFINE opened == [gen |-> current, id |-> 0, session |-> FALSE, child |-> "alive", input |-> 0,
                       output |-> 0, channel |-> 0, ended |-> FALSE, told |-> FALSE]
            q == [opened EXCEPT !.child = "abandoned"]
            lost == [q EXCEPT !.ended = TRUE]
            opens == [op |-> "open", gen |-> current]
<1>0. call[c] = Idle
  BY FreshIsIdle DEF open_pty
<1>1. Budget' /\ run' = run
  BY Spending DEF IInv, open_pty
<1>2. opened \in Terminals /\ opens \in Requests
  BY Sizes DEF IInv, Terminals, Requests
<1>3. \/ terminal' = [terminal EXCEPT ![c] = opened] /\ call' = [call EXCEPT ![c] = opens]
      \/ terminal' = [terminal EXCEPT ![c] = lost] /\ call' = [call EXCEPT ![c] = Done]
  BY DEF open_pty, Answer
<1>4. q \in Terminals /\ q.child = "abandoned" /\ ~q.told /\ ~q.session
  BY <1>2 DEF Terminals
<1>. HIDE DEF q, opened
<1>5. lost \in Terminals /\ lost.child = "abandoned" /\ ~lost.told /\ ~lost.session
  BY <1>4 DEF Terminals
<1>. HIDE DEF lost, opens
<1>6. Shapes' /\ Only({c})
  BY <1>1, <1>2, <1>3, <1>5 DEF IInv, Shapes, Only
<1>7. \/ terminal'[c] = opened /\ call'[c] = opens
      \/ terminal'[c] = lost /\ call'[c] = Done
  BY <1>3 DEF IInv, Shapes
<1>8. Working(c)'
  BY <1>7 DEF Working, Busy, Exists, Done, opened, opens
<1>9. Output(c)'
  BY <1>0, <1>1 DEF IInv, InOrder, Output, Busy, Started, Idle
<1>10. Ending(c)'
  BY <1>5, <1>7 DEF Ending, Busy, Exists, Alive, Done, opened, opens
<1>. QED
  BY <1>1, <1>6, <1>8, <1>9, <1>10, OthersStay DEF IInv, InOrder

\* The session takes the child over from the request that started it.
LEMMA InsertSessionKeeps == ASSUME IInv, NEW c \in Calls, InsertSession(c) PROVE IInv'
<1>. DEFINE g == call[c].gen
            q == [terminal[c] EXCEPT !.session = TRUE]
            x == [q EXCEPT !.id = next_session_id[g]]
<1>0. Busy(c, "open") /\ Exists(c)
  BY DEF IInv, InOrder, Working, InsertSession
<1>1. /\ terminal' = [terminal EXCEPT ![c] = x] /\ call' = [call EXCEPT ![c] = Done] /\ run' = run
      /\ next_session_id' = [next_session_id EXCEPT ![g] = @ + 1]
      /\ current' = current /\ left' = left
  BY DEF InsertSession, Answer, NewId, Keep
<1>2. g \in Gens /\ terminal[c] \in Terminals
  BY <1>0, Entries DEF IInv
<1>. HIDE DEF g
<1>3. next_session_id[g] \in Nat /\ Budget'
  BY <1>1, <1>2 DEF IInv, Budget
<1>4. q \in Terminals
  BY <1>2 DEF Terminals
<1>5. /\ q.child = terminal[c].child /\ q.session /\ q.output = terminal[c].output
      /\ q.channel = terminal[c].channel /\ q.ended = terminal[c].ended /\ q.told = terminal[c].told
  BY <1>2 DEF Terminals
<1>. HIDE DEF q
<1>6. x \in Terminals
  BY <1>3, <1>4 DEF Terminals
<1>7. /\ x.child = q.child /\ x.session = q.session /\ x.output = q.output
      /\ x.channel = q.channel /\ x.ended = q.ended /\ x.told = q.told
  BY <1>4 DEF Terminals
<1>. HIDE DEF x
<1>8. Shapes' /\ Only({c}) /\ terminal'[c] = x /\ call'[c] = Done
  BY <1>1, <1>6 DEF IInv, Shapes, Only
<1>9. Working(c)' /\ Output(c)'
  BY <1>0, <1>1, <1>8 DEF IInv, InOrder, Working, Output, Busy, Started, Exists, Done
<1>10. Ending(c)'
  BY <1>0, <1>5, <1>7, <1>8 DEF IInv, InOrder, Ending, Busy, Exists, Alive
<1>. QED
  BY <1>3, <1>8, <1>9, <1>10, OthersStay DEF IInv, InOrder

\* Output comes from a child that is alive.
LEMMA ChildEchoesKeeps == ASSUME IInv, NEW t \in Calls, ChildEchoes(t) PROVE IInv'
<1>. DEFINE q == [terminal[t] EXCEPT !.input = @ - 1]
            x == [q EXCEPT !.output = 1]
<1>0. Alive(t) /\ Exists(t) /\ terminal[t].input > 0
  BY DEF ChildEchoes, Alive, Exists
<1>1. terminal' = [terminal EXCEPT ![t] = x] /\ Budget' /\ call' = call /\ run' = run
  BY Spending DEF ChildEchoes, IInv
<1>2. terminal[t] \in Terminals
  BY <1>0, Entries DEF IInv
<1>3. q \in Terminals
  BY <1>0, <1>2 DEF Terminals
<1>4. /\ q.child = terminal[t].child /\ q.session = terminal[t].session
      /\ q.ended = terminal[t].ended /\ q.told = terminal[t].told
  BY <1>2 DEF Terminals
<1>. HIDE DEF q
<1>5. x \in Terminals
  BY <1>3 DEF Terminals
<1>6. x.child = q.child /\ x.session = q.session /\ x.ended = q.ended /\ x.told = q.told
  BY <1>3 DEF Terminals
<1>. HIDE DEF x
<1>7. terminal'[t] = x
  BY <1>1 DEF IInv, Shapes
<1>8. Ending(t)'
  BY <1>0, <1>1, <1>4, <1>6, <1>7 DEF IInv, InOrder, Ending, Busy, Exists, Alive
<1>. QED
  BY <1>0, <1>1, <1>5, <1>8, TerminalTouched DEF IInv, Shapes, SameWork, Busy

\* The reader ends with the output, or when nobody receives any more.
LEMMA ReaderThreadKeeps == ASSUME IInv, NEW t \in Calls, ReaderThread(t) PROVE IInv'
<1>0. Exists(t) /\ ~terminal[t].ended
  BY DEF ReaderThread
<1>1. Budget' /\ call' = call /\ run' = run
  BY Spending DEF ReaderThread, IInv
<1>2. terminal[t] \in Terminals
  BY <1>0, Entries DEF IInv
<1>3. ~terminal[t].told
  BY <1>0 DEF IInv, InOrder, Ending
<1>4. CASE terminal' = [terminal EXCEPT ![t].output = 0, ![t].channel = @ + 1]
  <2>. DEFINE q == [terminal[t] EXCEPT !.output = 0]
              x == [q EXCEPT !.channel = @ + 1]
  <2>1. terminal' = [terminal EXCEPT ![t] = x]
    BY <1>4
  <2>2. q \in Terminals
    BY <1>2 DEF Terminals
  <2>3. /\ q.child = terminal[t].child /\ q.session = terminal[t].session
        /\ q.ended = terminal[t].ended /\ q.told = terminal[t].told
    BY <1>2 DEF Terminals
  <2>. HIDE DEF q
  <2>4. x \in Terminals
    BY <2>2 DEF Terminals
  <2>5. x.child = q.child /\ x.session = q.session /\ x.ended = q.ended /\ x.told = q.told
    BY <2>2 DEF Terminals
  <2>. HIDE DEF x
  <2>6. terminal'[t] = x
    BY <2>1 DEF IInv, Shapes
  <2>7. Ending(t)'
    BY <1>0, <1>1, <1>3, <2>3, <2>5, <2>6 DEF IInv, InOrder, Ending, Busy, Exists, Alive
  <2>. QED
    BY <1>0, <1>1, <2>1, <2>4, <2>7, TerminalTouched DEF IInv, Shapes, SameWork, Busy
<1>5. CASE /\ \/ terminal[t].output = 1 /\ ~terminal[t].session /\ ~Busy(t, "open")
              \/ terminal[t].output = 0 /\ ~Alive(t)
           /\ terminal' = [terminal EXCEPT ![t].ended = TRUE]
  <2>. DEFINE x == [terminal[t] EXCEPT !.ended = TRUE]
  <2>1. terminal' = [terminal EXCEPT ![t] = x]
    BY <1>5
  <2>2. /\ x \in Terminals /\ x.child = terminal[t].child /\ x.session = terminal[t].session
        /\ x.output = terminal[t].output /\ x.told = terminal[t].told
    BY <1>2 DEF Terminals
  <2>. HIDE DEF x
  <2>3. terminal'[t] = x
    BY <2>1 DEF IInv, Shapes
  <2>4. Ending(t)'
    BY <1>1, <1>3, <1>5, <2>2, <2>3 DEF IInv, InOrder, Ending, Busy, Exists, Alive
  <2>. QED
    BY <1>0, <1>1, <2>1, <2>2, <2>4, TerminalTouched DEF IInv, Shapes, SameWork, Busy
<1>. QED
  BY <1>4, <1>5 DEF ReaderThread

\* A child may end at any time.
LEMMA TerminalExitsKeeps == ASSUME IInv, NEW t \in Calls, TerminalExits(t) PROVE IInv'
<1>. DEFINE x == [terminal[t] EXCEPT !.child = "exited"]
<1>0. Alive(t) /\ Exists(t)
  BY DEF TerminalExits, Alive, Exists
<1>1. terminal' = [terminal EXCEPT ![t] = x] /\ Budget' /\ call' = call /\ run' = run
  BY Spending DEF TerminalExits, IInv
<1>2. terminal[t] \in Terminals
  BY <1>0, Entries DEF IInv
<1>3. /\ x \in Terminals /\ x.child = "exited" /\ x.session = terminal[t].session
      /\ x.output = terminal[t].output /\ x.channel = terminal[t].channel
      /\ x.ended = terminal[t].ended /\ x.told = terminal[t].told
  BY <1>2 DEF Terminals
<1>. HIDE DEF x
<1>4. terminal'[t] = x
  BY <1>1 DEF IInv, Shapes
<1>5. Ending(t)'
  BY <1>0, <1>1, <1>3, <1>4 DEF IInv, InOrder, Ending, Busy, Exists, Alive
<1>. QED
  BY <1>0, <1>1, <1>3, <1>5, TerminalTouched DEF IInv, Shapes, SameWork, Busy

\* A write reaches a child that is alive.
LEMMA WriteUnitKeeps == ASSUME IInv, NEW c \in Calls, WriteUnit(c) PROVE IInv'
<1>. DEFINE k == [call[c] EXCEPT !.rest = @ - 1]
<1>0. Busy(c, "write")
  BY DEF WriteUnit
<1>1. Budget' /\ run' = run
  BY Spending DEF WriteUnit, IInv
<1>2. call[c] \in [op : {"write"}, gen : Gens, term : Calls, rest : Nat]
  BY <1>0, Entries DEF IInv
<1>3. PICK t \in Calls : t = call[c].term
  BY <1>2
<1>4. CASE /\ Alive(t) /\ call[c].rest > 0
           /\ terminal' = [terminal EXCEPT ![t].input = @ + 1]
           /\ call' = [call EXCEPT ![c].rest = @ - 1]
  <2>. DEFINE x == [terminal[t] EXCEPT !.input = @ + 1]
  <2>1. k \in Requests /\ k.op = "write"
    BY <1>2, <1>4 DEF Requests
  <2>2. terminal' = [terminal EXCEPT ![t] = x] /\ call' = [call EXCEPT ![c] = k]
    BY <1>4
  <2>. HIDE DEF k
  <2>3. Exists(t)
    BY <1>4 DEF Alive, Exists
  <2>4. terminal[t] \in Terminals
    BY <1>3, <2>3, Entries DEF IInv
  <2>5. /\ x \in Terminals /\ x.child = terminal[t].child /\ x.session = terminal[t].session
        /\ x.output = terminal[t].output /\ x.channel = terminal[t].channel
        /\ x.ended = terminal[t].ended /\ x.told = terminal[t].told
    BY <2>4 DEF Terminals
  <2>. HIDE DEF x
  <2>6. call' \in [Calls -> Requests \cup {Idle, Done}] /\ SameWork
    BY <1>0, <2>1, <2>2 DEF IInv, Shapes, SameWork, Busy
  <2>7. terminal'[t] = x
    BY <1>3, <2>2 DEF IInv, Shapes
  <2>8. Ending(t)'
    BY <1>3, <2>3, <2>5, <2>6, <2>7 DEF IInv, InOrder, Ending, SameWork, Exists, Alive
  <2>. QED
    BY <1>1, <1>3, <2>2, <2>3, <2>5, <2>6, <2>8, TerminalTouched
<1>5. CASE Answer(c) /\ UNCHANGED terminal
  <2>1. call' \in [Calls -> Requests \cup {Idle, Done}] /\ SameWork
    BY <1>0, <1>5 DEF IInv, Shapes, SameWork, Busy, Answer, Done
  <2>. QED
    BY <1>1, <1>5, <2>1, NothingTouched
<1>. QED
  BY <1>3, <1>4, <1>5 DEF WriteUnit

\* The end is told with the last of the output.
LEMMA read_ptyKeeps == ASSUME IInv, NEW c \in Calls, read_pty(c) PROVE IInv'
<1>0. Budget' /\ run' = run /\ call' \in [Calls -> Requests \cup {Idle, Done}] /\ SameWork
  BY AnsweredAtOnce, Spending DEF read_pty, IInv
<1>1. PICK d \in Calls :
         /\ Exists(d) /\ terminal[d].session
         /\ terminal' = [terminal EXCEPT ![d].channel = @ - Taken(d), ![d].told = @ \/ ~IsRunning(d)]
  BY DEF read_pty, Reached, Sessions
<1>. DEFINE q == [terminal[d] EXCEPT !.channel = @ - Taken(d)]
            x == [q EXCEPT !.told = @ \/ ~IsRunning(d)]
<1>2. terminal' = [terminal EXCEPT ![d] = x]
  BY <1>1
<1>3. terminal[d] \in Terminals
  BY <1>1, Entries DEF IInv
<1>4. /\ Taken(d) \in Nat /\ Taken(d) <= terminal[d].channel
      /\ terminal[d].channel < ReadMax \/ terminal[d].channel = 0 => Taken(d) = terminal[d].channel
  BY <1>3, Sizes DEF Terminals, Taken
<1>5. q \in Terminals
  BY <1>3, <1>4 DEF Terminals
<1>6. /\ q.child = terminal[d].child /\ q.session = terminal[d].session
      /\ q.output = terminal[d].output /\ q.channel = terminal[d].channel - Taken(d)
      /\ q.ended = terminal[d].ended /\ q.told = terminal[d].told
  BY <1>3 DEF Terminals
<1>. HIDE DEF q
<1>7. x \in Terminals
  BY <1>5 DEF Terminals
<1>8. /\ x.child = q.child /\ x.session = q.session /\ x.output = q.output
      /\ x.channel = q.channel /\ x.ended = q.ended
      /\ x.told => q.told \/ ~IsRunning(d)
  BY <1>5 DEF Terminals
<1>. HIDE DEF x
<1>9. ~IsRunning(d) => terminal[d].ended /\ ~Alive(d) /\ terminal[d].channel < ReadMax
  BY DEF IsRunning, output_closed
<1>10. /\ terminal[d].channel \in Nat
       /\ x.told => terminal[d].ended /\ ~Alive(d) /\ terminal[d].output = 0 /\ x.channel = 0
  <2>1. terminal[d].ended => ~Alive(d) /\ terminal[d].output = 0
    BY <1>1 DEF IInv, InOrder, Ending
  <2>2. terminal[d].told => terminal[d].ended /\ terminal[d].channel = 0
    BY <1>1 DEF IInv, InOrder, Ending
  <2>3. terminal[d].channel \in Nat
    BY <1>3 DEF Terminals
  <2>4. x.told => terminal[d].ended /\ (terminal[d].channel < ReadMax \/ terminal[d].channel = 0)
    BY <1>6, <1>8, <1>9, <2>2
  <2>. QED
    BY <1>4, <1>6, <1>8, <2>1, <2>3, <2>4
<1>11. terminal'[d] = x
  BY <1>2 DEF IInv, Shapes
<1>12. Ending(d)'
  BY <1>0, <1>1, <1>6, <1>8, <1>10, <1>11 DEF IInv, InOrder, Ending, SameWork, Exists, Alive
<1>. QED
  BY <1>0, <1>1, <1>2, <1>7, <1>12, TerminalTouched

\* A closed session has no child that is alive.
LEMMA close_ptyKeeps == ASSUME IInv, NEW c \in Calls, close_pty(c) PROVE IInv'
<1>0. Budget' /\ run' = run /\ call' \in [Calls -> Requests \cup {Idle, Done}] /\ SameWork
  BY AnsweredAtOnce, Spending DEF close_pty, IInv
<1>1. PICK d \in Calls, end \in {"exited", "abandoned"} :
         /\ Exists(d)
         /\ terminal' = [terminal EXCEPT ![d].session = FALSE, ![d].child = end]
  BY DEF close_pty, Reached, Sessions
<1>. DEFINE q == [terminal[d] EXCEPT !.session = FALSE]
            x == [q EXCEPT !.child = end]
<1>2. terminal' = [terminal EXCEPT ![d] = x]
  BY <1>1
<1>3. terminal[d] \in Terminals
  BY <1>1, Entries DEF IInv
<1>4. /\ q \in Terminals /\ q.output = terminal[d].output /\ q.channel = terminal[d].channel
      /\ ~q.session /\ q.ended = terminal[d].ended /\ q.told = terminal[d].told
  BY <1>3 DEF Terminals
<1>. HIDE DEF q
<1>5. /\ x \in Terminals /\ x.output = q.output /\ x.channel = q.channel /\ x.child = end
      /\ x.session = q.session /\ x.ended = q.ended /\ x.told = q.told
  BY <1>4 DEF Terminals
<1>. HIDE DEF x
<1>6. terminal'[d] = x
  BY <1>2 DEF IInv, Shapes
<1>7. Ending(d)'
  BY <1>0, <1>1, <1>4, <1>5, <1>6 DEF IInv, InOrder, Ending, SameWork, Exists, Alive
<1>. QED
  BY <1>0, <1>1, <1>2, <1>5, <1>7, TerminalTouched

\* A reload takes nothing from the requests.
LEMMA ReplaceKeeps == ASSUME IInv, Replace PROVE IInv'
<1>1. Budget'
  BY DEF IInv, Budget, Replace, Spend
<1>. QED
  BY <1>1, NothingTouched DEF Replace, SameWork, IInv, Shapes, Busy

\* The last request of a generation ends its children with their sessions.
LEMMA dropKeeps == ASSUME IInv, NEW g \in Gens, drop(g) PROVE IInv'
<1>1. Budget' /\ call' = call /\ run' = run
  BY Spending DEF drop, IInv
<1>2. ASSUME NEW t \in Calls
      PROVE  terminal'[t] \in Terminals \cup {None} /\ InOrder(t)'
  <2>1. CASE terminal'[t] = terminal[t]
    BY <1>1, <2>1 DEF IInv, Shapes, InOrder, Working, Output, Ending, Busy, Started, Exists, Alive
  <2>2. CASE t \in Sessions(g) /\ terminal'[t] = Dropped(terminal[t])
    <3>. DEFINE q == [terminal[t] EXCEPT !.session = FALSE]
                x == [q EXCEPT !.child = "exited"]
    <3>1. terminal'[t] = x
      BY <2>2 DEF Dropped
    <3>2. Exists(t)
      BY <2>2 DEF Sessions
    <3>3. terminal[t] \in Terminals
      BY <3>2, Entries DEF IInv
    <3>4. /\ q \in Terminals /\ q.output = terminal[t].output /\ q.channel = terminal[t].channel
          /\ ~q.session /\ q.ended = terminal[t].ended /\ q.told = terminal[t].told
      BY <3>3 DEF Terminals
    <3>. HIDE DEF q
    <3>5. /\ x \in Terminals /\ x.output = q.output /\ x.channel = q.channel /\ x.child = "exited"
          /\ x.session = q.session /\ x.ended = q.ended /\ x.told = q.told
      BY <3>4 DEF Terminals
    <3>. HIDE DEF x
    <3>6. Working(t)' /\ Output(t)'
      BY <1>1, <3>1, <3>5 DEF IInv, InOrder, Working, Output, Busy, Started, Exists
    <3>7. Ending(t)'
      BY <1>1, <3>1, <3>2, <3>4, <3>5 DEF IInv, InOrder, Ending, Busy, Exists, Alive
    <3>. QED
      BY <3>1, <3>5, <3>6, <3>7 DEF InOrder
  <2>. QED
    BY <2>1, <2>2 DEF drop
<1>3. terminal' \in [Calls -> Terminals \cup {None}]
  BY <1>2 DEF drop
<1>. QED
  BY <1>1, <1>2, <1>3 DEF IInv, Shapes

-----------------------------------------------------------------------------
\* At first there is nothing.
LEMMA InitialInvariant == Init => IInv
<1>. SUFFICES ASSUME Init PROVE IInv
  OBVIOUS
<1>1. Budget
  BY RunnerAssumption DEF Init, Budget, Gens
<1>2. Shapes
  BY DEF Init, Shapes
<1>3. \A c \in Calls : InOrder(c)
  BY DEF Init, InOrder, Working, Output, Ending, Busy, Started, Exists, Idle, None
<1>. QED
  BY <1>1, <1>2, <1>3 DEF IInv

\* No step breaks the invariant.
LEMMA InvariantKept == IInv /\ [Next]_vars => IInv'
<1>. SUFFICES ASSUME IInv, [Next]_vars PROVE IInv'
  OBVIOUS
<1>1. CASE UNCHANGED vars
  BY <1>1 DEF vars, IInv, Budget, Shapes, InOrder, Working, Output, Ending, Busy, Started, Exists, Alive
<1>2. CASE \E c \in Calls :
        \/ allowed_command(c) \/ execute(c) \/ Process(c) \/ drain(c) \/ try_wait(c) \/ collect(c)
        \/ open_pty(c) \/ InsertSession(c) \/ write_pty(c) \/ WriteUnit(c)
  BY <1>2, allowed_commandKeeps, executeKeeps, ProcessKeeps, drainKeeps, try_waitKeeps,
     collectKeeps, open_ptyKeeps, InsertSessionKeeps, write_ptyKeeps, WriteUnitKeeps
<1>3. CASE \E c \in Calls :
        \/ read_pty(c) \/ resize_pty(c) \/ close_pty(c) \/ SessionMissing(c)
        \/ ChildEchoes(c) \/ ReaderThread(c) \/ TerminalExits(c)
  BY <1>3, read_ptyKeeps, resize_ptyKeeps, close_ptyKeeps, SessionMissingKeeps,
     ChildEchoesKeeps, ReaderThreadKeeps, TerminalExitsKeeps
<1>4. CASE Replace \/ \E g \in Gens : drop(g)
  BY <1>4, ReplaceKeeps, dropKeeps
<1>. QED
  BY <1>1, <1>2, <1>3, <1>4 DEF Next

\* The invariant holds in every state.
LEMMA Invariant == Spec => []IInv
BY InitialInvariant, InvariantKept, PTL DEF Spec

\* A success of execute is the whole output of a process that ended by itself
\* and took its whole input: what is kept of the output is what was written
\* (Output), and the answer comes after the joins.
THEOREM SuccessIsComplete == Spec => []ResultIsComplete
<1>1. ASSUME IInv, NEW c \in Calls, Started(c), run[c].result = "ok"
      PROVE  run[c].child = "exited" /\ ~run[c].input /\ run[c].kept = run[c].written
  <2>1. run[c] \in Runs
    BY <1>1, Entries DEF IInv
  <2>2. Output(c)
    BY <1>1 DEF IInv, InOrder
  <2>. QED
    BY <1>1, <2>1, <2>2 DEF Runs, Output
<1>2. IInv => ResultIsComplete
  BY <1>1 DEF ResultIsComplete
<1>. QED
  BY <1>2, Invariant, PTL

\* Whoever read in read_pty that a terminal has ended has read all of its
\* output before.
THEOREM EndComesLast == Spec => []EndIsToldLast
<1>1. IInv => EndIsToldLast
  BY DEF IInv, InOrder, Ending, EndIsToldLast
<1>. QED
  BY <1>1, Invariant, PTL

\* No child runs without a session or a request that owns it, through reloads,
\* drops and closes, unless a system call failed.
THEOREM ChildrenAreOwned == Spec => []NoOrphanProcess
<1>1. IInv => NoOrphanProcess
  BY DEF IInv, InOrder, Output, Ending, NoOrphanProcess
<1>. QED
  BY <1>1, Invariant, PTL

==============================================================================
