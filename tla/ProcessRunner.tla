---------------------------- MODULE ProcessRunner -----------------------------
(***************************************************************************)
(* The authorized processes and terminals of process_runner.rs as the      *)
(* gateway's request threads use them.  Every generation of the native     *)
(* services has its own sessions and its own counter of session numbers;   *)
(* a reload replaces the generation that new requests use, and the last    *)
(* request to let go of a replaced one drops it.                           *)
(***************************************************************************)
EXTENDS Integers, FiniteSets

CONSTANTS
    MaxOutput,      \* output kept of a process (MAX_IO)
    Channel,        \* chunks a terminal's channel holds (64)
    ReadMax,        \* chunks after which a read stops (256 KiB)
    PtyInput,       \* what a terminal takes before its child reads
    MaxWrite,       \* the longest terminal write
    MaxCalls,       \* requests of the pages
    MaxRuns,        \* processes among them
    MaxTerminals,   \* terminals opened
    MaxReloads,
    MaxFaults       \* failing system calls

ASSUME RunnerAssumption ==
    {MaxOutput, Channel, ReadMax, PtyInput, MaxWrite, MaxCalls, MaxRuns, MaxTerminals, MaxReloads, MaxFaults} \subseteq Nat

Calls == 1..MaxCalls
Gens == 1..(MaxReloads + 1)

VARIABLES
    current,            \* the generation the gateway hands out
    next_session_id,    \* generation -> its counter
    call,               \* call -> where the request is
    terminal,           \* the terminals by the call that opened them
    run,                \* the processes by the call that runs them
    left

vars == <<current, next_session_id, call, terminal, run, left>>

Idle == [op |-> "none"]
Done == [op |-> "done"]
None == [child |-> "none"]

Init ==
    /\ current = 1
    /\ next_session_id = [g \in Gens |-> 1]
    /\ call = [c \in Calls |-> Idle]
    /\ terminal = [c \in Calls |-> None]
    /\ run = [c \in Calls |-> None]
    /\ left = [run |-> MaxRuns, terminal |-> MaxTerminals, reload |-> MaxReloads, fault |-> MaxFaults]

Spend(kind) == left[kind] > 0 /\ left' = [left EXCEPT ![kind] = @ - 1]
SpendOnFault(kind) ==
    /\ left[kind] > 0 /\ left.fault > 0
    /\ left' = [left EXCEPT ![kind] = @ - 1, !.fault = @ - 1]
Keep == UNCHANGED left

\* dispatch: the requests start in the order of their numbers.
Fresh(c) == call[c] = Idle /\ \A d \in Calls : d < c => call[d] # Idle
Busy(c, op) == call[c].op = op
Running(c) == call[c].op \notin {"none", "done"}
Answer(c) == call' = [call EXCEPT ![c] = Done]

\* A command that is not declared, or arguments its policy does not allow:
\* nothing is started.
allowed_command(c) ==
    /\ Fresh(c)
    /\ Answer(c)
    /\ Keep /\ UNCHANGED <<current, next_session_id, terminal, run>>

-----------------------------------------------------------------------------
(* execute: a process, its output, and the request that waits for it.  A      *)
(* process that ends may leave its pipes to a process of its own.             *)

execute(c) ==
    /\ Fresh(c)
    /\ \/ /\ run' = [run EXCEPT ![c] = [child |-> "alive", pipes |-> TRUE, input |-> TRUE, written |-> 0,
                                        unread |-> 0, kept |-> 0, overflow |-> FALSE, result |-> "none"]]
          /\ call' = [call EXCEPT ![c] = [op |-> "run", gen |-> current, pc |-> "wait"]]
          /\ Spend("run")
       \/ /\ run' = [run EXCEPT ![c] = [child |-> "abandoned"]]
          /\ Answer(c) /\ SpendOnFault("run")
    /\ UNCHANGED <<current, next_session_id, terminal>>

Started(c) == run[c].child \notin {"none", "abandoned"}

\* The process: it writes, takes its input, ends, and its pipes are closed.
ChildWrites(c) ==
    /\ Started(c) /\ run[c].pipes /\ run[c].unread = 0 /\ run[c].written <= MaxOutput
    /\ run' = [run EXCEPT ![c].written = @ + 1, ![c].unread = 1]
ChildTakesInput(c) ==
    /\ Started(c) /\ run[c].child = "alive" /\ run[c].input
    /\ run' = [run EXCEPT ![c].input = FALSE]
ChildEnds(c) ==
    /\ Started(c) /\ run[c].child = "alive"
    /\ run' = [run EXCEPT ![c].child = "exited"]
PipesClose(c) ==
    /\ Started(c) /\ run[c].child # "alive" /\ run[c].pipes
    /\ run' = [run EXCEPT ![c].pipes = FALSE]
Process(c) ==
    /\ ChildWrites(c) \/ ChildTakesInput(c) \/ ChildEnds(c) \/ PipesClose(c)
    /\ Keep /\ UNCHANGED <<current, next_session_id, call, terminal>>

\* drain keeps what fits, and notes that something did not.
Overflows(c) == run[c].kept = MaxOutput

drain(c) ==
    /\ Started(c) /\ run[c].unread = 1
    /\ run' = [run EXCEPT ![c].unread = 0, ![c].kept = IF @ < MaxOutput THEN @ + 1 ELSE @,
                          ![c].overflow = @ \/ Overflows(c)]
    /\ Keep /\ UNCHANGED <<current, next_session_id, call, terminal>>

\* The loop of execute: the end of the process, or the deadline and a kill.
try_wait(c) ==
    /\ Busy(c, "run") /\ call[c].pc = "wait"
    /\ \/ run[c].child = "exited" /\ call' = [call EXCEPT ![c].pc = "collect"] /\ UNCHANGED run
       \/ /\ run[c].child = "alive"
          /\ run' = [run EXCEPT ![c].child = "killed"]
          /\ call' = [call EXCEPT ![c].pc = "discard"]
    /\ Keep /\ UNCHANGED <<current, next_session_id, terminal>>

\* The threads that feed and drain the process have ended.
Joined_child(c) == run[c].child # "alive"

Joined(c) == ~run[c].pipes /\ run[c].unread = 0

\* The joins, then the answer: an error after the deadline, when the process
\* left input unread, and when its output overflowed.
collect(c) ==
    /\ Busy(c, "run") /\ call[c].pc \in {"collect", "discard"} /\ Joined(c)
    /\ run' = [run EXCEPT ![c].result = IF call[c].pc = "discard" THEN "timeout"
                                        ELSE IF run[c].input THEN "unread"
                                        ELSE IF run[c].overflow THEN "too large" ELSE "ok"]
    /\ Answer(c)
    /\ Keep /\ UNCHANGED <<current, next_session_id, terminal>>

-----------------------------------------------------------------------------
(* Terminals.  The child echoes: it reads one unit of input and writes one    *)
(* chunk of output, for which the system has room for one.                    *)

Exists(t) == terminal[t].child # "none"
Alive(t) == terminal[t].child = "alive"

\* The sessions are locked by a write for as long as it lasts.
Sessions(g) == {d \in Calls : Exists(d) /\ terminal[d].gen = g /\ terminal[d].session}
Unlocked(g) == ~\E d \in Calls : Busy(d, "write") /\ call[d].gen = g

\* open_pty starts the child, then stores its session.  A failure in between
\* leaves the child.
open_pty(c) ==
    /\ Fresh(c)
    /\ LET opened == [gen |-> current, id |-> 0, session |-> FALSE, child |-> "alive", input |-> 0,
                      output |-> 0, channel |-> 0, ended |-> FALSE, told |-> FALSE]
       IN  \/ /\ terminal' = [terminal EXCEPT ![c] = opened]
              /\ call' = [call EXCEPT ![c] = [op |-> "open", gen |-> current]]
              /\ Spend("terminal")
           \/ /\ terminal' = [terminal EXCEPT ![c] = [opened EXCEPT !.child = "abandoned", !.ended = TRUE]]
              /\ Answer(c) /\ SpendOnFault("terminal")
    /\ UNCHANGED <<current, next_session_id, run>>

\* The number of a new session.
NewId(g) == next_session_id[g]

InsertSession(c) ==
    LET g == call[c].gen IN
    /\ Busy(c, "open") /\ Unlocked(g)
    /\ terminal' = [terminal EXCEPT ![c].session = TRUE, ![c].id = NewId(g)]
    /\ next_session_id' = [next_session_id EXCEPT ![g] = @ + 1]
    /\ Answer(c)
    /\ Keep /\ UNCHANGED <<current, run>>

\* The session a page reaches with the number it was given for t.
Given(t) == Exists(t) /\ terminal[t].id > 0
Reached(t) == {d \in Sessions(current) : terminal[d].id = terminal[t].id}

\* The child, and the thread that reads its output: it sends a chunk when the
\* channel has room, and ends when nobody receives, or with the output.
ChildEchoes(t) ==
    /\ Alive(t) /\ terminal[t].input > 0 /\ terminal[t].output = 0
    /\ terminal' = [terminal EXCEPT ![t].input = @ - 1, ![t].output = 1]
    /\ Keep /\ UNCHANGED <<current, next_session_id, call, run>>

ReaderThread(t) ==
    /\ Exists(t) /\ ~terminal[t].ended
    /\ \/ /\ terminal[t].output = 1 /\ (terminal[t].session \/ Busy(t, "open"))
          /\ terminal[t].channel < Channel
          /\ terminal' = [terminal EXCEPT ![t].output = 0, ![t].channel = @ + 1]
       \/ /\ \/ terminal[t].output = 1 /\ ~terminal[t].session /\ ~Busy(t, "open")
             \/ terminal[t].output = 0 /\ ~Alive(t)
          /\ terminal' = [terminal EXCEPT ![t].ended = TRUE]
    /\ Keep /\ UNCHANGED <<current, next_session_id, call, run>>

TerminalExits(t) ==
    /\ Alive(t)
    /\ terminal' = [terminal EXCEPT ![t].child = "exited"]
    /\ Keep /\ UNCHANGED <<current, next_session_id, call, run>>

\* write_pty writes all its data under the lock of the sessions.
write_pty(c) ==
    /\ Fresh(c) /\ Unlocked(current)
    /\ \E t \in Calls : Given(t) /\ \E d \in Reached(t), n \in 1..MaxWrite :
        call' = [call EXCEPT ![c] = [op |-> "write", gen |-> current, term |-> d, rest |-> n]]
    /\ Keep /\ UNCHANGED <<current, next_session_id, terminal, run>>

WriteUnit(c) ==
    /\ Busy(c, "write")
    /\ LET t == call[c].term IN
        \/ /\ Alive(t) /\ call[c].rest > 0 /\ terminal[t].input < PtyInput
           /\ terminal' = [terminal EXCEPT ![t].input = @ + 1]
           /\ call' = [call EXCEPT ![c].rest = @ - 1]
        \/ (call[c].rest = 0 \/ ~Alive(t)) /\ Answer(c) /\ UNCHANGED terminal
    /\ Keep /\ UNCHANGED <<current, next_session_id, run>>

\* read_pty takes chunks until the channel is empty or the answer is full.
\* Only after the last chunk does it see that the channel is closed; until
\* then, and until the child has ended, the terminal is said to be running.
Taken(t) == IF terminal[t].channel < ReadMax THEN terminal[t].channel ELSE ReadMax
output_closed(t) == terminal[t].ended /\ terminal[t].channel < ReadMax

IsRunning_child(t) == Alive(t)

IsRunning(t) == Alive(t) \/ ~output_closed(t)

read_pty(c) ==
    /\ Fresh(c) /\ Unlocked(current)
    /\ \E t \in Calls : Given(t) /\ \E d \in Reached(t) :
        /\ terminal' = [terminal EXCEPT ![d].channel = @ - Taken(d), ![d].told = @ \/ ~IsRunning(d)]
        /\ Answer(c)
    /\ Keep /\ UNCHANGED <<current, next_session_id, run>>

\* close_pty removes the session, then kills its child.
close_pty(c) ==
    /\ Fresh(c) /\ Unlocked(current)
    /\ \E t \in Calls : Given(t) /\ \E d \in Reached(t) :
        /\ \/ terminal' = [terminal EXCEPT ![d].session = FALSE, ![d].child = "exited"] /\ Keep
           \/ /\ Alive(d) /\ Spend("fault")
              /\ terminal' = [terminal EXCEPT ![d].session = FALSE, ![d].child = "abandoned"]
        /\ Answer(c)
    /\ UNCHANGED <<current, next_session_id, run>>

\* resize_pty tells the child the new size, under the same lock.
resize_pty(c) ==
    /\ Fresh(c) /\ Unlocked(current)
    /\ \E t \in Calls : Given(t) /\ Reached(t) # {}
    /\ Answer(c)
    /\ Keep /\ UNCHANGED <<current, next_session_id, terminal, run>>

\* A number no session has, as after a close or a reload.
SessionMissing(c) ==
    /\ Fresh(c) /\ Unlocked(current)
    /\ \E t \in Calls : Given(t) /\ Reached(t) = {}
    /\ Answer(c)
    /\ Keep /\ UNCHANGED <<current, next_session_id, terminal, run>>

-----------------------------------------------------------------------------
(* Reload. *)

\* A reload hands out new services, with no sessions and a new counter.
Replace ==
    /\ Spend("reload")
    /\ current' = current + 1
    /\ UNCHANGED <<next_session_id, call, terminal, run>>

\* ProcessServices::drop: the children of a generation nobody refers to any
\* more are killed with it.
Dropped_session(t) == [t EXCEPT !.session = FALSE]

Dropped(t) == [t EXCEPT !.session = FALSE, !.child = "exited"]

InUse(g) == g = current \/ \E c \in Calls : Running(c) /\ call[c].gen = g

drop(g) ==
    /\ ~InUse(g) /\ Sessions(g) # {}
    /\ terminal' = [t \in Calls |-> IF t \in Sessions(g) THEN Dropped(terminal[t]) ELSE terminal[t]]
    /\ Keep /\ UNCHANGED <<current, next_session_id, call, run>>

-----------------------------------------------------------------------------
Next ==
    \/ \E c \in Calls :
        \/ allowed_command(c) \/ execute(c) \/ Process(c) \/ drain(c) \/ try_wait(c) \/ collect(c)
        \/ open_pty(c) \/ InsertSession(c) \/ write_pty(c) \/ WriteUnit(c)
        \/ read_pty(c) \/ resize_pty(c) \/ close_pty(c) \/ SessionMissing(c)
        \/ ChildEchoes(c) \/ ReaderThread(c) \/ TerminalExits(c)
    \/ Replace \/ \E g \in Gens : drop(g)

Spec == Init /\ [][Next]_vars

-----------------------------------------------------------------------------
(* Properties. *)

\* A result that is reported as a success is the whole output of a process
\* that ended by itself and took its whole input (execute, drain, collect).
ResultIsComplete ==
    \A c \in Calls : Started(c) /\ run[c].result = "ok" =>
        run[c].child = "exited" /\ ~run[c].input /\ run[c].kept = run[c].written

\* A page that was told its terminal has ended was given all of its output
\* before (read_pty).
EndIsToldLast ==
    \A t \in Calls : Exists(t) /\ terminal[t].told => terminal[t].output = 0 /\ terminal[t].channel = 0

\* No process outlives what it was started for: the child of a terminal runs
\* only while its session, or the request that opens it, exists, and the child
\* of a process request only during the request, except after a thread, a
\* handle or a kill failed (execute, open_pty, close_pty, Drop).  A session of
\* a replaced generation ends with the last request that uses it.
NoOrphanProcess ==
    /\ \A t \in Calls : Exists(t) /\ Alive(t) => terminal[t].session \/ Busy(t, "open")
    /\ \A c \in Calls : Started(c) /\ run[c].child = "alive" => Busy(c, "run")

==============================================================================
