------------------------------ MODULE EventHub ------------------------------
(***************************************************************************)
(* The frontend event channel: the hub every host thread publishes into    *)
(* (event_hub.rs), the long-poll handler in front of it (gateway.rs,       *)
(* `events`) and the poll loop of the page (BRIDGE_SCRIPT, `poll`).        *)
(*                                                                         *)
(* The VecDeque of retained events is the function `events` from the ids   *)
(* it holds to their target window; it is pushed in id order, so its       *)
(* front is its least id and its back the greatest.  Names and payloads    *)
(* are not represented.  An HTTP poll is one program counter per window:   *)
(* the page keeps at most one poll in flight.                              *)
(***************************************************************************)
EXTENDS Integers, FiniteSets

CONSTANTS Windows,           \* windows whose page polls
          Targets,           \* what an event can be addressed to
          Broadcast,         \* the target of an event with window_id = None
          EventHistoryLimit, \* EVENT_HISTORY_LIMIT (256)
          MaxEvents,         \* bound: events published
          MaxLost,           \* bound: polls that fail on the way
          MaxLoads           \* bound: page reloads

ASSUME HubAssumption == /\ Broadcast \notin Windows
                        /\ Windows \cup {Broadcast} \subseteq Targets
                        /\ EventHistoryLimit \in Nat \ {0}
                        /\ MaxEvents \in Nat
                        /\ MaxLost \in Nat
                        /\ MaxLoads \in Nat

VARIABLES next_id,    \* EventState.next_id
          events,     \* EventState.events: retained id -> target
          unnotified, \* ids pushed whose notify_waiters() has not run yet
          woken,      \* window -> its Notified future has been completed
          pc,         \* window -> where its poll is
          cursor,     \* window -> the page's cursor
          reply,      \* window -> the EventPollResponse on its way
          lost, loads,
          \* observation only
          log,        \* every id ever published -> target
          checked,    \* window -> next_id at the handler's last look
          seen,       \* window -> ids dispatched to this page's listeners
          missed,     \* window -> ids gone from the history when looked for
          raced       \* window -> ids published behind an expiring poll

hub == <<next_id, events, unnotified>>
ghosts == <<log, checked, seen, missed, raced>>
vars == <<next_id, events, unnotified, woken, pc, cursor, reply, lost, loads,
          log, checked, seen, missed, raced>>

PollStates == {"idle", "arm", "check", "await", "waiting", "late", "replied",
               "backoff"}
NoReply == [cursor |-> 0, events |-> {}]

Addressed(id, w) == log[id] \in {w, Broadcast}

\* The front of the deque is dropped while it is longer than the limit.
Retained(ids) ==
    {i \in ids : Cardinality({j \in ids : i <= j}) <= EventHistoryLimit}

\* Mutant: the event at the cursor is taken again.
events_from(after, w) ==
    {i \in DOMAIN events : i >= after /\ events[i] \in {w, Broadcast}}

\* events_after: ids after the cursor, for this window or for every window.
events_after(after, w) ==
    {i \in DOMAIN events : i > after /\ events[i] \in {w, Broadcast}}

Last(ids) == CHOOSE i \in ids : \A j \in ids : j <= i

-----------------------------------------------------------------------------
Init == /\ next_id = 0
        /\ events = [i \in {} |-> Broadcast]
        /\ unnotified = {}
        /\ woken = [w \in Windows |-> FALSE]
        /\ pc = [w \in Windows |-> "idle"]
        /\ cursor = [w \in Windows |-> 0]
        /\ reply = [w \in Windows |-> NoReply]
        /\ lost = 0
        /\ loads = 0
        /\ log = [i \in {} |-> Broadcast]
        /\ checked = [w \in Windows |-> 0]
        /\ seen = [w \in Windows |-> {}]
        /\ missed = [w \in Windows |-> {}]
        /\ raced = [w \in Windows |-> {}]

\* publish, up to drop(state): one critical section.
publish(t) ==
    /\ next_id < MaxEvents
    /\ next_id' = next_id + 1
    /\ LET ids == (DOMAIN events) \cup {next_id'}
       IN events' = [i \in Retained(ids) |-> IF i = next_id' THEN t ELSE events[i]]
    /\ unnotified' = unnotified \cup {next_id'}
    /\ log' = [i \in 1..next_id' |-> IF i = next_id' THEN t ELSE log[i]]
    /\ raced' = [w \in Windows |->
                    IF pc[w] = "late" /\ t \in {w, Broadcast}
                    THEN raced[w] \cup {next_id'} ELSE raced[w]]
    /\ UNCHANGED <<woken, pc, cursor, reply, lost, loads, checked, seen, missed>>

\* Mutant: only futures that are already being awaited are completed.
notify_polled_waiters(id) ==
    /\ id \in unnotified
    /\ unnotified' = unnotified \ {id}
    /\ woken' = [w \in Windows |-> woken[w] \/ pc[w] = "waiting"]
    /\ UNCHANGED <<next_id, events, pc, cursor, reply, lost, loads, ghosts>>

\* publish, the notify_waiters() after the lock is released.  A Notified future
\* is completed from the moment it is created, polled or not.
notify_waiters(id) ==
    /\ id \in unnotified
    /\ unnotified' = unnotified \ {id}
    /\ woken' = [w \in Windows |-> \/ woken[w]
                                   \/ pc[w] \in {"check", "await", "waiting"}]
    /\ UNCHANGED <<next_id, events, pc, cursor, reply, lost, loads, ghosts>>

\* The page sends { after: cursor, windowId }.
Fetch(w) ==
    /\ pc[w] = "idle"
    /\ pc' = [pc EXCEPT ![w] = "arm"]
    /\ UNCHANGED <<hub, woken, cursor, reply, lost, loads, ghosts>>

\* The head of the loop in `poll`: let notified = self.notify.notified().
Arm(w) ==
    /\ pc[w] = "arm"
    /\ woken' = [woken EXCEPT ![w] = FALSE]
    /\ pc' = [pc EXCEPT ![w] = "check"]
    /\ UNCHANGED <<hub, cursor, reply, lost, loads, ghosts>>

\* events_after under the lock; a non-empty answer fixes the cursor too.
Check(w) ==
    /\ pc[w] = "check"
    /\ LET found == events_after(cursor[w], w)
       IN IF found # {}
          THEN /\ reply' = [reply EXCEPT ![w] = [cursor |-> Last(found), events |-> found]]
               /\ pc' = [pc EXCEPT ![w] = "replied"]
          ELSE /\ pc' = [pc EXCEPT ![w] = "await"]
               /\ UNCHANGED reply
    /\ checked' = [checked EXCEPT ![w] = next_id]
    /\ missed' = [missed EXCEPT ![w] =
                     @ \cup {i \in 1..next_id : /\ i > cursor[w]
                                             /\ i \notin DOMAIN events
                                             /\ Addressed(i, w)}]
    /\ UNCHANGED <<hub, woken, cursor, lost, loads, log, seen, raced>>

\* remaining is not zero: tokio::time::timeout(remaining, notified).await.
Await(w) ==
    /\ pc[w] = "await"
    /\ pc' = [pc EXCEPT ![w] = "waiting"]
    /\ UNCHANGED <<hub, woken, cursor, reply, lost, loads, ghosts>>

\* remaining.is_zero(): the poll ends without looking at the future again.
Expire(w) ==
    /\ pc[w] = "await"
    /\ pc' = [pc EXCEPT ![w] = "late"]
    /\ raced' = [raced EXCEPT ![w] =
                     @ \cup {i \in 1..next_id : i > checked[w] /\ Addressed(i, w)}]
    /\ UNCHANGED <<hub, woken, cursor, reply, lost, loads, log, checked, seen, missed>>

Wake(w) ==
    /\ pc[w] = "waiting"
    /\ woken[w]
    /\ woken' = [woken EXCEPT ![w] = FALSE]
    /\ pc' = [pc EXCEPT ![w] = "arm"]
    /\ UNCHANGED <<hub, cursor, reply, lost, loads, ghosts>>

\* The deadline; a completed future wins over it.
Timeout(w) ==
    /\ pc[w] = "waiting"
    /\ ~woken[w]
    /\ pc' = [pc EXCEPT ![w] = "late"]
    /\ raced' = [raced EXCEPT ![w] =
                     @ \cup {i \in unnotified : i > checked[w] /\ Addressed(i, w)}]
    /\ UNCHANGED <<hub, woken, cursor, reply, lost, loads, log, checked, seen, missed>>

\* The handler answers an empty poll with the hub's latest_id(), which it reads
\* in a critical section of its own.
latest_id(w) ==
    /\ pc[w] = "late"
    /\ reply' = [reply EXCEPT ![w] = [cursor |-> next_id, events |-> {}]]
    /\ pc' = [pc EXCEPT ![w] = "replied"]
    /\ UNCHANGED <<hub, woken, cursor, lost, loads, ghosts>>

\* cursor = envelope.cursor; every event is dispatched.
Receive(w) ==
    /\ pc[w] = "replied"
    /\ cursor' = [cursor EXCEPT ![w] = reply[w].cursor]
    /\ seen' = [seen EXCEPT ![w] = @ \cup reply[w].events]
    /\ pc' = [pc EXCEPT ![w] = "idle"]
    /\ reply' = [reply EXCEPT ![w] = NoReply]
    /\ UNCHANGED <<hub, woken, lost, loads, log, checked, missed, raced>>

\* The fetch throws or is not ok: the page waits 250 ms and keeps its cursor.
Fail(w) ==
    /\ lost < MaxLost
    /\ pc[w] \notin {"idle", "backoff"}
    /\ lost' = lost + 1
    /\ pc' = [pc EXCEPT ![w] = "backoff"]
    /\ reply' = [reply EXCEPT ![w] = NoReply]
    /\ UNCHANGED <<hub, woken, cursor, loads, ghosts>>

\* Mutant: a failed poll ends the page's loop.
NoRetry(w) ==
    /\ pc[w] = "backoff"
    /\ UNCHANGED vars

Retry(w) ==
    /\ pc[w] = "backoff"
    /\ pc' = [pc EXCEPT ![w] = "idle"]
    /\ UNCHANGED <<hub, woken, cursor, reply, lost, loads, ghosts>>

\* The page is loaded again: the bridge script starts over with cursor = 0.
Load(w) ==
    /\ loads < MaxLoads
    /\ loads' = loads + 1
    /\ cursor' = [cursor EXCEPT ![w] = 0]
    /\ pc' = [pc EXCEPT ![w] = "idle"]
    /\ seen' = [seen EXCEPT ![w] = {}]
    /\ missed' = [missed EXCEPT ![w] = {}]
    /\ raced' = [raced EXCEPT ![w] = {}]
    /\ reply' = [reply EXCEPT ![w] = NoReply]
    /\ UNCHANGED <<hub, woken, lost, log, checked>>

Step(w) == \/ Fetch(w) \/ Arm(w) \/ Check(w) \/ Await(w) \/ Wake(w)
           \/ Timeout(w) \/ latest_id(w) \/ Receive(w) \/ Retry(w)

Next == \/ \E t \in Targets : publish(t)
        \/ \E id \in unnotified : notify_waiters(id)
        \/ \E w \in Windows : Step(w) \/ Expire(w) \/ Fail(w) \/ Load(w)

\* The publishing thread goes on to notify; the runtime polls the handler, its
\* timer fires after EVENT_POLL_TIMEOUT, and the page's loop never leaves.
Fairness == /\ WF_vars(\E id \in unnotified : notify_waiters(id))
            /\ \A w \in Windows : WF_vars(Step(w))

Spec == Init /\ [][Next]_vars /\ Fairness

-----------------------------------------------------------------------------
TypeOK ==
    /\ next_id \in Nat
    /\ DOMAIN events \subseteq 1..next_id
    /\ events \in [DOMAIN events -> Targets]
    /\ log \in [1..next_id -> Targets]
    /\ unnotified \subseteq 1..next_id
    /\ woken \in [Windows -> BOOLEAN]
    /\ pc \in [Windows -> PollStates]
    /\ cursor \in [Windows -> 0..next_id]
    /\ checked \in [Windows -> 0..next_id]
    /\ reply \in [Windows -> [cursor : 0..next_id, events : SUBSET (1..next_id)]]
    /\ lost \in 0..MaxLost
    /\ loads \in 0..MaxLoads
    /\ seen \in [Windows -> SUBSET (1..next_id)]
    /\ missed \in [Windows -> SUBSET (1..next_id)]
    /\ raced \in [Windows -> SUBSET (1..next_id)]

\* What the page's cursor has passed has been dispatched, unless the event had
\* left the bounded history when the handler looked, or was published in the gap
\* between a poll's last look and the handler's latest_id().  In particular no
\* wakeup is lost between the look and the wait: `notified` is created first.
SkippedOnlyIfEvictedOrRaced ==
    \A w \in Windows : \A id \in 1..cursor[w] :
        Addressed(id, w) => id \in seen[w] \cup missed[w] \cup raced[w]

\* One page sees no event twice and none after a later one, whatever polls
\* failed and were repeated in between (cursor and batch move together).
DispatchedOnceInOrder ==
    [][\A w \in Windows : pc[w] = "replied" /\ pc'[w] = "idle" /\ loads' = loads =>
          \A i \in seen[w], j \in reply[w].events : i < j]_vars

\* An event reaches every page it is addressed to, or is accounted for.
EventuallyDispatched ==
    \A w \in Windows : \A id \in 1..MaxEvents :
        (id <= next_id /\ Addressed(id, w))
            ~> (id \in seen[w] \cup missed[w] \cup raced[w])
=============================================================================
