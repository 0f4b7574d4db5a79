----------------------- MODULE GatewayServicesProofs -----------------------
(***************************************************************************)
(* Two services the gateway's request threads share: the event hub and the *)
(* file grants.                                                            *)
(*                                                                         *)
(* What a page's cursor promises, for any number of windows, events, lost  *)
(* polls and page loads and any length of the history: events are          *)
(* dispatched once and in order, and none is skipped without a reason.     *)
(*                                                                         *)
(* What a reference to a file promises, for any files, requests, dialogs,  *)
(* reloads and faults: a persistent one outlives dialogs, reloads and      *)
(* restarts, the store of them can be read, and writes are whole.          *)
(***************************************************************************)
EXTENDS EventHub, FileGrants, FiniteSetTheorems, WellFoundedInduction, TLAPS


\* The ids up to n that concern window w are accounted for, or in extra.
Covered(w, n, extra) ==
    \A id \in 1..n : Addressed(id, w) => id \in seen[w] \cup missed[w] \cup raced[w] \cup extra

\* The history holds what was published.
HistoryIsLog == \A i \in DOMAIN events : events[i] = log[i]

\* The cursor is ahead of what was dispatched and behind what is on its way.
CursorSplits ==
    \A w \in Windows :
        /\ \A i \in seen[w] : i <= cursor[w]
        /\ pc[w] = "replied" =>
              /\ cursor[w] <= reply[w].cursor
              /\ \A i \in reply[w].events : cursor[w] < i /\ i <= reply[w].cursor

\* How far a poll has looked, at each of its steps.
Coverage ==
    \A w \in Windows :
        /\ Covered(w, cursor[w], {})
        /\ pc[w] = "replied" => Covered(w, reply[w].cursor, reply[w].events)
        /\ pc[w] = "late" => Covered(w, next_id, {})
        /\ pc[w] \in {"await", "waiting"} => Covered(w, checked[w], {})

\* What was published since the look will wake the poll, or has woken it.
WakeupsPending ==
    \A w \in Windows :
        pc[w] \in {"await", "waiting"} /\ ~woken[w] =>
            \A id \in 1..next_id : id > checked[w] => id \in unnotified

IInv == TypeOK /\ HistoryIsLog /\ CursorSplits /\ Coverage /\ WakeupsPending

-----------------------------------------------------------------------------
\* A non-empty set of event ids has a last one.
LEMMA LastIsGreatest ==
    ASSUME NEW n \in Nat, NEW ids \in SUBSET (1..n), ids # {}
    PROVE  Last(ids) \in ids /\ \A j \in ids : j <= Last(ids)
<1>. DEFINE back == {b \in Nat : n - b \in ids}
<1>1. \A j \in ids : n - j \in back
  <2>1. \A j \in ids : j \in Int /\ n - j \in Nat /\ n - (n - j) = j
    OBVIOUS
  <2>. QED
    BY <2>1
<1>2. back \in SUBSET Nat /\ back # {}
  BY <1>1
<1>3. \A b \in back : b \in Nat /\ n - b \in ids
  OBVIOUS
<1>. HIDE DEF back
<1>4. PICK b \in back : \A c \in back : ~(<<c, b>> \in OpToRel(<, Nat))
  BY <1>2, NatLessThanWellFounded, WFMin, Zenon
<1>5. \A c \in back : b <= c
  <2>1. \A c \in back : ~(c < b)
    BY <1>2, <1>4 DEF OpToRel
  <2>. QED
    BY <1>2, <2>1
<1>6. n - b \in ids /\ \A j \in ids : j <= n - b
  BY <1>1, <1>3, <1>5
<1>. QED
  BY <1>6 DEF Last

-----------------------------------------------------------------------------
(* The steps. *)

\* An event is published: whoever is past its look has it raced or pending.
LEMMA PublishKeeps ==
    ASSUME IInv, NEW t \in Targets, publish(t)
    PROVE  IInv'
<1>. USE DEF IInv
<1>1. TypeOK'
  BY HubAssumption DEF publish, TypeOK, Retained
<1>2. HistoryIsLog'
  BY DEF publish, TypeOK, HistoryIsLog, Retained
<1>3. CursorSplits'
  BY DEF publish, TypeOK, CursorSplits
<1>4. Coverage'
  <2>. SUFFICES ASSUME NEW w \in Windows
                PROVE  /\ Covered(w, cursor[w], {})'
                       /\ pc'[w] = "replied" => Covered(w, reply[w].cursor, reply[w].events)'
                       /\ pc'[w] = "late" => Covered(w, next_id, {})'
                       /\ pc'[w] \in {"await", "waiting"} => Covered(w, checked[w], {})'
    BY DEF Coverage
  <2>1. \A id \in 1..next_id : Addressed(id, w)' => Addressed(id, w)
    BY DEF publish, TypeOK, Addressed
  <2>2. seen'[w] = seen[w] /\ missed'[w] = missed[w] /\ raced[w] \subseteq raced'[w]
    BY DEF publish, TypeOK
  <2>3. UNCHANGED <<pc, cursor, reply, checked>> /\ next_id' = next_id + 1
    BY DEF publish
  <2>4. /\ cursor[w] \in 0..next_id /\ checked[w] \in 0..next_id
        /\ reply[w].cursor \in 0..next_id /\ next_id \in Nat
    BY DEF TypeOK
  <2>5. ASSUME NEW n \in 0..next_id, NEW extra, Covered(w, n, extra)
        PROVE  \A id \in 1..n : Addressed(id, w)'
                  => id \in seen'[w] \cup missed'[w] \cup raced'[w] \cup extra
    <3>1. \A id \in 1..n : id \in 1..next_id
      BY <2>4
    <3>2. \A id \in 1..n : Addressed(id, w)
            => id \in seen[w] \cup missed[w] \cup raced[w] \cup extra
      BY <2>5 DEF Covered
    <3>. QED
      BY <3>1, <3>2, <2>1, <2>2
  <2>6. pc[w] = "late" => (log'[next_id'] \in {w, Broadcast} => next_id' \in raced'[w])
    BY <2>4 DEF publish, TypeOK, Addressed
  <2>7. pc[w] = "late" => Covered(w, next_id, {})'
    <3>1. SUFFICES ASSUME pc[w] = "late"
                   PROVE  Covered(w, next_id, {})'
      OBVIOUS
    <3>2. Covered(w, next_id, {})
      BY <3>1 DEF Coverage
    <3>3. \A id \in 1..next_id : Addressed(id, w)'
            => id \in seen'[w] \cup missed'[w] \cup raced'[w] \cup {}
      BY <3>2, <2>4, <2>5
    <3>4. \A id \in 1..next_id' : id \in 1..next_id \/ id = next_id'
      BY <2>3, <2>4
    <3>. QED
      BY <3>1, <3>3, <3>4, <2>6 DEF Covered, Addressed
  <2>8. /\ Covered(w, cursor[w], {})
        /\ pc[w] = "replied" => Covered(w, reply[w].cursor, reply[w].events)
        /\ pc[w] \in {"await", "waiting"} => Covered(w, checked[w], {})
    BY DEF Coverage
  <2>. QED
    BY <2>3, <2>4, <2>5, <2>7, <2>8 DEF Covered
<1>5. WakeupsPending'
  BY DEF publish, TypeOK, WakeupsPending
<1>. QED
  BY <1>1, <1>2, <1>3, <1>4, <1>5

\* The waiters are notified.
LEMMA NotifyKeeps ==
    ASSUME IInv, NEW id \in unnotified, notify_waiters(id)
    PROVE  IInv'
<1>. USE DEF IInv, ghosts
<1>1. TypeOK'
  BY DEF notify_waiters, TypeOK
<1>2. HistoryIsLog' /\ CursorSplits'
  BY DEF notify_waiters, HistoryIsLog, CursorSplits
<1>3. Coverage'
  BY DEF notify_waiters, Coverage, Covered, Addressed
<1>4. WakeupsPending'
  BY DEF notify_waiters, TypeOK, WakeupsPending
<1>. QED
  BY <1>1, <1>2, <1>3, <1>4

\* The steps of a poll that change nothing but where it is.
LEMMA PollMoves ==
    ASSUME IInv, NEW w \in Windows, Fetch(w) \/ Arm(w) \/ Await(w) \/ Wake(w) \/ Retry(w) \/ Fail(w)
    PROVE  IInv'
<1>. USE DEF IInv, hub, ghosts
<1>1. TypeOK'
  <2>1. CASE Fetch(w)
    BY <2>1 DEF Fetch, TypeOK, PollStates
  <2>2. CASE Arm(w)
    BY <2>2 DEF Arm, TypeOK, PollStates
  <2>3. CASE Await(w)
    BY <2>3 DEF Await, TypeOK, PollStates
  <2>4. CASE Wake(w)
    BY <2>4 DEF Wake, TypeOK, PollStates
  <2>5. CASE Retry(w)
    BY <2>5 DEF Retry, TypeOK, PollStates
  <2>6. CASE Fail(w)
    BY <2>6, HubAssumption DEF Fail, TypeOK, PollStates, NoReply
  <2>. QED
    BY <2>1, <2>2, <2>3, <2>4, <2>5, <2>6
<1>2. /\ UNCHANGED <<next_id, events, unnotified, cursor, log, checked, seen, missed, raced>>
      /\ \A v \in Windows : v # w => pc'[v] = pc[v] /\ reply'[v] = reply[v] /\ woken'[v] = woken[v]
      /\ pc'[w] \notin {"replied", "late"}
      /\ pc'[w] \in {"await", "waiting"} => pc[w] \in {"await", "waiting"} /\ woken'[w] = woken[w]
  BY DEF Fetch, Arm, Await, Wake, Retry, Fail, TypeOK
<1>3. HistoryIsLog'
  BY <1>2 DEF HistoryIsLog
<1>4. CursorSplits'
  BY <1>2 DEF CursorSplits
<1>5. Coverage'
  <2>. SUFFICES ASSUME NEW v \in Windows
                PROVE  /\ Covered(v, cursor[v], {})'
                       /\ pc'[v] = "replied" => Covered(v, reply[v].cursor, reply[v].events)'
                       /\ pc'[v] = "late" => Covered(v, next_id, {})'
                       /\ pc'[v] \in {"await", "waiting"} => Covered(v, checked[v], {})'
    BY DEF Coverage
  <2>1. CASE v = w
    BY <1>2, <2>1 DEF Coverage, Covered, Addressed
  <2>2. CASE v # w
    BY <1>2, <2>2 DEF Coverage, Covered, Addressed
  <2>. QED
    BY <2>1, <2>2
<1>6. WakeupsPending'
  BY <1>2 DEF WakeupsPending
<1>. QED
  BY <1>1, <1>3, <1>4, <1>5, <1>6

\* The poll ends: at its deadline, or at a wait whose future is not completed.
LEMMA LateKeeps ==
    ASSUME IInv, NEW w \in Windows, Expire(w) \/ Timeout(w)
    PROVE  IInv'
<1>. USE DEF IInv, hub
<1>1. TypeOK'
  BY DEF TypeOK, PollStates, Expire, Timeout
<1>2. HistoryIsLog' /\ CursorSplits'
  BY DEF Expire, Timeout, HistoryIsLog, CursorSplits, TypeOK
<1>3. Coverage'
  <2>1. /\ pc[w] \in {"await", "waiting"} /\ pc' = [pc EXCEPT ![w] = "late"]
        /\ UNCHANGED <<next_id, log, cursor, reply, checked, seen, missed>>
    BY DEF Expire, Timeout
  <2>2. /\ \A v \in Windows : raced[v] \subseteq raced'[v]
        /\ \A v \in Windows : v # w => raced'[v] = raced[v]
    BY DEF Expire, Timeout, TypeOK
  <2>3. \A id \in 1..next_id : id > checked[w] /\ Addressed(id, w) => id \in raced'[w]
    BY DEF Expire, Timeout, TypeOK, WakeupsPending
  <2>4. \A id \in 1..next_id : ~(id > checked[w]) => id \in 1..checked[w]
    BY DEF TypeOK
  <2>5. Covered(w, checked[w], {})
    BY <2>1 DEF Coverage
  <2>6. Covered(w, next_id, {})'
    BY <2>1, <2>2, <2>3, <2>4, <2>5 DEF Covered, Addressed
  <2>. QED
    BY <2>1, <2>2, <2>6 DEF Coverage, Covered, Addressed, TypeOK
<1>4. WakeupsPending'
  BY DEF Expire, Timeout, WakeupsPending, TypeOK
<1>. QED
  BY <1>1, <1>2, <1>3, <1>4

\* The look at the history.
LEMMA CheckKeeps ==
    ASSUME IInv, NEW w \in Windows, Check(w)
    PROVE  IInv'
<1>. USE DEF IInv, hub
<1>. DEFINE found == events_after(cursor[w], w)
<1>1. found \in SUBSET (1..next_id) /\ next_id \in Nat /\ \A i \in found : i > cursor[w]
  BY DEF TypeOK, events_after
<1>. DEFINE last == Last(found)
<1>2. found # {} => /\ last \in found /\ \A i \in found : i <= last
                    /\ last \in 1..next_id /\ last > cursor[w]
  <2>1. ASSUME found # {}
        PROVE  last \in found /\ \A i \in found : i <= last
    <3>. HIDE DEF found
    <3>. QED
      BY <1>1, <2>1, LastIsGreatest
  <2>. HIDE DEF found, last
  <2>. QED
    BY <1>1, <2>1
<1>3. /\ UNCHANGED <<next_id, events, unnotified, woken, cursor, lost, loads, log, seen, raced>>
      /\ checked' = [checked EXCEPT ![w] = next_id]
      /\ missed' = [missed EXCEPT ![w] =
            @ \cup {i \in 1..next_id : i > cursor[w] /\ i \notin DOMAIN events /\ Addressed(i, w)}]
      /\ found # {} => /\ reply' = [reply EXCEPT ![w] = [cursor |-> last, events |-> found]]
                       /\ pc' = [pc EXCEPT ![w] = "replied"]
      /\ found = {} => pc' = [pc EXCEPT ![w] = "await"] /\ UNCHANGED reply
  BY DEF Check
<1>4. \A id \in 1..next_id : Addressed(id, w) /\ id > cursor[w] => id \in found \cup missed'[w]
  BY <1>3 DEF TypeOK, HistoryIsLog, events_after, Addressed
<1>. HIDE DEF found, last
<1>5. /\ \A v \in Windows : v # w => /\ pc'[v] = pc[v] /\ reply'[v] = reply[v]
                                     /\ checked'[v] = checked[v] /\ missed'[v] = missed[v]
      /\ checked'[w] = next_id /\ missed[w] \subseteq missed'[w]
      /\ found # {} => pc'[w] = "replied" /\ reply'[w] = [cursor |-> last, events |-> found]
      /\ found = {} => pc'[w] = "await"
  BY <1>3 DEF TypeOK
<1>6. TypeOK'
  <2>1. found # {} => [cursor |-> last, events |-> found]
                        \in [cursor : 0..next_id, events : SUBSET (1..next_id)]
    BY <1>1, <1>2
  <2>2. reply' \in [Windows -> [cursor : 0..next_id, events : SUBSET (1..next_id)]]
    BY <1>3, <2>1 DEF TypeOK
  <2>3. pc' \in [Windows -> PollStates]
    BY <1>3 DEF TypeOK, PollStates
  <2>. QED
    BY <1>1, <1>3, <2>2, <2>3 DEF TypeOK
<1>7. HistoryIsLog'
  BY <1>3 DEF HistoryIsLog
<1>8. CursorSplits'
  <2>1. cursor[w] \in Nat /\ next_id \in Nat
    BY DEF TypeOK
  <2>2. found # {} => cursor[w] <= last
    BY <1>1, <1>2, <2>1
  <2>3. \A i \in found : cursor[w] < i
    BY <1>1, <2>1
  <2>. SUFFICES ASSUME NEW v \in Windows
                PROVE  /\ \A i \in seen'[v] : i <= cursor'[v]
                       /\ pc'[v] = "replied" =>
                             /\ cursor'[v] <= reply'[v].cursor
                             /\ \A i \in reply'[v].events : cursor'[v] < i /\ i <= reply'[v].cursor
    BY DEF CursorSplits
  <2>4. CASE v # w
    BY <1>3, <1>5, <2>4 DEF CursorSplits
  <2>5. CASE v = w /\ found # {}
    BY <1>2, <1>3, <1>5, <2>2, <2>3, <2>5 DEF CursorSplits
  <2>6. CASE v = w /\ found = {}
    BY <1>3, <1>5, <2>6 DEF CursorSplits
  <2>. QED
    BY <2>4, <2>5, <2>6
<1>9. Coverage'
  <2>. SUFFICES ASSUME NEW v \in Windows
                PROVE  /\ Covered(v, cursor[v], {})'
                       /\ pc'[v] = "replied" => Covered(v, reply[v].cursor, reply[v].events)'
                       /\ pc'[v] = "late" => Covered(v, next_id, {})'
                       /\ pc'[v] \in {"await", "waiting"} => Covered(v, checked[v], {})'
    BY DEF Coverage
  <2>1. CASE v # w
    BY <1>3, <1>5, <2>1 DEF Coverage, Covered, Addressed
  <2>2. CASE v = w
    <3>1. cursor[w] \in 0..next_id /\ Covered(w, cursor[w], {})
      BY DEF TypeOK, Coverage
    <3>2. \A id \in 1..next_id : Addressed(id, w)
            => id \in seen[w] \cup missed'[w] \cup raced[w] \cup found
      <4>1. \A id \in 1..next_id : id > cursor[w] \/ id \in 1..cursor[w]
        BY <1>1, <3>1
      <4>. QED
        BY <1>4, <1>5, <3>1, <4>1 DEF Covered
    <3>3. \A id \in 1..cursor[w] : id \in 1..next_id
      BY <1>1, <3>1
    <3>4. found # {} => \A id \in 1..last : id \in 1..next_id
      BY <1>1, <1>2
    <3>5. Covered(w, cursor[w], {})'
      BY <1>3, <1>5, <3>1 DEF Covered, Addressed
    <3>6. CASE found # {}
      BY <1>3, <1>5, <2>2, <3>2, <3>4, <3>5, <3>6 DEF Covered, Addressed
    <3>7. CASE found = {}
      BY <1>3, <1>5, <2>2, <3>2, <3>5, <3>7 DEF Covered, Addressed
    <3>. QED
      BY <3>6, <3>7
  <2>. QED
    BY <2>1, <2>2
<1>10. WakeupsPending'
  BY <1>1, <1>3, <1>5 DEF WakeupsPending
<1>. QED
  BY <1>6, <1>7, <1>8, <1>9, <1>10

\* The answer to an empty poll.
LEMMA LatestKeeps ==
    ASSUME IInv, NEW w \in Windows, latest_id(w)
    PROVE  IInv'
<1>. USE DEF IInv, hub, ghosts
<1>1. TypeOK'
  BY DEF latest_id, TypeOK, PollStates
<1>2. /\ UNCHANGED <<next_id, events, unnotified, woken, cursor, log, checked, seen, missed, raced>>
      /\ \A v \in Windows : v # w => pc'[v] = pc[v] /\ reply'[v] = reply[v]
      /\ pc[w] = "late" /\ pc'[w] = "replied" /\ reply'[w] = [cursor |-> next_id, events |-> {}]
  BY DEF latest_id, TypeOK
<1>3. HistoryIsLog' /\ WakeupsPending'
  BY <1>2 DEF HistoryIsLog, WakeupsPending
<1>4. CursorSplits'
  <2>. SUFFICES ASSUME NEW v \in Windows
                PROVE  /\ \A i \in seen'[v] : i <= cursor'[v]
                       /\ pc'[v] = "replied" =>
                             /\ cursor'[v] <= reply'[v].cursor
                             /\ \A i \in reply'[v].events : cursor'[v] < i /\ i <= reply'[v].cursor
    BY DEF CursorSplits
  <2>1. cursor[w] <= next_id
    BY DEF TypeOK
  <2>2. CASE v # w
    BY <1>2, <2>2 DEF CursorSplits
  <2>3. CASE v = w
    BY <1>2, <2>1, <2>3 DEF CursorSplits
  <2>. QED
    BY <2>2, <2>3
<1>5. Coverage'
  <2>. SUFFICES ASSUME NEW v \in Windows
                PROVE  /\ Covered(v, cursor[v], {})'
                       /\ pc'[v] = "replied" => Covered(v, reply[v].cursor, reply[v].events)'
                       /\ pc'[v] = "late" => Covered(v, next_id, {})'
                       /\ pc'[v] \in {"await", "waiting"} => Covered(v, checked[v], {})'
    BY DEF Coverage
  <2>1. CASE v = w
    BY <1>2, <2>1 DEF Coverage, Covered, Addressed
  <2>2. CASE v # w
    BY <1>2, <2>2 DEF Coverage, Covered, Addressed
  <2>. QED
    BY <2>1, <2>2
<1>. QED
  BY <1>1, <1>3, <1>4, <1>5

\* The page takes an answer.
LEMMA ReceiveKeeps ==
    ASSUME IInv, NEW w \in Windows, Receive(w)
    PROVE  IInv'
<1>. USE DEF IInv, hub
<1>1. TypeOK'
  BY DEF Receive, TypeOK, PollStates, NoReply
<1>2. /\ UNCHANGED <<next_id, events, unnotified, woken, log, checked, missed, raced>>
      /\ \A v \in Windows : v # w => /\ pc'[v] = pc[v] /\ reply'[v] = reply[v]
                                     /\ cursor'[v] = cursor[v] /\ seen'[v] = seen[v]
      /\ pc[w] = "replied" /\ pc'[w] = "idle"
      /\ cursor'[w] = reply[w].cursor /\ seen'[w] = seen[w] \cup reply[w].events
  BY DEF Receive, TypeOK
<1>3. HistoryIsLog' /\ WakeupsPending'
  BY <1>2 DEF HistoryIsLog, WakeupsPending
<1>4. CursorSplits'
  <2>1. /\ cursor[w] \in Nat /\ reply[w].cursor \in Nat
        /\ seen[w] \subseteq Nat
    BY DEF TypeOK
  <2>2. \A i \in seen'[w] : i <= cursor'[w]
    BY <1>2, <2>1 DEF CursorSplits
  <2>. QED
    BY <1>2, <2>2 DEF CursorSplits
<1>5. Coverage'
  <2>. SUFFICES ASSUME NEW v \in Windows
                PROVE  /\ Covered(v, cursor[v], {})'
                       /\ pc'[v] = "replied" => Covered(v, reply[v].cursor, reply[v].events)'
                       /\ pc'[v] = "late" => Covered(v, next_id, {})'
                       /\ pc'[v] \in {"await", "waiting"} => Covered(v, checked[v], {})'
    BY DEF Coverage
  <2>1. CASE v = w
    BY <1>2, <2>1 DEF Coverage, Covered, Addressed
  <2>2. CASE v # w
    BY <1>2, <2>2 DEF Coverage, Covered, Addressed
  <2>. QED
    BY <2>1, <2>2
<1>. QED
  BY <1>1, <1>3, <1>4, <1>5

\* The page is loaded again.
LEMMA LoadKeeps ==
    ASSUME IInv, NEW w \in Windows, Load(w)
    PROVE  IInv'
<1>. USE DEF IInv, hub
<1>1. TypeOK'
  BY HubAssumption DEF Load, TypeOK, PollStates, NoReply
<1>2. /\ UNCHANGED <<next_id, events, unnotified, woken, log, checked>>
      /\ \A v \in Windows : v # w =>
            /\ pc'[v] = pc[v] /\ reply'[v] = reply[v] /\ cursor'[v] = cursor[v]
            /\ seen'[v] = seen[v] /\ missed'[v] = missed[v] /\ raced'[v] = raced[v]
      /\ pc'[w] = "idle" /\ cursor'[w] = 0 /\ seen'[w] = {}
  BY DEF Load, TypeOK
<1>3. HistoryIsLog' /\ WakeupsPending'
  BY <1>2 DEF HistoryIsLog, WakeupsPending
<1>4. CursorSplits'
  BY <1>2 DEF CursorSplits
<1>5. Coverage'
  <2>. SUFFICES ASSUME NEW v \in Windows
                PROVE  /\ Covered(v, cursor[v], {})'
                       /\ pc'[v] = "replied" => Covered(v, reply[v].cursor, reply[v].events)'
                       /\ pc'[v] = "late" => Covered(v, next_id, {})'
                       /\ pc'[v] \in {"await", "waiting"} => Covered(v, checked[v], {})'
    BY DEF Coverage
  <2>1. CASE v = w
    <3>1. \A id \in 1..0 : FALSE
      OBVIOUS
    <3>. QED
      BY <1>2, <2>1, <3>1 DEF Covered
  <2>2. CASE v # w
    BY <1>2, <2>2 DEF Coverage, Covered, Addressed
  <2>. QED
    BY <2>1, <2>2
<1>. QED
  BY <1>1, <1>3, <1>4, <1>5

-----------------------------------------------------------------------------
\* Every step keeps the invariant.
LEMMA InvariantKept ==
    ASSUME IInv, [Next]_vars
    PROVE  IInv'
<1>1. CASE UNCHANGED vars
  BY <1>1 DEF vars, IInv, TypeOK, HistoryIsLog, CursorSplits, Coverage, Covered, Addressed, WakeupsPending
<1>2. CASE Next
  BY <1>2, PublishKeeps, NotifyKeeps, PollMoves, LateKeeps, CheckKeeps, LatestKeeps, ReceiveKeeps, LoadKeeps
     DEF Next, Step
<1>. QED
  BY <1>1, <1>2

\* It holds at the start.
LEMMA InitialInvariant ==
    ASSUME Init
    PROVE  IInv
<1>1. TypeOK
  BY HubAssumption DEF Init, TypeOK, PollStates, NoReply
<1>2. HistoryIsLog /\ CursorSplits /\ WakeupsPending
  BY DEF Init, HistoryIsLog, CursorSplits, WakeupsPending
<1>3. Coverage
  <2>1. \A id \in 1..0 : FALSE
    OBVIOUS
  <2>. QED
    BY <2>1 DEF Init, Coverage, Covered
<1>. QED
  BY <1>1, <1>2, <1>3 DEF IInv

\* What a page's cursor has passed was dispatched, had left the history, or was
\* published behind an expiring poll (event_hub.rs poll, gateway.rs events), for
\* any number of windows, events, lost polls and page loads.
THEOREM NothingElseSkipped == Spec => []SkippedOnlyIfEvictedOrRaced
<1>1. IInv => SkippedOnlyIfEvictedOrRaced
  BY DEF IInv, Coverage, Covered, SkippedOnlyIfEvictedOrRaced
<1>. QED
  BY <1>1, InitialInvariant, InvariantKept, PTL DEF Spec

\* A page dispatches no event twice and none after a later one, whatever polls
\* failed and were repeated (BRIDGE_SCRIPT poll), for any number of them.
THEOREM OnceAndInOrder == Spec => DispatchedOnceInOrder
<1>1. IInv => \A w \in Windows : pc[w] = "replied"
                => \A i \in seen[w], j \in reply[w].events : i < j
  <2>. SUFFICES ASSUME IInv, NEW w \in Windows, pc[w] = "replied",
                       NEW i \in seen[w], NEW j \in reply[w].events
                PROVE  i < j
    OBVIOUS
  <2>1. i \in Int /\ j \in Int /\ cursor[w] \in Int
    BY DEF IInv, TypeOK
  <2>2. i <= cursor[w] /\ cursor[w] < j
    BY DEF IInv, CursorSplits
  <2>. QED
    BY <2>1, <2>2
<1>2. IInv /\ [Next]_vars =>
        [\A w \in Windows : pc[w] = "replied" /\ pc'[w] = "idle" /\ loads' = loads =>
            \A i \in seen[w], j \in reply[w].events : i < j]_vars
  BY <1>1
<1>. QED
  BY <1>2, InitialInvariant, InvariantKept, PTL DEF Spec, DispatchedOnceInOrder

-----------------------------------------------------------------------------
\* The steps of a dialog at which its grants go to the store.
Storing == {"create", "write", "rename"}
Writing == {"write", "rename"}

DialogCalls ==
    [op : {"dialog"}, gen : Gens, pc : {"shown", "grant"} \cup Storing, access : {"Read", "ReadWrite"},
     persistent : BOOLEAN, paths : Seq(Paths), got : SUBSET Grants]
WriteCalls == [op : {"write"}, path : Paths, at : 0..MaxStream, attached : BOOLEAN, alone : BOOLEAN]

\* The shapes of the state; a reload that was paid for has a number left for
\* its generation.
GrantShapes ==
    /\ current \in Gens /\ loaded \in {current, current + 1}
    /\ left \in [dialog : Nat, reload : Nat, fault : Nat]
    /\ loaded + left.reload <= MaxReloads + 1
    /\ grants \in [Gens -> SUBSET Grants] /\ kept \in [Gens -> SUBSET Grants] /\ skipped \in [Gens -> SUBSET Grants]
    /\ store \in [ok : BOOLEAN, grants : SUBSET Grants]
    /\ call \in [Calls -> {Idle, Answered} \cup DialogCalls \cup WriteCalls]
    /\ temporary \subseteq Calls
    /\ held \subseteq [grant : Grants, persistent : BOOLEAN]
    /\ exists \subseteq Paths /\ file \in [Paths -> Seq({User} \cup Calls)]
    /\ overtaken \in BOOLEAN /\ mixed \in BOOLEAN

\* A dialog numbers its grants one after the other, and the one it is storing
\* is granted and kept by its generation.
InOrder(c) ==
    /\ call[c].gen <= current
    /\ IsFiniteSet(call[c].got)
    /\ Cardinality(call[c].got) + Len(call[c].paths) <= 2
    /\ \A r \in call[c].got : r.call = c /\ r.nth <= Cardinality(call[c].got)
    /\ call[c].pc = "shown" => call[c].got = {}
    /\ call[c].pc \in Storing =>
        /\ call[c].persistent /\ call[c].paths # <<>>
        /\ Pending(c) \in kept[call[c].gen]
        /\ Pending(c) \in grants[call[c].gen]

Numbered == \A c \in Calls : Busy(c, "dialog") => InOrder(c)

\* One dialog of a generation stores at a time, and nothing is added to what
\* was counted until it is published.
OneStores ==
    /\ \A c, d \in Calls :
        Busy(c, "dialog") /\ call[c].pc \in Storing /\ Busy(d, "dialog") /\ call[d].pc \in Storing
        /\ call[c].gen = call[d].gen => c = d
    /\ \A c \in Calls : Busy(c, "dialog") /\ call[c].pc \in Writing => ~TooMany(c)

\* Who has the temporary file open is writing it, and unless two generations
\* met there the writer has it alone.
TemporaryIsOwned ==
    /\ \A c \in temporary : Busy(c, "dialog") /\ call[c].pc \in Writing
    /\ mixed \/ /\ \A c \in Calls : Busy(c, "dialog") /\ call[c].pc \in Writing => c \in temporary
                /\ \A c, d \in temporary : c = d

\* The persistent grants a page has, or will have when its dialog is done.
Acquired(r) ==
    \/ \E h \in held : h.persistent /\ h.grant = r
    \/ \E c \in Calls : Busy(c, "dialog") /\ call[c].persistent /\ r \in call[c].got

\* What is kept or stored comes from requests that were started, and what a
\* generation skipped from requests to earlier ones.
KeptIsStarted ==
    /\ \A g \in Gens : skipped[g] \subseteq kept[g] /\ \A r \in kept[g] : call[r.call] # Idle
    /\ \A r \in store.grants : call[r.call] # Idle
    /\ \A g \in Gens : \A r \in skipped[g] : Busy(r.call, "dialog") => call[r.call].gen < g

AcquiredIsKept ==
    ~overtaken /\ ~mixed => \A r \in Grants : Acquired(r) =>
        /\ r \in store.grants
        /\ \A g \in {current, loaded} : r \in kept[g] /\ r \in grants[g] \cup skipped[g]

\* What the pages hold comes from requests that are over.
HeldIsPast == \A h \in held : call[h.grant.call] = Answered

\* A writer that has its file for itself finds in it what it wrote.
AloneIsWhole ==
    \A c \in Calls : Busy(c, "write") /\ call[c].alone =>
        /\ call[c].attached
        /\ \A d \in Calls : Busy(d, "write") /\ call[d].path = call[c].path => d = c
        /\ Whole(file[call[c].path], c, call[c].at)

GrantsInv == GrantShapes /\ Numbered /\ OneStores /\ TemporaryIsOwned /\ StoreAlwaysLoads
        /\ KeptIsStarted /\ AcquiredIsKept /\ HeldIsPast /\ AloneIsWhole

-----------------------------------------------------------------------------
\* The three kinds of calls are told apart by op.
LEMMA CallKinds ==
    ASSUME GrantShapes, NEW c \in Calls
    PROVE  /\ call[c] \in {Idle, Answered} \cup DialogCalls \cup WriteCalls
           /\ Busy(c, "dialog") <=> call[c] \in DialogCalls
           /\ Busy(c, "write") <=> call[c] \in WriteCalls
           /\ call[c] = Idle <=> call[c].op = "none"
           /\ call[c] = Answered <=> call[c].op = "done"
  BY DEF GrantShapes, Busy, Idle, Answered, DialogCalls, WriteCalls

\* What is recorded of a dialog.
LEMMA DialogFields ==
    ASSUME NEW r \in DialogCalls
    PROVE  /\ r.op = "dialog" /\ r.gen \in Gens /\ r.pc \in {"shown", "grant"} \cup Storing
           /\ r.access \in {"Read", "ReadWrite"} /\ r.persistent \in BOOLEAN
           /\ r.paths \in Seq(Paths) /\ r.got \in SUBSET Grants
  BY DEF DialogCalls

\* The grant a dialog is at.
LEMMA PendingType ==
    ASSUME GrantShapes, Numbered, NEW c \in Calls, Busy(c, "dialog"), call[c].paths # <<>>
    PROVE  /\ Pending(c) \in Grants
           /\ Pending(c).call = c /\ Pending(c).nth = Cardinality(call[c].got) + 1
           /\ Pending(c).path = Head(call[c].paths)
           /\ Tail(call[c].paths) \in Seq(Paths) /\ Len(Tail(call[c].paths)) = Len(call[c].paths) - 1
           /\ Pending(c) \notin call[c].got
           /\ Cardinality(call[c].got) \in 0..1
<1>1. call[c] \in DialogCalls /\ IsFiniteSet(call[c].got)
  BY CallKinds DEF Numbered, InOrder
<1>2. call[c].paths \in Seq(Paths) /\ call[c].got \in SUBSET Grants /\ call[c].access \in {"Read", "ReadWrite"}
  BY <1>1, DialogFields
<1>3. Len(call[c].paths) \in Nat \ {0} /\ Head(call[c].paths) \in Paths /\ Tail(call[c].paths) \in Seq(Paths)
      /\ Len(Tail(call[c].paths)) = Len(call[c].paths) - 1
  BY <1>2
<1>4. Cardinality(call[c].got) \in Nat
  BY <1>1, FS_CardinalityType
<1>5. Cardinality(call[c].got) + Len(call[c].paths) <= 2
  BY DEF Numbered, InOrder
<1>6. Cardinality(call[c].got) + 1 \in 1..2 /\ Cardinality(call[c].got) \in 0..1
  BY <1>3, <1>4, <1>5
<1>7. Pending(c) \in Grants /\ Pending(c).call = c /\ Pending(c).nth = Cardinality(call[c].got) + 1
      /\ Pending(c).path = Head(call[c].paths)
  BY <1>2, <1>3, <1>6 DEF Pending, Grant, Grants
<1>8. \A r \in call[c].got : r.nth <= Cardinality(call[c].got)
  BY DEF Numbered, InOrder
<1>9. Pending(c) \notin call[c].got
  <2>1. ASSUME Pending(c) \in call[c].got PROVE FALSE
    BY <2>1, <1>4, <1>7, <1>8
  <2>. QED
    BY <2>1
<1>. QED
  BY <1>3, <1>6, <1>7, <1>9

\* What a page has, or will have, is not what a dialog is still storing.
LEMMA PendingIsNotAcquired ==
    ASSUME GrantShapes, Numbered, HeldIsPast, NEW c \in Calls, Busy(c, "dialog"), call[c].paths # <<>>
    PROVE  ~Acquired(Pending(c))
<1>1. Pending(c).call = c /\ Pending(c) \notin call[c].got
  BY PendingType
<1>2. \A h \in held : h.grant # Pending(c)
  BY <1>1 DEF HeldIsPast, Busy, Answered
<1>3. \A d \in Calls : Busy(d, "dialog") => Pending(c) \notin call[d].got
  BY <1>1 DEF Numbered, InOrder
<1>. QED
  BY <1>2, <1>3 DEF Acquired

\* There are finitely many grants, so that they can be counted.
LEMMA GrantsAreCounted ==
    ASSUME NEW s \in SUBSET Grants
    PROVE  Cardinality(s) \in Nat
<1> DEFINE keys == ((Calls \X (1..2)) \X Paths) \X {"Read", "ReadWrite"}
           name == [k \in keys |-> [call |-> k[1][1][1], nth |-> k[1][1][2], path |-> k[1][2], access |-> k[2]]]
<1>1. MaxCalls \in Nat /\ IsFiniteSet(Paths)
  BY GrantsAssumption DEF GrantsAssumption
<1>2. IsFiniteSet(Calls) /\ IsFiniteSet(1..2)
  <2>1. IsFiniteSet(1..MaxCalls)
    BY <1>1, FS_Interval
  <2>2. IsFiniteSet(1..2)
    <3>1. 1 \in Int /\ 2 \in Int
      OBVIOUS
    <3>. QED
      BY ONLY <3>1, FS_Interval, Zenon
  <2>. QED
    BY <2>1, <2>2 DEF Calls
<1>3. IsFiniteSet({"Read"}) /\ IsFiniteSet({"Read", "ReadWrite"})
  BY FS_EmptySet, FS_AddElement
<1>4. IsFiniteSet(Calls \X (1..2))
  BY <1>2, FS_Product
<1>5. IsFiniteSet((Calls \X (1..2)) \X Paths)
  BY <1>1, <1>4, FS_Product
<1>6. IsFiniteSet(keys)
  BY <1>3, <1>5, FS_Product
<1>7. name \in [keys -> Grants]
  BY DEF Grants
<1>8. \A g \in Grants : \E k \in keys : name[k] = g
  <2> SUFFICES ASSUME NEW g \in Grants
               PROVE  \E k \in keys : name[k] = g
    OBVIOUS
  <2>1. g.call \in Calls /\ g.nth \in 1..2 /\ g.path \in Paths /\ g.access \in {"Read", "ReadWrite"}
        /\ g = [call |-> g.call, nth |-> g.nth, path |-> g.path, access |-> g.access]
    BY DEF Grants
  <2>2. <<<<<<g.call, g.nth>>, g.path>>, g.access>> \in keys
    BY <2>1
  <2>. QED
    BY <2>1, <2>2
<1>9. IsFiniteSet(Grants)
  <2>. HIDE DEF keys, name
  <2>1. name \in Surjection(keys, Grants)
    BY <1>7, <1>8 DEF Surjection
  <2>. QED
    BY <1>6, <2>1, FS_Surjection
<1>. QED
  BY <1>9, FS_Subset, FS_CardinalityType

\* A file that was truncated for its writer holds nothing of another.
LEMMA WholeNothing == ASSUME NEW c PROVE Whole(<<>>, c, 0)
  BY DEF Whole

\* The next chunk of a writer that is alone continues what it wrote.
LEMMA WholeChunk ==
    ASSUME NEW c \in Calls, NEW n \in Nat, NEW s, Whole(s, c, n)
    PROVE  Whole(Chunk(s, n + 1, c), c, n + 1)
<1>1. s \in Seq(Calls) /\ Len(s) = n /\ \A k \in 1..n : s[k] = c
  BY DEF Whole
<1>. QED
  BY <1>1 DEF Whole, Chunk

\* A chunk written at an offset leaves a sequence of chunks.
LEMMA ChunkType ==
    ASSUME NEW s \in Seq({User} \cup Calls), NEW n \in Nat, NEW c \in Calls
    PROVE  Chunk(s, n, c) \in Seq({User} \cup Calls)
<1>. DEFINE m == IF Len(s) > n THEN Len(s) ELSE n
<1>1. m \in Nat
  OBVIOUS
<1>2. Chunk(s, n, c) \in [1..m -> {User} \cup Calls]
  BY DEF Chunk
<1>. QED
  BY <1>1, <1>2

-----------------------------------------------------------------------------
\* A host starts without grants, with an empty store and no request.
LEMMA GrantsInitially == GrantsInit => GrantsInv
<1> SUFFICES ASSUME GrantsInit PROVE GrantsInv
  OBVIOUS
<1> USE GrantsAssumption DEF GrantsInit
<1>1. GrantShapes
  <2>1. MaxReloads \in Nat /\ MaxDialogs \in Nat /\ MaxFaults \in Nat
    OBVIOUS
  <2>2. current \in Gens /\ loaded \in {current, current + 1}
    BY <2>1 DEF Gens
  <2>3. left \in [dialog : Nat, reload : Nat, fault : Nat] /\ loaded + left.reload <= MaxReloads + 1
    BY <2>1
  <2>4. call \in [Calls -> {Idle, Answered} \cup DialogCalls \cup WriteCalls]
    OBVIOUS
  <2>5. <<User, User>> \in Seq({User} \cup Calls)
    OBVIOUS
  <2>6. file \in [Paths -> Seq({User} \cup Calls)]
    BY <2>5
  <2>. QED
    BY <2>2, <2>3, <2>4, <2>6 DEF GrantShapes
<1>2. \A c \in Calls : call[c].op = "none" /\ ~Busy(c, "dialog") /\ ~Busy(c, "write")
  BY DEF Idle, Busy
<1>3. Numbered /\ OneStores /\ TemporaryIsOwned /\ HeldIsPast /\ AloneIsWhole
  BY <1>2 DEF Numbered, InOrder, OneStores, TemporaryIsOwned, HeldIsPast, AloneIsWhole
<1>4. KeptIsStarted /\ StoreAlwaysLoads
  BY FS_EmptySet DEF KeptIsStarted, StoreAlwaysLoads, Loads
<1>5. AcquiredIsKept
  BY <1>2 DEF AcquiredIsKept, Acquired
<1>. QED
  BY <1>1, <1>3, <1>4, <1>5 DEF GrantsInv

-----------------------------------------------------------------------------
(* Steps that move one call of the dialogs.                                  *)

\* A call that is answered leaves the others as they are.
LEMMA OthersStay ==
    ASSUME GrantShapes, NEW c \in Calls, NEW r, call' = [call EXCEPT ![c] = r]
    PROVE  /\ call'[c] = r
           /\ \A d \in Calls : d # c => call'[d] = call[d] /\ (Pending(d))' = Pending(d)
           /\ \A d \in Calls : d # c => \A o : Busy(d, o)' = Busy(d, o)
  BY DEF GrantShapes, Pending, Busy

\* Nothing of a write is touched by a step of a dialog.
LEMMA WritesStay ==
    ASSUME GrantShapes, AloneIsWhole, NEW c \in Calls, NEW r, call' = [call EXCEPT ![c] = r],
           r.op # "write", UNCHANGED file
    PROVE  AloneIsWhole'
<1>1. call'[c] = r /\ \A d \in Calls : d # c => call'[d] = call[d]
  BY OthersStay
<1>. QED
  BY <1>1 DEF AloneIsWhole, Busy, Whole

\* A call that is not over does not own what pages hold.
LEMMA HeldStays ==
    ASSUME GrantShapes, HeldIsPast, NEW c \in Calls, NEW r, call' = [call EXCEPT ![c] = r],
           call[c] # Answered \/ r = Answered, UNCHANGED held
    PROVE  HeldIsPast'
<1>1. \A h \in held : h.grant.call \in Calls
  BY DEF GrantShapes, Grants
<1>. QED
  BY <1>1, OthersStay DEF HeldIsPast

\* A call that was answered is neither idle nor at work.
LEMMA AnsweredFields == Answered.op = "done" /\ Idle.op = "none" /\ Answered # Idle
  BY DEF Answered, Idle

-----------------------------------------------------------------------------

\* A call that goes on, or ends, leaves what is kept and stored as started.
LEMMA KeptStays ==
    ASSUME GrantShapes, KeptIsStarted, NEW c \in Calls, NEW r, call' = [call EXCEPT ![c] = r],
           r = Answered \/ (r.op = "write" /\ ~Busy(c, "dialog"))
           \/ (r.op = "dialog" /\ (call[c] = Idle \/ (Busy(c, "dialog") /\ r.gen = call[c].gen))),
           UNCHANGED <<kept, skipped, store>>
    PROVE  KeptIsStarted'
<1>1. call'[c] = r /\ \A d \in Calls : d # c => call'[d] = call[d]
  BY OthersStay
<1>2. \A g \in Gens : \A r1 \in kept[g] \cup skipped[g] : r1.call \in Calls
  BY DEF GrantShapes, Grants
<1>3. \A r1 \in store.grants : r1.call \in Calls
  BY DEF GrantShapes, Grants
<1>4. r # Idle
  BY AnsweredFields
<1>5. \A g \in Gens : \A r1 \in kept[g] : call'[r1.call] # Idle
  BY <1>1, <1>2, <1>4 DEF KeptIsStarted
<1>6. \A r1 \in store.grants : call'[r1.call] # Idle
  BY <1>1, <1>3, <1>4 DEF KeptIsStarted
<1>7. \A g \in Gens : \A r1 \in skipped[g] : call'[r1.call].op = "dialog" => call'[r1.call].gen < g
  <2> SUFFICES ASSUME NEW g \in Gens, NEW r1 \in skipped[g], call'[r1.call].op = "dialog"
               PROVE  call'[r1.call].gen < g
    OBVIOUS
  <2>1. call[r1.call] # Idle /\ (call[r1.call].op = "dialog" => call[r1.call].gen < g)
    BY DEF KeptIsStarted, Busy
  <2>2. CASE r1.call = c
    BY <1>1, <2>1, <2>2, AnsweredFields DEF Busy
  <2>3. CASE r1.call # c
    BY <1>1, <1>2, <2>1, <2>3
  <2>. QED
    BY <2>2, <2>3
<1>. QED
  BY <1>5, <1>6, <1>7 DEF KeptIsStarted, Busy

\* A dialog that ends, or moves without its grants, keeps what is promised.
LEMMA DialogMoves ==
    ASSUME GrantsInv, NEW c \in Calls, NEW r, call' = [call EXCEPT ![c] = r],
           Busy(c, "dialog"),
           r = Answered \/ (r \in DialogCalls /\ r.gen = call[c].gen),
           left' \in [dialog : Nat, reload : Nat, fault : Nat], left'.reload = left.reload,
           UNCHANGED <<current, loaded, file, exists>>
    PROVE  /\ call'[c] = r
           /\ \A d \in Calls : d # c => call'[d] = call[d] /\ (Pending(d))' = Pending(d)
           /\ call' \in [Calls -> {Idle, Answered} \cup DialogCalls \cup WriteCalls]
           /\ AloneIsWhole'
           /\ UNCHANGED held => HeldIsPast'
           /\ UNCHANGED <<kept, skipped, store>> => KeptIsStarted'
           /\ InOrder(c)
<1>1. GrantShapes /\ Busy(c, "dialog") /\ call[c] # Answered /\ call[c] # Idle
  BY AnsweredFields DEF GrantsInv, Busy
<1>2. r.op # "write" /\ (r = Answered \/ r.op = "dialog")
  BY AnsweredFields DEF DialogCalls
<1>3. AloneIsWhole'
  BY <1>1, <1>2, WritesStay DEF GrantsInv
<1>4. UNCHANGED held => HeldIsPast'
  BY <1>1, HeldStays DEF GrantsInv
<1>5. UNCHANGED <<kept, skipped, store>> => KeptIsStarted'
  BY <1>1, <1>2, KeptStays DEF GrantsInv
<1>6. call'[c] = r /\ \A d \in Calls : d # c => call'[d] = call[d] /\ (Pending(d))' = Pending(d)
  BY <1>1, OthersStay
<1>7. call' \in [Calls -> {Idle, Answered} \cup DialogCalls \cup WriteCalls]
  BY <1>1 DEF GrantShapes
<1>. QED
  BY <1>3, <1>4, <1>5, <1>6, <1>7 DEF GrantsInv, Numbered


\* Other dialogs keep their order while only the grants of c come and go.
LEMMA NumberedStays ==
    ASSUME GrantShapes, Numbered, NEW c \in Calls, current' = current,
           \A d \in Calls : d # c => call'[d] = call[d] /\ (Pending(d))' = Pending(d),
           \A g \in Gens : \A x \in Grants : x.call # c =>
              (x \in kept[g] => x \in kept'[g]) /\ (x \in grants[g] => x \in grants'[g]),
           Busy(c, "dialog")' => InOrder(c)'
    PROVE  Numbered'
<1> SUFFICES ASSUME NEW d \in Calls, d # c, Busy(d, "dialog")'
             PROVE  InOrder(d)'
  BY DEF Numbered
<1>1. Busy(d, "dialog") /\ InOrder(d)
  BY DEF Busy, Numbered
<1>2. call[d].gen \in Gens
  BY <1>1, CallKinds, DialogFields
<1>3. call[d].pc \in Storing =>
        Pending(d) \in kept'[call[d].gen] /\ Pending(d) \in grants'[call[d].gen]
  BY <1>1, <1>2, PendingType DEF InOrder
<1>. QED
  BY <1>1, <1>3 DEF InOrder

\* What is promised stays so while nothing promised is taken back.
LEMMA AcquiredStays ==
    ASSUME AcquiredIsKept, UNCHANGED <<current, loaded, overtaken, store, skipped>>, mixed => mixed',
           current \in Gens, loaded \in Gens,
           \A x \in Grants : Acquired(x)' => Acquired(x),
           \A g \in Gens : \A x \in Grants : Acquired(x) =>
              (x \in kept[g] => x \in kept'[g]) /\ (x \in grants[g] => x \in grants'[g])
    PROVE  AcquiredIsKept'
<1> SUFFICES ASSUME ~overtaken, ~mixed, NEW x \in Grants, Acquired(x)
             PROVE  x \in store.grants /\ \A g \in {current, loaded} : x \in kept'[g] /\ x \in grants'[g] \cup skipped[g]
  BY DEF AcquiredIsKept, Grants, Calls
<1>. QED
  BY DEF AcquiredIsKept

\* The numbers of the generations in use.
LEMMA GensInUse ==
    ASSUME GrantShapes
    PROVE  current \in Gens /\ loaded \in Gens /\ current <= loaded
  BY GrantsAssumption DEF GrantsAssumption, GrantShapes, Gens

\* A page asks for a dialog.
LEMMA DialogStep ==
    ASSUME GrantsInv, NEW c \in Calls, dialog(c)
    PROVE  GrantsInv'
<1> DEFINE r == [op |-> "dialog", gen |-> current, pc |-> "shown", access |-> "Read",
                 persistent |-> FALSE, paths |-> <<>>, got |-> {}]
<1>1. call' = [call EXCEPT ![c] = r] /\ call[c] = Idle
      /\ UNCHANGED <<current, loaded, grants, kept, skipped, store, temporary, overtaken, mixed, held, file, exists>>
  BY DEF dialog, Fresh, granting, files
<1>2. GrantShapes
  BY DEF GrantsInv
<1>3. r \in DialogCalls
  BY <1>2 DEF GrantShapes, DialogCalls
<1>4. left' \in [dialog : Nat, reload : Nat, fault : Nat] /\ left'.reload = left.reload
  BY <1>2 DEF dialog, Spend, GrantShapes
<1>5. GrantShapes'
  BY <1>1, <1>2, <1>3, <1>4 DEF GrantShapes, Gens, Calls, Grants
<1>6. /\ \A d \in Calls : d # c => call'[d] = call[d] /\ (Pending(d))' = Pending(d)
      /\ call'[c] = r /\ r.op = "dialog" /\ r.pc = "shown" /\ r.got = {} /\ r.persistent = FALSE
      /\ r.gen = current /\ r.paths = <<>>
      /\ ~Busy(c, "dialog")
  BY <1>1, <1>2, OthersStay, AnsweredFields DEF Busy
<1>. HIDE DEF r
<1>7. Numbered'
  <2>1. ASSUME NEW d \in Calls, d # c, Busy(d, "dialog")' PROVE InOrder(d)'
    BY <1>1, <1>6, <2>1 DEF GrantsInv, Numbered, InOrder, Busy
  <2>2. InOrder(c)'
    <3>1. IsFiniteSet({}) /\ Cardinality({}) + Len(<<>>) <= 2 /\ current <= current
      BY <1>2, FS_EmptySet DEF GrantShapes, Gens
    <3>. QED
      BY <1>1, <1>6, <3>1 DEF InOrder, Storing
  <2>. QED
    BY <2>1, <2>2 DEF Numbered
<1>8. OneStores'
  BY <1>1, <1>6 DEF GrantsInv, OneStores, Busy, Storing, Writing, TooMany
<1>9. TemporaryIsOwned'
  BY <1>1, <1>2, <1>6 DEF GrantsInv, TemporaryIsOwned, Busy, Writing, GrantShapes
<1>10. StoreAlwaysLoads'
  BY <1>1 DEF GrantsInv, StoreAlwaysLoads, Loads
<1>11. AcquiredIsKept'
  BY <1>1, <1>6 DEF GrantsInv, AcquiredIsKept, Acquired, Busy, Grants, Calls
<1>14. KeptIsStarted'
  BY <1>1, <1>2, <1>6, KeptStays DEF GrantsInv
<1>12. HeldIsPast'
  BY <1>1, <1>2, HeldStays, AnsweredFields DEF GrantsInv
<1>13. AloneIsWhole'
  BY <1>1, <1>2, <1>6, WritesStay DEF GrantsInv
<1>. QED
  BY <1>5, <1>7, <1>8, <1>9, <1>10, <1>11, <1>14, <1>12, <1>13 DEF GrantsInv

\* The user selects files, and asks that they be kept, or not.
LEMMA ShowDialogStep ==
    ASSUME GrantsInv, NEW c \in Calls, show_dialog(c)
    PROVE  GrantsInv'
<1>0. PICK access \in {"Read", "ReadWrite"}, persistent \in BOOLEAN :
        \E paths \in Replies(access) :
            call' = [call EXCEPT ![c] = [@ EXCEPT !.pc = "grant", !.access = access,
                                                  !.persistent = persistent, !.paths = paths]]
  BY DEF show_dialog
<1>1. PICK paths \in Replies(access) :
        call' = [call EXCEPT ![c] = [@ EXCEPT !.pc = "grant", !.access = access,
                                              !.persistent = persistent, !.paths = paths]]
  BY <1>0
<1>2. GrantShapes /\ Busy(c, "dialog") /\ call[c].pc = "shown"
  BY DEF GrantsInv, show_dialog, At
<1>3. call[c] \in DialogCalls
  BY <1>2, CallKinds
<1>4. UNCHANGED <<current, loaded, grants, kept, skipped, store, temporary, overtaken, mixed, held, file, exists, left>>
  BY DEF show_dialog, granting, files, Keep
<1>5. paths \in Seq(Paths) /\ Len(paths) <= 2
  <2>1. CASE paths = <<>>
    BY <2>1
  <2>2. CASE paths \in {<<p>> : p \in Paths}
    <3>1. PICK p \in Paths : paths = <<p>>
      BY <2>2
    <3>. QED
      BY <3>1
  <2>3. CASE paths \in {<<p, q>> : p \in Paths, q \in Paths}
    <3>1. PICK p \in Paths, q \in Paths : paths = <<p, q>>
      BY <2>3
    <3>. QED
      BY <3>1
  <2>. QED
    BY <2>1, <2>2, <2>3 DEF Replies
<1> DEFINE r == [call[c] EXCEPT !.pc = "grant", !.access = access, !.persistent = persistent, !.paths = paths]
<1>6. r \in DialogCalls /\ r.gen = call[c].gen /\ r.pc = "grant" /\ r.got = call[c].got
      /\ r.paths = paths /\ r.op = "dialog" /\ r.persistent = persistent
  BY <1>3, <1>5 DEF DialogCalls
<1>7. call' = [call EXCEPT ![c] = r]
  BY <1>1, <1>2 DEF GrantShapes
<1>8. left \in [dialog : Nat, reload : Nat, fault : Nat]
  BY <1>2 DEF GrantShapes
<1>. HIDE DEF r
<1>9. /\ call'[c] = r
      /\ \A d \in Calls : d # c => call'[d] = call[d] /\ (Pending(d))' = Pending(d)
      /\ call' \in [Calls -> {Idle, Answered} \cup DialogCalls \cup WriteCalls]
      /\ AloneIsWhole' /\ HeldIsPast' /\ KeptIsStarted'
      /\ InOrder(c)
  BY <1>2, <1>4, <1>6, <1>7, <1>8, DialogMoves
<1>10. GrantShapes'
  BY <1>2, <1>4, <1>9 DEF GrantShapes, Gens, Calls, Grants
<1>11. Numbered'
  <2>1. ASSUME NEW d \in Calls, d # c, Busy(d, "dialog")' PROVE InOrder(d)'
    BY <1>4, <1>9, <2>1 DEF GrantsInv, Numbered, InOrder, Busy
  <2>2. r.got = {}
    BY <1>2, <1>6, <1>9 DEF InOrder
  <2>3. IsFiniteSet({}) /\ Cardinality({}) + Len(paths) <= 2
    BY <1>5, FS_EmptySet
  <2>4. InOrder(c)'
    BY <1>4, <1>6, <1>9, <2>2, <2>3 DEF InOrder, Storing
  <2>. QED
    BY <2>1, <2>4 DEF Numbered
<1>12. OneStores'
  BY <1>4, <1>6, <1>9 DEF GrantsInv, OneStores, Busy, Storing, Writing, TooMany
<1>13. TemporaryIsOwned'
  BY <1>2, <1>4, <1>6, <1>9 DEF GrantsInv, TemporaryIsOwned, Busy, Writing, GrantShapes
<1>14. StoreAlwaysLoads'
  BY <1>4 DEF GrantsInv, StoreAlwaysLoads, Loads
<1>15. AcquiredIsKept'
  <2>1. r.got = {}
    BY <1>2, <1>6, <1>9 DEF InOrder
  <2>. QED
    BY <1>4, <1>6, <1>9, <2>1 DEF GrantsInv, AcquiredIsKept, Acquired, Busy, Grants, Calls
<1>. QED
  BY <1>9, <1>10, <1>11, <1>12, <1>13, <1>14, <1>15 DEF GrantsInv

\* The page's request is answered while nothing it has is stored.
LEMMA DialogEnds ==
    ASSUME GrantsInv, NEW c \in Calls, Busy(c, "dialog"), call[c].pc \notin Storing, native_task(c),
           left' \in [dialog : Nat, reload : Nat, fault : Nat], left'.reload = left.reload,
           held' \subseteq [grant : Grants, persistent : BOOLEAN],
           \A h \in held' : h \in held \/ h.grant.call = c,
           \A h \in held' : h \in held \/ (h.grant \in call[c].got /\ h.persistent = call[c].persistent),
           UNCHANGED <<current, loaded, kept, skipped, store, temporary, overtaken, mixed, file, exists>>,
           UNCHANGED grants
    PROVE  GrantsInv'
<1>1. GrantShapes /\ call' = [call EXCEPT ![c] = Answered]
  BY DEF GrantsInv, native_task
<1>2. /\ call'[c] = Answered
      /\ \A d \in Calls : d # c => call'[d] = call[d] /\ (Pending(d))' = Pending(d)
      /\ call' \in [Calls -> {Idle, Answered} \cup DialogCalls \cup WriteCalls]
      /\ AloneIsWhole' /\ KeptIsStarted'
      /\ InOrder(c)
  BY <1>1, DialogMoves
<1>3. GrantShapes'
  BY <1>1, <1>2 DEF GrantShapes, Gens, Calls, Grants
<1>4. ~Busy(c, "dialog")' /\ ~Busy(c, "write")'
  BY <1>2, AnsweredFields DEF Busy
<1>5. Numbered'
  <2>1. ASSUME NEW d \in Calls, d # c, Busy(d, "dialog")' PROVE InOrder(d)'
    BY <1>2, <2>1 DEF GrantsInv, Numbered, InOrder, Busy
  <2>. QED
    BY <1>4, <2>1 DEF Numbered
<1>6. OneStores'
  BY <1>2, <1>4 DEF GrantsInv, OneStores, Busy, Storing, Writing, TooMany
<1>7. TemporaryIsOwned'
  BY <1>1, <1>2, <1>4 DEF GrantsInv, TemporaryIsOwned, Busy, Storing, Writing, GrantShapes
<1>8. StoreAlwaysLoads'
  BY DEF GrantsInv, StoreAlwaysLoads, Loads
<1>9. \A x \in Grants : Acquired(x)' => Acquired(x)
  BY <1>2, <1>4 DEF Acquired, Busy
<1>10. AcquiredIsKept'
  BY <1>9 DEF GrantsInv, AcquiredIsKept, Grants, Calls
<1>11. HeldIsPast'
  <2>1. \A h \in held : h.grant.call \in Calls /\ call[h.grant.call] = Answered
    BY <1>1 DEF GrantsInv, HeldIsPast, GrantShapes, Grants
  <2>. QED
    BY <1>2, <2>1 DEF HeldIsPast
<1>. QED
  BY <1>2, <1>3, <1>5, <1>6, <1>7, <1>8, <1>10, <1>11 DEF GrantsInv

\* The dialog is cancelled, or its answer is lost.
LEMMA DialogLostStep ==
    ASSUME GrantsInv, NEW c \in Calls, DialogLost(c)
    PROVE  GrantsInv'
<1>1. /\ Busy(c, "dialog") /\ call[c].pc = "shown" /\ native_task(c)
      /\ UNCHANGED <<current, loaded, kept, skipped, store, temporary, overtaken, mixed, file, exists, grants, held>>
  BY DEF DialogLost, At, granting, files
<1>2. left' \in [dialog : Nat, reload : Nat, fault : Nat] /\ left'.reload = left.reload
  BY DEF DialogLost, Spend, GrantsInv, GrantShapes
<1>3. held \subseteq [grant : Grants, persistent : BOOLEAN]
  BY DEF GrantsInv, GrantShapes
<1>4. "shown" \notin Storing
  BY DEF Storing
<1>. QED
  BY <1>1, <1>2, <1>3, <1>4, DialogEnds

\* The page receives the references of what was granted.
LEMMA DialogDoneStep ==
    ASSUME GrantsInv, NEW c \in Calls, DialogDone(c)
    PROVE  GrantsInv'
<1>1. /\ Busy(c, "dialog") /\ call[c].pc = "grant" /\ native_task(c)
      /\ UNCHANGED <<current, loaded, kept, skipped, store, temporary, overtaken, mixed, file, exists, grants, left>>
      /\ held' = held \cup {[grant |-> r, persistent |-> call[c].persistent] : r \in call[c].got}
  BY DEF DialogDone, At, granting, files, Keep
<1>2. left' \in [dialog : Nat, reload : Nat, fault : Nat] /\ left'.reload = left.reload
  BY <1>1 DEF GrantsInv, GrantShapes
<1>3. call[c].got \in SUBSET Grants /\ call[c].persistent \in BOOLEAN
  BY <1>1, CallKinds, DialogFields DEF GrantsInv
<1>4. \A r \in call[c].got : r.call = c
  BY <1>1 DEF GrantsInv, Numbered, InOrder
<1>5. \A h \in held' : h \in held \/ (h.grant \in call[c].got /\ h.persistent = call[c].persistent)
  BY <1>1
<1>6. held' \subseteq [grant : Grants, persistent : BOOLEAN]
  BY <1>1, <1>3 DEF GrantsInv, GrantShapes
<1>7. "grant" \notin Storing
  BY DEF Storing
<1>8. \A h \in held' : h \in held \/ h.grant.call = c
  BY <1>4, <1>5
<1>. QED
  BY <1>1, <1>2, <1>5, <1>6, <1>7, <1>8, DialogEnds

\* A path is granted, and kept if the user asked for it.
LEMMA GrantPathStep ==
    ASSUME GrantsInv, NEW c \in Calls, grant_path(c)
    PROVE  GrantsInv'
<1> DEFINE g == call[c].gen
           p == Pending(c)
<1>1. /\ GrantShapes /\ Numbered /\ Busy(c, "dialog") /\ call[c].pc = "grant" /\ call[c].paths # <<>>
      /\ UNCHANGED <<current, loaded, skipped, store, temporary, overtaken, mixed, held, file, exists, left>>
  BY DEF grant_path, At, GrantsInv, files, Keep
<1>2. /\ p \in Grants /\ p.call = c /\ p.nth = Cardinality(call[c].got) + 1
      /\ Tail(call[c].paths) \in Seq(Paths) /\ Len(Tail(call[c].paths)) = Len(call[c].paths) - 1
      /\ p \notin call[c].got /\ Cardinality(call[c].got) \in 0..1
  BY <1>1, PendingType
<1>3. call[c] \in DialogCalls /\ g \in Gens /\ call[c].got \in SUBSET Grants /\ call[c].paths \in Seq(Paths)
  BY <1>1, CallKinds, DialogFields
<1>4. left' \in [dialog : Nat, reload : Nat, fault : Nat] /\ left'.reload = left.reload
  BY <1>1 DEF GrantShapes
<1>5. current \in Gens /\ loaded \in Gens
  BY <1>1, GensInUse
<1>6. CASE native_task(c) /\ UNCHANGED <<grants, kept>>
  <2>1. held \subseteq [grant : Grants, persistent : BOOLEAN] /\ "grant" \notin Storing
    BY <1>1 DEF GrantShapes, Storing
  <2>. QED
    BY <1>1, <1>4, <1>6, <2>1, DialogEnds
<1>7. ASSUME grants' = [grants EXCEPT ![g] = @ \cup {p}], ~call[c].persistent,
             call' = [call EXCEPT ![c].paths = Tail(@), ![c].got = @ \cup {p}],
             UNCHANGED kept
      PROVE  GrantsInv'
  <2> DEFINE r == [call[c] EXCEPT !.paths = Tail(call[c].paths), !.got = call[c].got \cup {p}]
  <2>1. /\ r \in DialogCalls /\ r.gen = g /\ r.pc = "grant" /\ r.got = call[c].got \cup {p}
        /\ r.paths = Tail(call[c].paths) /\ r.op = "dialog" /\ r.persistent = call[c].persistent
    BY <1>1, <1>2, <1>3 DEF DialogCalls
  <2>2. call' = [call EXCEPT ![c] = r]
    BY <1>1, <1>3, <1>7 DEF GrantShapes, DialogCalls
  <2>. HIDE DEF r
  <2>3. /\ call'[c] = r
        /\ \A d \in Calls : d # c => call'[d] = call[d] /\ (Pending(d))' = Pending(d)
        /\ call' \in [Calls -> {Idle, Answered} \cup DialogCalls \cup WriteCalls]
        /\ AloneIsWhole' /\ HeldIsPast' /\ KeptIsStarted'
        /\ InOrder(c)
    BY <1>1, <1>4, <1>7, <2>1, <2>2, DialogMoves
  <2>4. GrantShapes'
    BY <1>1, <1>2, <1>3, <1>7, <2>3 DEF GrantShapes, Gens, Calls, Grants
  <2>5. InOrder(c)'
    <3>1. IsFiniteSet(r.got) /\ Cardinality(r.got) = Cardinality(call[c].got) + 1
      BY <1>2, <2>1, <2>3, FS_AddElement DEF InOrder
    <3>2. Cardinality(call[c].got) + Len(call[c].paths) <= 2 /\ Len(call[c].paths) \in Nat
      BY <1>3, <2>3 DEF InOrder
    <3>3. Cardinality(r.got) + Len(r.paths) <= 2
      BY <1>2, <2>1, <3>1, <3>2
    <3>4. \A x \in r.got : x.call = c /\ x.nth <= Cardinality(r.got)
      <4>1. \A x \in call[c].got : x.nth \in Nat /\ x.nth <= Cardinality(call[c].got) /\ x.call = c
        BY <1>3, <2>3 DEF InOrder, Grants
      <4>. QED
        BY <1>2, <2>1, <3>1, <4>1
    <3>. QED
      BY <1>1, <2>1, <2>3, <3>1, <3>3, <3>4 DEF InOrder, Storing
  <2>6. \A h \in Gens : grants[h] \subseteq grants'[h]
    BY <1>1, <1>7 DEF GrantShapes
  <2>7. Numbered'
    BY <1>1, <1>7, <2>3, <2>5, <2>6, NumberedStays
  <2>8. OneStores'
    BY <1>1, <1>7, <2>1, <2>3 DEF GrantsInv, OneStores, Busy, Storing, Writing, TooMany
  <2>9. TemporaryIsOwned'
    BY <1>1, <2>1, <2>3 DEF GrantsInv, TemporaryIsOwned, Busy, Writing, GrantShapes
  <2>10. StoreAlwaysLoads'
    BY <1>1 DEF GrantsInv, StoreAlwaysLoads, Loads
  <2>11. \A x \in Grants : Acquired(x)' => Acquired(x)
    BY <1>1, <1>7, <2>1, <2>3 DEF Acquired, Busy
  <2>12. AcquiredIsKept'
    BY <1>1, <1>5, <1>7, <2>6, <2>11, AcquiredStays DEF GrantsInv
  <2>. QED
    BY <2>3, <2>4, <2>7, <2>8, <2>9, <2>10, <2>12 DEF GrantsInv
<1>8. ASSUME grants' = [grants EXCEPT ![g] = @ \cup {p}], call[c].persistent, ~Locked(g),
             kept' = [kept EXCEPT ![g] = @ \cup {p}], Goto(c, "create")
      PROVE  GrantsInv'
  <2> DEFINE r == [call[c] EXCEPT !.pc = "create"]
  <2>1. /\ r \in DialogCalls /\ r.gen = g /\ r.pc = "create" /\ r.got = call[c].got
        /\ r.paths = call[c].paths /\ r.op = "dialog" /\ r.persistent = call[c].persistent
        /\ r.access = call[c].access
    BY <1>1, <1>3 DEF DialogCalls, Storing
  <2>2. call' = [call EXCEPT ![c] = r]
    BY <1>1, <1>3, <1>8 DEF GrantShapes, Goto
  <2>. HIDE DEF r
  <2>3. /\ call'[c] = r
        /\ \A d \in Calls : d # c => call'[d] = call[d] /\ (Pending(d))' = Pending(d)
        /\ call' \in [Calls -> {Idle, Answered} \cup DialogCalls \cup WriteCalls]
        /\ AloneIsWhole' /\ HeldIsPast'
        /\ InOrder(c)
    BY <1>1, <1>4, <2>1, <2>2, DialogMoves
  <2>4. GrantShapes'
    BY <1>1, <1>2, <1>3, <1>8, <2>3 DEF GrantShapes, Gens, Calls, Grants
  <2>5. \A h \in Gens : grants[h] \subseteq grants'[h] /\ kept[h] \subseteq kept'[h]
    BY <1>1, <1>8 DEF GrantShapes
  <2>6. InOrder(c)'
    <3>1. (Pending(c))' = p
      BY <2>1, <2>3 DEF Pending
    <3>2. p \in grants'[g] /\ p \in kept'[g]
      BY <1>1, <1>3, <1>8 DEF GrantShapes
    <3>3. call'[c].persistent /\ call'[c].paths # <<>>
      BY <1>1, <1>8, <2>1, <2>3
    <3>4. call'[c].gen = g /\ call'[c].pc # "shown"
      BY <2>1, <2>3
    <3>. QED
      BY <1>1, <2>1, <2>3, <3>1, <3>2, <3>3, <3>4 DEF InOrder
  <2>7. Numbered'
    BY <1>1, <2>3, <2>5, <2>6, NumberedStays
  <2>8. OneStores'
    <3>1. \A d \in Calls : Busy(d, "dialog") /\ call[d].pc \in Storing => call[d].gen # g
      BY <1>8 DEF Locked, Storing
    <3>2. \A d \in Calls : d # c /\ Busy(d, "dialog") /\ call[d].pc \in Writing => TooMany(d)' = TooMany(d)
      <4>1. \A d \in Calls : Busy(d, "dialog") /\ call[d].pc \in Writing => kept'[call[d].gen] = kept[call[d].gen]
        BY <1>1, <1>8, <3>1 DEF GrantShapes, Storing, Writing
      <4>. QED
        BY <2>3, <4>1 DEF TooMany
    <3>. QED
      BY <1>1, <2>1, <2>3, <3>1, <3>2 DEF GrantsInv, OneStores, Busy, Storing, Writing
  <2>9. TemporaryIsOwned'
    <3>1. \A d \in Calls : Busy(d, "dialog")' /\ call'[d].pc \in Writing <=> Busy(d, "dialog") /\ call[d].pc \in Writing
      BY <1>1, <2>1, <2>3 DEF Busy, Writing
    <3>. QED
      BY <1>1, <3>1 DEF GrantsInv, TemporaryIsOwned, GrantShapes
  <2>10. StoreAlwaysLoads'
    BY <1>1 DEF GrantsInv, StoreAlwaysLoads, Loads
  <2>11. \A x \in Grants : Acquired(x)' => Acquired(x)
    BY <1>1, <2>1, <2>3 DEF Acquired, Busy
  <2>12. AcquiredIsKept'
    BY <1>1, <1>5, <2>5, <2>11, AcquiredStays DEF GrantsInv
  <2>13. KeptIsStarted'
    <3>1. r # Idle
      BY <2>1, AnsweredFields
    <3>2. \A h \in Gens : \A x \in kept'[h] : x \in kept[h] \/ x = p
      BY <1>1, <1>8 DEF GrantShapes
    <3>3. \A h \in Gens : \A x \in kept'[h] : call'[x.call] # Idle
      <4>1. \A h \in Gens : \A x \in kept[h] : x.call \in Calls /\ call[x.call] # Idle
        BY <1>1 DEF GrantsInv, KeptIsStarted, GrantShapes, Grants
      <4>. QED
        BY <1>2, <2>3, <3>1, <3>2, <4>1
    <3>4. \A x \in store.grants : call'[x.call] # Idle
      <4>1. \A x \in store.grants : x.call \in Calls /\ call[x.call] # Idle
        BY <1>1 DEF GrantsInv, KeptIsStarted, GrantShapes, Grants
      <4>. QED
        BY <2>3, <3>1, <4>1
    <3>5. \A h \in Gens : \A x \in skipped[h] : Busy(x.call, "dialog")' => call'[x.call].gen < h
      <4>1. \A h \in Gens : \A x \in skipped[h] : x.call \in Calls /\ (Busy(x.call, "dialog") => call[x.call].gen < h)
        BY <1>1 DEF GrantsInv, KeptIsStarted, GrantShapes, Grants
      <4>. QED
        BY <1>1, <2>1, <2>3, <4>1 DEF Busy
    <3>6. \A h \in Gens : skipped[h] \subseteq kept'[h]
      BY <2>5 DEF GrantsInv, KeptIsStarted
    <3>. QED
      BY <1>1, <3>3, <3>4, <3>5, <3>6 DEF KeptIsStarted
  <2>. QED
    BY <2>3, <2>4, <2>7, <2>8, <2>9, <2>10, <2>12, <2>13 DEF GrantsInv
<1>. QED
  BY <1>6, <1>7, <1>8 DEF grant_path

\* A store that fails is taken back: nothing that was promised is lost by it.
LEMMA TakeBackStep ==
    ASSUME GrantsInv, NEW c \in Calls, Busy(c, "dialog"), call[c].pc \in Storing, take_back(c),
           left' \in [dialog : Nat, reload : Nat, fault : Nat], left'.reload = left.reload,
           UNCHANGED <<current, loaded, skipped, store, overtaken, mixed, held, file, exists>>
    PROVE  GrantsInv'
<1> DEFINE g == call[c].gen
           p == Pending(c)
<1>1. /\ GrantShapes /\ Numbered /\ call' = [call EXCEPT ![c] = Answered]
      /\ kept' = [kept EXCEPT ![g] = @ \ {p}] /\ grants' = [grants EXCEPT ![g] = @ \ {p}]
      /\ temporary' = temporary \ {c}
  BY DEF GrantsInv, take_back, native_task
<1>2. call[c] \in DialogCalls /\ g \in Gens
  BY <1>1, CallKinds, DialogFields
<1>3. current \in Gens /\ loaded \in Gens
  BY <1>1, GensInUse
<1>4. /\ call'[c] = Answered
      /\ \A d \in Calls : d # c => call'[d] = call[d] /\ (Pending(d))' = Pending(d)
      /\ call' \in [Calls -> {Idle, Answered} \cup DialogCalls \cup WriteCalls]
      /\ AloneIsWhole' /\ HeldIsPast'
      /\ InOrder(c)
  BY <1>1, DialogMoves
<1>5. ~Busy(c, "dialog")' /\ ~Busy(c, "write")' /\ Answered # Idle
  BY <1>4, AnsweredFields DEF Busy
<1>6. call[c].paths # <<>> /\ p \in Grants /\ p.call = c
  BY <1>1, <1>4, PendingType DEF InOrder
<1>7. ~Acquired(p)
  BY <1>1, <1>6, PendingIsNotAcquired DEF GrantsInv
<1>8. GrantShapes'
  BY <1>1, <1>2, <1>4 DEF GrantShapes, Gens, Calls, Grants
<1>9. \A h \in Gens : /\ kept'[h] \subseteq kept[h]
                      /\ \A x : x # p => (x \in kept[h] => x \in kept'[h]) /\ (x \in grants[h] => x \in grants'[h])
  BY <1>1 DEF GrantShapes
<1>10. Numbered'
  BY <1>1, <1>4, <1>5, <1>6, <1>9, NumberedStays
<1>11. OneStores'
  <2>1. \A d \in Calls : d # c /\ Busy(d, "dialog") /\ call[d].pc \in Storing => call[d].gen # g
    BY DEF GrantsInv, OneStores
  <2>2. \A d \in Calls : d # c /\ Busy(d, "dialog") /\ call[d].pc \in Writing => kept'[call[d].gen] = kept[call[d].gen]
    BY <1>1, <2>1 DEF GrantShapes, Storing, Writing
  <2>3. \A d \in Calls : d # c /\ Busy(d, "dialog") /\ call[d].pc \in Writing => TooMany(d)' = TooMany(d)
    BY <1>4, <2>2 DEF TooMany
  <2>. QED
    BY <1>4, <1>5, <2>3 DEF GrantsInv, OneStores, Busy, Storing, Writing
<1>12. TemporaryIsOwned'
  BY <1>1, <1>4, <1>5 DEF GrantsInv, TemporaryIsOwned, Busy, Writing, GrantShapes
<1>13. StoreAlwaysLoads'
  BY DEF GrantsInv, StoreAlwaysLoads, Loads
<1>14. \A x \in Grants : Acquired(x)' => Acquired(x)
  BY <1>4, <1>5 DEF Acquired, Busy
<1>15. AcquiredIsKept'
  <2>1. \A h \in Gens : \A x \in Grants : Acquired(x) =>
            (x \in kept[h] => x \in kept'[h]) /\ (x \in grants[h] => x \in grants'[h])
    BY <1>7, <1>9
  <2>. QED
    BY <1>3, <1>14, <2>1, AcquiredStays DEF GrantsInv
<1>16. KeptIsStarted'
  <2>1. \A h \in Gens : \A x \in kept[h] \cup skipped[h] : x.call \in Calls
    BY <1>1 DEF GrantShapes, Grants
  <2>2. \A h \in Gens : \A x \in kept'[h] : call'[x.call] # Idle
    BY <1>4, <1>5, <1>9, <2>1 DEF GrantsInv, KeptIsStarted
  <2>3. \A x \in store.grants : x.call \in Calls /\ call'[x.call] # Idle
    BY <1>1, <1>4, <1>5 DEF GrantsInv, KeptIsStarted, GrantShapes, Grants
  <2>4. \A h \in Gens : \A x \in skipped[h] : Busy(x.call, "dialog")' => call'[x.call].gen < h
    BY <1>4, <1>5, <2>1 DEF GrantsInv, KeptIsStarted, Busy
  <2>5. \A h \in Gens : skipped[h] \subseteq kept'[h]
    <3>1. \A h \in Gens : skipped[h] \subseteq kept[h]
      BY DEF GrantsInv, KeptIsStarted
    <3>2. p \notin skipped[g]
      BY <1>2, <1>6 DEF GrantsInv, KeptIsStarted, DialogCalls, Gens
    <3>. QED
      BY <1>1, <3>1, <3>2 DEF GrantShapes
  <2>. QED
    BY <2>2, <2>3, <2>4, <2>5 DEF KeptIsStarted
<1>. QED
  BY <1>4, <1>8, <1>10, <1>11, <1>12, <1>13, <1>15, <1>16 DEF GrantsInv

\* The store is written: the temporary file is created, or that fails.
LEMMA PersistGrantsStep ==
    ASSUME GrantsInv, NEW c \in Calls, persist_grants(c)
    PROVE  GrantsInv'
<1>1. /\ GrantShapes /\ Numbered /\ Busy(c, "dialog") /\ call[c].pc = "create"
      /\ UNCHANGED <<current, loaded, skipped, store, overtaken, held, file, exists>>
  BY DEF persist_grants, At, GrantsInv, files
<1>2. call[c] \in DialogCalls /\ call[c].gen \in Gens /\ call[c].pc \in Storing
  BY <1>1, CallKinds, DialogFields DEF Storing
<1>3. left' \in [dialog : Nat, reload : Nat, fault : Nat] /\ left'.reload = left.reload
  BY <1>1 DEF persist_grants, Spend, Keep, GrantShapes
<1>4. CASE take_back(c) /\ UNCHANGED mixed
  BY <1>1, <1>2, <1>3, <1>4, TakeBackStep
<1>5. ASSUME ~TooMany(c), temporary' = temporary \cup {c},
             mixed' = (mixed \/ \E d \in temporary : call[d].gen # call[c].gen),
             Goto(c, "write"), UNCHANGED <<grants, kept>>
      PROVE  GrantsInv'
  <2> DEFINE r == [call[c] EXCEPT !.pc = "write"]
  <2>1. /\ r \in DialogCalls /\ r.gen = call[c].gen /\ r.pc = "write" /\ r.got = call[c].got
        /\ r.paths = call[c].paths /\ r.op = "dialog" /\ r.persistent = call[c].persistent
        /\ r.access = call[c].access
    BY <1>1, <1>2 DEF DialogCalls, Storing
  <2>2. call' = [call EXCEPT ![c] = r]
    BY <1>1, <1>2, <1>5 DEF GrantShapes, Goto
  <2>. HIDE DEF r
  <2>3. /\ call'[c] = r
        /\ \A d \in Calls : d # c => call'[d] = call[d] /\ (Pending(d))' = Pending(d)
        /\ call' \in [Calls -> {Idle, Answered} \cup DialogCalls \cup WriteCalls]
        /\ AloneIsWhole' /\ HeldIsPast' /\ KeptIsStarted'
        /\ InOrder(c)
    BY <1>1, <1>3, <1>5, <2>1, <2>2, DialogMoves
  <2>4. mixed' \in BOOLEAN
    BY <1>1, <1>5 DEF GrantShapes
  <2>5. GrantShapes'
    BY <1>1, <1>3, <1>5, <2>3, <2>4 DEF GrantShapes, Gens, Calls, Grants
  <2>6. InOrder(c)'
    <3>1. (Pending(c))' = Pending(c)
      BY <2>1, <2>3 DEF Pending
    <3>. QED
      BY <1>1, <1>2, <1>5, <2>1, <2>3, <3>1 DEF InOrder
  <2>7. Numbered'
    BY <1>1, <1>5, <2>3, <2>6, NumberedStays
  <2>8. OneStores'
    <3>1. \A d \in Calls : Busy(d, "dialog")' = Busy(d, "dialog") /\ call'[d].gen = call[d].gen
                           /\ (call'[d].pc \in Storing <=> call[d].pc \in Storing)
                           /\ (call'[d].pc \in Writing <=> call[d].pc \in Writing \/ d = c)
      BY <1>1, <1>2, <2>1, <2>3 DEF Busy, Storing, Writing
    <3>2. \A d \in Calls : TooMany(d)' = TooMany(d)
      BY <1>5, <3>1 DEF TooMany
    <3>. QED
      BY <1>5, <3>1, <3>2 DEF GrantsInv, OneStores
  <2>9. TemporaryIsOwned'
    <3>1. \A d \in Calls : Busy(d, "dialog")' = Busy(d, "dialog")
                           /\ (call'[d].pc \in Writing <=> call[d].pc \in Writing \/ d = c)
      BY <1>1, <1>2, <2>1, <2>3 DEF Busy, Writing
    <3>2. ASSUME ~mixed' PROVE temporary = {}
      <4>1. SUFFICES ASSUME NEW d \in temporary PROVE FALSE
        OBVIOUS
      <4>2. Busy(d, "dialog") /\ call[d].pc \in Writing /\ call[d].gen = call[c].gen /\ d \in Calls
        BY <1>1, <1>5, <3>2 DEF GrantsInv, TemporaryIsOwned, GrantShapes
      <4>3. d = c
        BY <1>1, <1>2, <4>2 DEF GrantsInv, OneStores, Storing, Writing
      <4>. QED
        BY <1>1, <4>2, <4>3 DEF Writing
    <3>3. \A d \in temporary' : Busy(d, "dialog")' /\ call'[d].pc \in Writing
      BY <1>1, <1>5, <3>1 DEF GrantsInv, TemporaryIsOwned, GrantShapes
    <3>4. mixed' => mixed' = TRUE
      BY <2>4
    <3>5. ~mixed' => \A d \in Calls : Busy(d, "dialog")' /\ call'[d].pc \in Writing => d \in temporary'
      <4>1. ~mixed' => ~mixed
        BY <1>5
      <4>. QED
        BY <1>5, <3>1, <4>1 DEF GrantsInv, TemporaryIsOwned
    <3>6. ~mixed' => \A d, e \in temporary' : d = e
      BY <1>5, <3>2
    <3>. QED
      BY <3>3, <3>5, <3>6 DEF TemporaryIsOwned
  <2>10. StoreAlwaysLoads'
    BY <1>1, <1>5 DEF GrantsInv, StoreAlwaysLoads, Loads
  <2>11. \A x \in Grants : Acquired(x)' => Acquired(x)
    BY <1>1, <2>1, <2>3 DEF Acquired, Busy
  <2>12. AcquiredIsKept'
    <3>1. mixed => mixed'
      BY <1>5
    <3>2. current \in Gens /\ loaded \in Gens
      BY <1>1, GensInUse
    <3>. QED
      BY <1>1, <1>5, <2>11, <3>1, <3>2, AcquiredStays DEF GrantsInv
  <2>. QED
    BY <2>3, <2>5, <2>7, <2>8, <2>9, <2>10, <2>12 DEF GrantsInv
<1>. QED
  BY <1>4, <1>5 DEF persist_grants, Keep

\* A write that reaches the store changes nothing else of what is stored.
LEMMA TornType ==
    ASSUME GrantShapes, NEW cs, cs \subseteq Calls, \A d \in cs : Busy(d, "dialog"), NEW s \in Torn(cs)
    PROVE  s \in [ok : BOOLEAN, grants : SUBSET Grants]
           /\ (s.grants = {} \/ \E d \in cs : call[d].gen \in Gens /\ s.grants = kept[call[d].gen])
<1>1. \A d \in cs : call[d].gen \in Gens /\ kept[call[d].gen] \in SUBSET Grants
  BY CallKinds, DialogFields DEF GrantShapes
<1>2. CASE s = [ok |-> FALSE, grants |-> {}]
  BY <1>2
<1>3. CASE s \in {[ok |-> TRUE, grants |-> kept[call[d].gen]] : d \in cs}
  <2>1. PICK d \in cs : s = [ok |-> TRUE, grants |-> kept[call[d].gen]]
    BY <1>3
  <2>. QED
    BY <1>1, <2>1
<1>. QED
  BY <1>2, <1>3 DEF Torn

\* What the generation keeps goes into the temporary file.
LEMMA WriteTemporaryStep ==
    ASSUME GrantsInv, NEW c \in Calls, WriteTemporary(c)
    PROVE  GrantsInv'
<1>1. /\ GrantShapes /\ Numbered /\ Busy(c, "dialog") /\ call[c].pc = "write"
      /\ UNCHANGED <<current, loaded, skipped, mixed, held, file, exists>>
  BY DEF WriteTemporary, At, GrantsInv, files
<1>2. call[c] \in DialogCalls /\ call[c].gen \in Gens /\ call[c].pc \in Storing /\ call[c].pc \in Writing
  BY <1>1, CallKinds, DialogFields DEF Storing, Writing
<1>3. left' \in [dialog : Nat, reload : Nat, fault : Nat] /\ left'.reload = left.reload
  BY <1>1 DEF WriteTemporary, Spend, Keep, GrantShapes
<1>4. CASE take_back(c) /\ UNCHANGED <<store, overtaken>>
  BY <1>1, <1>2, <1>3, <1>4, TakeBackStep
<1>5. ASSUME Goto(c, "rename"), UNCHANGED <<grants, kept, temporary>>,
             \/ c \in temporary /\ UNCHANGED <<store, overtaken>>
             \/ c \notin temporary /\ store' \in Torn({c}) /\ Reaches(c)
      PROVE  GrantsInv'
  <2> DEFINE r == [call[c] EXCEPT !.pc = "rename"]
  <2>1. /\ r \in DialogCalls /\ r.gen = call[c].gen /\ r.pc = "rename" /\ r.got = call[c].got
        /\ r.paths = call[c].paths /\ r.op = "dialog" /\ r.persistent = call[c].persistent
        /\ r.access = call[c].access
    BY <1>1, <1>2 DEF DialogCalls, Storing
  <2>2. call' = [call EXCEPT ![c] = r]
    BY <1>1, <1>2, <1>5 DEF GrantShapes, Goto
  <2>. HIDE DEF r
  <2>3. /\ call'[c] = r
        /\ \A d \in Calls : d # c => call'[d] = call[d] /\ (Pending(d))' = Pending(d)
        /\ call' \in [Calls -> {Idle, Answered} \cup DialogCalls \cup WriteCalls]
        /\ AloneIsWhole' /\ HeldIsPast'
        /\ InOrder(c)
    BY <1>1, <1>3, <1>5, <2>1, <2>2, DialogMoves
  <2>4. store' \in [ok : BOOLEAN, grants : SUBSET Grants]
        /\ \A x \in store'.grants : x \in store.grants \/ \E h \in Gens : x \in kept[h]
    <3>1. CASE UNCHANGED store
      BY <1>1, <3>1 DEF GrantShapes
    <3>2. CASE store' \in Torn({c})
      BY <1>1, <3>2, TornType
    <3>. QED
      BY <1>5, <3>1, <3>2
  <2>5. GrantShapes'
    <3>1. overtaken' \in BOOLEAN
      BY <1>1, <1>5 DEF Reaches, GrantShapes
    <3>. QED
      BY <1>1, <1>3, <1>5, <2>3, <2>4, <3>1 DEF GrantShapes, Gens, Calls, Grants
  <2>6. InOrder(c)'
    <3>1. (Pending(c))' = Pending(c)
      BY <2>1, <2>3 DEF Pending
    <3>. QED
      BY <1>1, <1>2, <1>5, <2>1, <2>3, <3>1 DEF InOrder
  <2>7. Numbered'
    BY <1>1, <1>5, <2>3, <2>6, NumberedStays
  <2>8. \A d \in Calls : Busy(d, "dialog")' = Busy(d, "dialog") /\ call'[d].gen = call[d].gen
                         /\ (call'[d].pc \in Storing <=> call[d].pc \in Storing)
                         /\ (call'[d].pc \in Writing <=> call[d].pc \in Writing)
    BY <1>1, <1>2, <2>1, <2>3 DEF Busy, Storing, Writing
  <2>9. OneStores'
    <3>1. \A d \in Calls : TooMany(d)' = TooMany(d)
      BY <1>5, <2>8 DEF TooMany
    <3>. QED
      BY <2>8, <3>1 DEF GrantsInv, OneStores
  <2>10. TemporaryIsOwned'
    BY <1>1, <1>5, <2>8 DEF GrantsInv, TemporaryIsOwned, GrantShapes
  <2>11. c \notin temporary => mixed
    BY <1>1, <1>2 DEF GrantsInv, TemporaryIsOwned
  <2>12. StoreAlwaysLoads'
    BY <1>1, <1>5, <2>11 DEF GrantsInv, StoreAlwaysLoads, Loads
  <2>13. \A x \in Grants : Acquired(x)' => Acquired(x)
    BY <1>1, <2>1, <2>3 DEF Acquired, Busy
  <2>14. AcquiredIsKept'
    <3>1. CASE mixed
      BY <1>1, <3>1 DEF AcquiredIsKept
    <3>2. CASE ~mixed
      <4>1. current \in Gens /\ loaded \in Gens
        BY <1>1, GensInUse
      <4>. QED
        BY <1>1, <1>5, <2>11, <2>13, <3>2, <4>1, AcquiredStays DEF GrantsInv
    <3>. QED
      BY <3>1, <3>2
  <2>15. KeptIsStarted'
    <3>1. \A d \in Calls : call[d] # Idle => call'[d] # Idle
      BY <2>1, <2>3, AnsweredFields
    <3>2. \A h \in Gens : \A x \in kept[h] \cup skipped[h] : x.call \in Calls
      BY <1>1 DEF GrantShapes, Grants
    <3>3. \A x \in store.grants : x.call \in Calls /\ call[x.call] # Idle
      BY <1>1 DEF GrantsInv, KeptIsStarted, GrantShapes, Grants
    <3>4. \A h \in Gens : \A x \in kept[h] : call'[x.call] # Idle
      BY <3>1, <3>2 DEF GrantsInv, KeptIsStarted
    <3>5. \A x \in store'.grants : call'[x.call] # Idle
      BY <2>4, <3>1, <3>3, <3>4
    <3>. QED
      BY <1>1, <1>5, <2>8, <3>2, <3>4, <3>5 DEF GrantsInv, KeptIsStarted
  <2>. QED
    BY <2>3, <2>5, <2>7, <2>9, <2>10, <2>12, <2>14, <2>15 DEF GrantsInv
<1>. QED
  BY <1>4, <1>5 DEF WriteTemporary, Keep

\* The temporary file replaces the store.
LEMMA PublishStep ==
    ASSUME GrantsInv, NEW c \in Calls, Publish(c)
    PROVE  GrantsInv'
<1> DEFINE g == call[c].gen
           p == Pending(c)
<1>1. /\ GrantShapes /\ Numbered /\ Busy(c, "dialog") /\ call[c].pc = "rename"
      /\ UNCHANGED <<current, loaded, skipped, mixed, held, file, exists>>
  BY DEF Publish, At, GrantsInv, files
<1>2. call[c] \in DialogCalls /\ g \in Gens /\ call[c].pc \in Storing /\ call[c].pc \in Writing
      /\ call[c].got \in SUBSET Grants
  BY <1>1, CallKinds, DialogFields DEF Storing, Writing
<1>3. left' \in [dialog : Nat, reload : Nat, fault : Nat] /\ left'.reload = left.reload
  BY <1>1 DEF Publish, Spend, Keep, GrantShapes
<1>4. CASE take_back(c) /\ UNCHANGED <<store, overtaken>>
  BY <1>1, <1>2, <1>3, <1>4, TakeBackStep
<1>5. ASSUME temporary # {}, store' \in Published(c), Reaches(c), temporary' = {},
             call' = [call EXCEPT ![c].pc = "grant", ![c].paths = Tail(@), ![c].got = @ \cup {p}],
             UNCHANGED <<grants, kept>>
      PROVE  GrantsInv'
  <2> DEFINE r == [call[c] EXCEPT !.pc = "grant", !.paths = Tail(call[c].paths), !.got = call[c].got \cup {p}]
  <2>1. call[c].persistent /\ call[c].paths # <<>> /\ p \in kept[g] /\ p \in grants[g]
        /\ IsFiniteSet(call[c].got) /\ g <= current
        /\ Cardinality(call[c].got) + Len(call[c].paths) <= 2
        /\ \A x \in call[c].got : x.call = c /\ x.nth <= Cardinality(call[c].got)
    BY <1>1, <1>2 DEF Numbered, InOrder
  <2>2. /\ p \in Grants /\ p.call = c /\ p.nth = Cardinality(call[c].got) + 1
        /\ Tail(call[c].paths) \in Seq(Paths) /\ Len(Tail(call[c].paths)) = Len(call[c].paths) - 1
        /\ p \notin call[c].got /\ Cardinality(call[c].got) \in 0..1
    BY <1>1, <2>1, PendingType
  <2>3. /\ r \in DialogCalls /\ r.gen = g /\ r.pc = "grant" /\ r.got = call[c].got \cup {p}
        /\ r.paths = Tail(call[c].paths) /\ r.op = "dialog" /\ r.persistent = call[c].persistent
    BY <1>1, <1>2, <2>2 DEF DialogCalls
  <2>4. call' = [call EXCEPT ![c] = r]
    BY <1>1, <1>2, <1>5 DEF GrantShapes, DialogCalls
  <2>. HIDE DEF r
  <2>5. /\ call'[c] = r
        /\ \A d \in Calls : d # c => call'[d] = call[d] /\ (Pending(d))' = Pending(d)
        /\ call' \in [Calls -> {Idle, Answered} \cup DialogCalls \cup WriteCalls]
        /\ AloneIsWhole' /\ HeldIsPast'
    BY <1>1, <1>3, <2>3, <2>4, DialogMoves
  <2>6. \A d \in temporary : d \in Calls /\ Busy(d, "dialog")
    BY <1>1 DEF GrantsInv, TemporaryIsOwned, GrantShapes
  <2>7. store' \in [ok : BOOLEAN, grants : SUBSET Grants]
        /\ \A x \in store'.grants : \E h \in Gens : x \in kept[h]
    <3>1. CASE store' \in Torn(temporary)
      <4>1. temporary \subseteq Calls
        BY <2>6
      <4>. QED
        BY <1>1, <2>6, <3>1, <4>1, TornType
    <3>2. CASE store' = [ok |-> TRUE, grants |-> kept[g]]
      BY <1>1, <1>2, <3>2 DEF GrantShapes
    <3>. QED
      BY <1>5, <3>1, <3>2 DEF Published
  <2>8. ~mixed => store'.ok /\ store'.grants = kept[g]
    <3>1. ~mixed => temporary = {c}
      BY <1>1, <1>2 DEF GrantsInv, TemporaryIsOwned
    <3>. QED
      BY <1>5, <3>1 DEF Published
  <2>9. GrantShapes'
    <3>1. overtaken' \in BOOLEAN
      BY <1>1, <1>5 DEF Reaches, GrantShapes
    <3>. QED
      BY <1>1, <1>3, <1>5, <2>5, <2>7, <3>1 DEF GrantShapes, Gens, Calls, Grants
  <2>10. InOrder(c)'
    <3>1. IsFiniteSet(r.got) /\ Cardinality(r.got) = Cardinality(call[c].got) + 1
      <4>1. IsFiniteSet(call[c].got) /\ p \notin call[c].got
        BY <2>1, <2>2
      <4>2. IsFiniteSet(call[c].got \cup {p}) /\ Cardinality(call[c].got \cup {p}) = Cardinality(call[c].got) + 1
        BY <4>1, FS_AddElement, Zenon
      <4>. QED
        BY <2>3, <4>2
    <3>2. Len(call[c].paths) \in Nat
      BY <1>2, DialogFields
    <3>3. Cardinality(r.got) + Len(r.paths) <= 2
      BY <2>1, <2>2, <2>3, <3>1, <3>2
    <3>4. \A x \in r.got : x.call = c /\ x.nth <= Cardinality(r.got)
      <4>1. \A x \in call[c].got : x.nth \in Nat
        BY <1>2 DEF Grants
      <4>. QED
        BY <2>1, <2>2, <2>3, <3>1, <4>1
    <3>. QED
      BY <1>1, <2>1, <2>3, <2>5, <3>1, <3>3, <3>4 DEF InOrder, Storing
  <2>11. Numbered'
    BY <1>1, <1>5, <2>5, <2>10, NumberedStays
  <2>12. \A d \in Calls : /\ Busy(d, "dialog")' = Busy(d, "dialog")
                          /\ call'[d].gen = call[d].gen
                          /\ (call'[d].pc \in Storing <=> call[d].pc \in Storing /\ d # c)
                          /\ (call'[d].pc \in Writing <=> call[d].pc \in Writing /\ d # c)
    BY <1>1, <1>2, <2>3, <2>5 DEF Busy, Storing, Writing
  <2>13. OneStores'
    <3>1. \A d \in Calls : TooMany(d)' = TooMany(d)
      BY <1>5, <2>12 DEF TooMany
    <3>. QED
      BY <2>12, <3>1 DEF GrantsInv, OneStores
  <2>14. TemporaryIsOwned'
    <3>1. ~mixed => \A d \in Calls : Busy(d, "dialog") /\ call[d].pc \in Writing => d = c
      BY <1>1, <1>2 DEF GrantsInv, TemporaryIsOwned
    <3>. QED
      BY <1>1, <1>5, <2>12, <3>1 DEF TemporaryIsOwned
  <2>15. StoreAlwaysLoads'
    <3>1. ~TooMany(c)
      BY <1>1, <1>2 DEF GrantsInv, OneStores
    <3>2. Cardinality(kept[g]) \in Nat /\ MaxGrants \in Nat
      BY <1>1, <1>2, GrantsAreCounted, GrantsAssumption DEF GrantShapes, GrantsAssumption
    <3>3. Cardinality(kept[g]) <= MaxGrants
      BY <3>1, <3>2 DEF TooMany
    <3>. QED
      BY <1>1, <2>8, <3>3 DEF StoreAlwaysLoads, Loads
  <2>16. AcquiredIsKept'
    <3> SUFFICES ASSUME ~overtaken', ~mixed', NEW x \in Grants, Acquired(x)'
                 PROVE  /\ x \in store'.grants
                        /\ \A h \in {current, loaded} : x \in kept[h] /\ x \in grants[h] \cup skipped[h]
      BY <1>1, <1>5 DEF AcquiredIsKept, Grants, Calls
    <3>1. ~mixed /\ ~overtaken /\ ~(g < loaded)
      BY <1>1, <1>5 DEF Reaches
    <3>2. g = current /\ g = loaded
      BY <1>1, <1>2, <2>1, <3>1, GensInUse DEF Gens
    <3>3. x = p \/ Acquired(x)
      BY <1>1, <2>3, <2>5 DEF Acquired, Busy
    <3>4. store'.grants = kept[g]
      BY <2>8, <3>1
    <3>5. CASE x = p
      BY <2>1, <3>2, <3>4, <3>5
    <3>6. CASE Acquired(x)
      BY <3>1, <3>2, <3>4, <3>6 DEF GrantsInv, AcquiredIsKept
    <3>. QED
      BY <3>3, <3>5, <3>6
  <2>17. KeptIsStarted'
    <3>1. \A d \in Calls : call[d] # Idle => call'[d] # Idle
      BY <2>3, <2>5, AnsweredFields
    <3>2. \A h \in Gens : \A x \in kept[h] \cup skipped[h] : x.call \in Calls
      BY <1>1 DEF GrantShapes, Grants
    <3>3. \A h \in Gens : \A x \in kept[h] : call'[x.call] # Idle
      BY <3>1, <3>2 DEF GrantsInv, KeptIsStarted
    <3>4. \A x \in store'.grants : call'[x.call] # Idle
      BY <2>7, <3>3
    <3>. QED
      BY <1>1, <1>5, <2>12, <3>2, <3>3, <3>4 DEF GrantsInv, KeptIsStarted
  <2>. QED
    BY <2>5, <2>9, <2>11, <2>13, <2>14, <2>15, <2>16, <2>17 DEF GrantsInv
<1>. QED
  BY <1>4, <1>5 DEF Publish, Keep

-----------------------------------------------------------------------------
(* Steps of the other requests.                                              *)

\* A step that moves no dialog, nor what dialogs grant and store, leaves what
\* is said of them.
LEMMA DialogsStay ==
    ASSUME GrantsInv, GrantShapes',
           \A d \in Calls : Busy(d, "dialog") \/ Busy(d, "dialog")' => call'[d] = call[d],
           \A d \in Calls : call[d] # Idle => call'[d] # Idle,
           \A d \in Calls : call[d] = Answered => call'[d] = Answered,
           \A g \in Gens : grants[g] \subseteq grants'[g],
           UNCHANGED <<current, loaded, kept, skipped, store, temporary, overtaken, mixed>>,
           \A h \in held' : h \in held \/ (~h.persistent /\ call'[h.grant.call] = Answered)
    PROVE  /\ Numbered' /\ OneStores' /\ TemporaryIsOwned' /\ StoreAlwaysLoads'
           /\ KeptIsStarted' /\ AcquiredIsKept' /\ HeldIsPast'
<1>1. \A d \in Calls : /\ Busy(d, "dialog")' = Busy(d, "dialog")
                       /\ Busy(d, "dialog") => call'[d] = call[d] /\ (Pending(d))' = Pending(d)
  BY DEF Busy, Pending
<1>2. GrantShapes
  BY DEF GrantsInv
<1>3. Numbered'
  <2> SUFFICES ASSUME NEW d \in Calls, Busy(d, "dialog")
               PROVE  InOrder(d)'
    BY <1>1 DEF Numbered
  <2>1. call[d].gen \in Gens /\ InOrder(d)
    BY <1>2, CallKinds, DialogFields DEF GrantsInv, Numbered
  <2>. QED
    BY <1>1, <2>1 DEF InOrder
<1>4. OneStores'
  BY <1>1 DEF GrantsInv, OneStores, TooMany
<1>5. TemporaryIsOwned'
  BY <1>1, <1>2 DEF GrantsInv, TemporaryIsOwned, GrantShapes
<1>6. StoreAlwaysLoads'
  BY DEF GrantsInv, StoreAlwaysLoads, Loads
<1>7. KeptIsStarted'
  <2>1. \A h \in Gens : \A x \in kept[h] \cup skipped[h] : x.call \in Calls
    BY <1>2 DEF GrantShapes, Grants
  <2>2. \A x \in store.grants : x.call \in Calls
    BY <1>2 DEF GrantShapes, Grants
  <2>. QED
    BY <1>1, <2>1, <2>2 DEF GrantsInv, KeptIsStarted
<1>8. \A x \in Grants : Acquired(x)' => Acquired(x)
  BY <1>1 DEF Acquired
<1>9. AcquiredIsKept'
  BY <1>2, <1>8, GensInUse, AcquiredStays DEF GrantsInv
<1>10. HeldIsPast'
  <2>1. \A h \in held : h.grant.call \in Calls /\ call[h.grant.call] = Answered
    BY <1>2 DEF GrantsInv, HeldIsPast, GrantShapes, Grants
  <2>. QED
    BY <2>1 DEF HeldIsPast
<1>. QED
  BY <1>3, <1>4, <1>5, <1>6, <1>7, <1>9, <1>10

\* Files dropped on a window are granted for reading.
LEMMA DragDropStep ==
    ASSUME GrantsInv, NEW c \in Calls, drag_drop(c)
    PROVE  GrantsInv'
<1>1. PICK p \in exists :
        /\ grants' = [grants EXCEPT ![current] = @ \cup {Grant(c, 1, p, "Read")}]
        /\ held' = held \cup {[grant |-> Grant(c, 1, p, "Read"), persistent |-> FALSE]}
        /\ call' = [call EXCEPT ![c] = Answered]
  BY DEF drag_drop
<1>2. /\ GrantShapes /\ call[c] = Idle
      /\ UNCHANGED <<current, loaded, kept, skipped, store, temporary, overtaken, mixed, file, exists, left>>
  BY DEF drag_drop, Fresh, GrantsInv, files, Keep
<1>3. Grant(c, 1, p, "Read") \in Grants /\ Grant(c, 1, p, "Read").call = c
  BY <1>2 DEF Grant, Grants, GrantShapes
<1>4. call'[c] = Answered /\ \A d \in Calls : d # c => call'[d] = call[d]
  BY <1>1, <1>2, OthersStay
<1>5. GrantShapes'
  <2>1. grants' \in [Gens -> SUBSET Grants]
    BY <1>1, <1>2, <1>3 DEF GrantShapes
  <2>2. held' \subseteq [grant : Grants, persistent : BOOLEAN]
    <3>1. [grant |-> Grant(c, 1, p, "Read"), persistent |-> FALSE] \in [grant : Grants, persistent : BOOLEAN]
      BY <1>3
    <3>. QED
      BY <1>1, <1>2, <3>1 DEF GrantShapes
  <2>3. call' \in [Calls -> {Idle, Answered} \cup DialogCalls \cup WriteCalls]
    BY <1>1, <1>2 DEF GrantShapes
  <2>. QED
    BY <1>2, <2>1, <2>2, <2>3 DEF GrantShapes, Gens, Calls, Grants
<1>6. \A g \in Gens : grants[g] \subseteq grants'[g]
  BY <1>1, <1>2 DEF GrantShapes
<1>7. AloneIsWhole'
  BY <1>1, <1>2, WritesStay, AnsweredFields DEF GrantsInv
<1>8. \A h \in held' : h \in held \/ (~h.persistent /\ call'[h.grant.call] = Answered)
  BY <1>1, <1>3, <1>4
<1>9. \A d \in Calls : Busy(d, "dialog") \/ Busy(d, "dialog")' => call'[d] = call[d]
  BY <1>2, <1>4, AnsweredFields DEF Busy
<1>. QED
  BY <1>2, <1>4, <1>5, <1>6, <1>7, <1>8, <1>9, DialogsStay, AnsweredFields DEF GrantsInv

\* Writers of other files, and of files the step leaves alone.
LEMMA OpenWriteStep ==
    ASSUME GrantsInv, NEW c \in Calls, open_write(c)
    PROVE  GrantsInv'
<1>1. /\ GrantShapes /\ call[c] = Idle
      /\ UNCHANGED <<current, loaded, grants, kept, skipped, store, temporary, overtaken, mixed, held, left>>
  BY DEF open_write, Fresh, GrantsInv, granting, Keep
<1>2. PICK x \in held :
        \/ /\ file' = [file EXCEPT ![x.grant.path] = Truncated(x.grant.path)]
           /\ exists' = exists \cup {x.grant.path}
           /\ call' = [d \in Calls |->
                 IF d = c THEN [op |-> "write", path |-> x.grant.path, at |-> 0, attached |-> TRUE,
                                alone |-> Writers(x.grant.path) = {}]
                 ELSE IF d \in Writers(x.grant.path) THEN [call[d] EXCEPT !.alone = FALSE] ELSE call[d]]
        \/ call' = [call EXCEPT ![c] = Answered] /\ UNCHANGED <<file, exists>>
  BY DEF open_write, files
<1> DEFINE p == x.grant.path
<1>3. p \in Paths
  BY <1>1 DEF GrantShapes, Grants
<1>4. CASE call' = [call EXCEPT ![c] = Answered] /\ UNCHANGED <<file, exists>>
  <2>1. call'[c] = Answered /\ \A d \in Calls : d # c => call'[d] = call[d]
    BY <1>1, <1>4, OthersStay
  <2>2. call' \in [Calls -> {Idle, Answered} \cup DialogCalls \cup WriteCalls]
    BY <1>1, <1>4 DEF GrantShapes
  <2>3. GrantShapes'
    BY <1>1, <1>4, <2>2 DEF GrantShapes, Gens, Calls, Grants
  <2>4. AloneIsWhole'
    BY <1>1, <1>4, WritesStay, AnsweredFields DEF GrantsInv
  <2>5. \A d \in Calls : Busy(d, "dialog") \/ Busy(d, "dialog")' => call'[d] = call[d]
    BY <1>1, <2>1, AnsweredFields DEF Busy
  <2>. QED
    BY <1>1, <2>1, <2>3, <2>4, <2>5, DialogsStay, AnsweredFields DEF GrantsInv
<1>5. ASSUME file' = [file EXCEPT ![p] = <<>>], exists' = exists \cup {p},
             call' = [d \in Calls |->
                 IF d = c THEN [op |-> "write", path |-> p, at |-> 0, attached |-> TRUE,
                                alone |-> Writers(p) = {}]
                 ELSE IF d \in Writers(p) THEN [call[d] EXCEPT !.alone = FALSE] ELSE call[d]]
      PROVE  GrantsInv'
  <2> DEFINE r == [op |-> "write", path |-> p, at |-> 0, attached |-> TRUE, alone |-> Writers(p) = {}]
  <2>1. r \in WriteCalls /\ r.op = "write" /\ r.path = p /\ r.at = 0 /\ r.attached = TRUE
        /\ r.alone = (Writers(p) = {})
    <3>1. 0 \in 0..MaxStream
      BY GrantsAssumption DEF GrantsAssumption
    <3>. QED
      BY <1>3, <3>1 DEF WriteCalls
  <2>2. \A d \in Writers(p) : /\ d \in Calls /\ call[d] \in WriteCalls /\ call[d].op = "write" /\ call[d].path = p
                              /\ [call[d] EXCEPT !.alone = FALSE] \in WriteCalls
                              /\ [call[d] EXCEPT !.alone = FALSE].op = "write"
                              /\ [call[d] EXCEPT !.alone = FALSE].path = p
                              /\ [call[d] EXCEPT !.alone = FALSE].alone = FALSE
    <3> SUFFICES ASSUME NEW d \in Writers(p)
                 PROVE  /\ d \in Calls /\ call[d] \in WriteCalls /\ call[d].op = "write" /\ call[d].path = p
                        /\ [call[d] EXCEPT !.alone = FALSE] \in WriteCalls
                        /\ [call[d] EXCEPT !.alone = FALSE].op = "write"
                        /\ [call[d] EXCEPT !.alone = FALSE].path = p
                        /\ [call[d] EXCEPT !.alone = FALSE].alone = FALSE
      OBVIOUS
    <3>1. d \in Calls /\ call[d].op = "write" /\ call[d].path = p /\ call[d] \in WriteCalls
      BY <1>1, CallKinds DEF Writers, Busy
    <3>. QED
      BY <3>1 DEF WriteCalls
  <2>3. c \notin Writers(p)
    BY <1>1, AnsweredFields DEF Writers, Busy
  <2>. HIDE DEF r
  <2>4. call'[c] = r
    BY <1>5 DEF r
  <2>5. \A d \in Writers(p) : /\ call'[d] \in WriteCalls /\ call'[d].op = "write" /\ call'[d].path = p
                              /\ call'[d].alone = FALSE
    BY <1>5, <2>2, <2>3
  <2>6. \A d \in Calls : d # c /\ d \notin Writers(p) => call'[d] = call[d]
    BY <1>5
  <2>7. call' \in [Calls -> {Idle, Answered} \cup DialogCalls \cup WriteCalls]
    <3>1. \A d \in Calls : call'[d] \in {Idle, Answered} \cup DialogCalls \cup WriteCalls
      BY <1>1, <2>1, <2>4, <2>5, <2>6 DEF GrantShapes
    <3>. QED
      BY <1>5, <3>1
  <2>8. GrantShapes'
    <3>1. file' \in [Paths -> Seq({User} \cup Calls)] /\ exists' \subseteq Paths
      BY <1>1, <1>3, <1>5 DEF GrantShapes
    <3>. QED
      BY <1>1, <2>7, <3>1 DEF GrantShapes, Gens, Calls, Grants
  <2>9. \A d \in Calls : Busy(d, "dialog") \/ Busy(d, "dialog")' => call'[d] = call[d]
    BY <1>1, <2>1, <2>2, <2>4, <2>5, <2>6, AnsweredFields DEF Busy
  <2>10. \A d \in Calls : (call[d] # Idle => call'[d] # Idle) /\ (call[d] = Answered => call'[d] = Answered)
    BY <1>1, <2>2, <2>1, <2>4, <2>5, <2>6, AnsweredFields
  <2>11. AloneIsWhole'
    <3> SUFFICES ASSUME NEW d \in Calls, call'[d].op = "write", call'[d].alone
                 PROVE  /\ call'[d].attached
                        /\ \A e \in Calls : call'[e].op = "write" /\ call'[e].path = call'[d].path => e = d
                        /\ Whole(file'[call'[d].path], d, call'[d].at)
      BY DEF AloneIsWhole, Busy, Whole
    <3>1. d \notin Writers(p)
      BY <2>5
    <3>2. CASE d = c
      <4>1. Writers(p) = {}
        BY <2>1, <2>4, <3>2
      <4>2. \A e \in Calls : call'[e].op = "write" /\ call'[e].path = p => e = c
        BY <2>6, <4>1 DEF Writers, Busy
      <4>3. file'[p] = <<>>
        BY <1>1, <1>3, <1>5 DEF GrantShapes
      <4>. QED
        BY <2>1, <2>4, <3>2, <4>2, <4>3, WholeNothing
    <3>3. CASE d # c
      <4>1. call'[d] = call[d] /\ Busy(d, "write")
        BY <2>6, <3>1, <3>3 DEF Busy
      <4>2. call[d].path # p /\ call[d].path \in Paths
        BY <1>1, <3>1, <4>1, CallKinds DEF Writers, WriteCalls
      <4>3. file'[call[d].path] = file[call[d].path]
        BY <1>1, <1>5, <4>2 DEF GrantShapes
      <4>4. /\ call[d].attached
            /\ \A e \in Calls : call[e].op = "write" /\ call[e].path = call[d].path => e = d
            /\ Whole(file[call[d].path], d, call[d].at)
        BY <4>1 DEF GrantsInv, AloneIsWhole, Busy
      <4>5. \A e \in Calls : call'[e].op = "write" /\ call'[e].path = call[d].path => e = d
        BY <2>1, <2>4, <2>5, <2>6, <4>2, <4>4
      <4>. QED
        BY <4>1, <4>3, <4>4, <4>5
    <3>. QED
      BY <3>2, <3>3
  <2>. QED
    BY <1>1, <2>8, <2>9, <2>10, <2>11, DialogsStay DEF GrantsInv
<1>. QED
  BY <1>2, <1>4, <1>5 DEF Truncated

\* A write that goes on, or is answered.
LEMMA WriteStreamStep ==
    ASSUME GrantsInv, NEW c \in Calls, filesystem_write_stream(c) \/ WriteDone(c)
    PROVE  GrantsInv'
<1> DEFINE p == call[c].path
           n == call[c].at + 1
<1>1. /\ GrantShapes /\ Busy(c, "write")
      /\ UNCHANGED <<current, loaded, grants, kept, skipped, store, temporary, overtaken, mixed, held, exists>>
  BY DEF filesystem_write_stream, WriteDone, GrantsInv, granting, files
<1>2. call[c] \in WriteCalls /\ p \in Paths /\ call[c].at \in 0..MaxStream /\ MaxStream \in Nat
  BY <1>1, CallKinds, GrantsAssumption DEF WriteCalls, GrantsAssumption
<1>3. left' \in [dialog : Nat, reload : Nat, fault : Nat] /\ left'.reload = left.reload
  BY <1>1 DEF filesystem_write_stream, WriteDone, Spend, Keep, GrantShapes
<1>4. CASE call' = [call EXCEPT ![c] = Answered] /\ UNCHANGED file
  <2>1. call'[c] = Answered /\ \A d \in Calls : d # c => call'[d] = call[d]
    BY <1>1, <1>4, OthersStay
  <2>2. call' \in [Calls -> {Idle, Answered} \cup DialogCalls \cup WriteCalls]
    BY <1>1, <1>4 DEF GrantShapes
  <2>3. GrantShapes'
    BY <1>1, <1>3, <1>4, <2>2 DEF GrantShapes, Gens, Calls, Grants
  <2>4. AloneIsWhole'
    BY <1>1, <1>4, WritesStay, AnsweredFields DEF GrantsInv
  <2>5. \A d \in Calls : Busy(d, "dialog") \/ Busy(d, "dialog")' => call'[d] = call[d]
    BY <1>1, <2>1, AnsweredFields DEF Busy
  <2>. QED
    BY <1>1, <2>1, <2>3, <2>4, <2>5, DialogsStay, AnsweredFields DEF GrantsInv
<1>5. ASSUME Fits(n), call' = [call EXCEPT ![c].at = n],
             file' = IF call[c].attached THEN [file EXCEPT ![p] = Chunk(@, n, c)] ELSE file
      PROVE  GrantsInv'
  <2> DEFINE r == [call[c] EXCEPT !.at = n]
  <2>1. r \in WriteCalls /\ r.op = "write" /\ r.path = p /\ r.at = n /\ r.attached = call[c].attached
        /\ r.alone = call[c].alone
    <3>1. n \in 0..MaxStream
      BY <1>2, <1>5 DEF Fits
    <3>. QED
      BY <1>2, <3>1 DEF WriteCalls
  <2>2. call' = [call EXCEPT ![c] = r]
    BY <1>1, <1>5 DEF GrantShapes
  <2>. HIDE DEF r
  <2>3. call'[c] = r /\ \A d \in Calls : d # c => call'[d] = call[d]
    BY <1>1, <2>2, OthersStay
  <2>4. call' \in [Calls -> {Idle, Answered} \cup DialogCalls \cup WriteCalls]
    BY <1>1, <2>1, <2>2 DEF GrantShapes
  <2>5. file' \in [Paths -> Seq({User} \cup Calls)]
    <3>1. file[p] \in Seq({User} \cup Calls) /\ n \in Nat
      BY <1>1, <1>2 DEF GrantShapes
    <3>2. Chunk(file[p], n, c) \in Seq({User} \cup Calls)
      BY <3>1, ChunkType
    <3>. QED
      BY <1>1, <1>2, <1>5, <3>2 DEF GrantShapes
  <2>6. GrantShapes'
    BY <1>1, <1>3, <2>4, <2>5 DEF GrantShapes, Gens, Calls, Grants
  <2>7. \A d \in Calls : Busy(d, "dialog") \/ Busy(d, "dialog")' => call'[d] = call[d]
    BY <1>1, <2>1, <2>3 DEF Busy
  <2>8. \A d \in Calls : (call[d] # Idle => call'[d] # Idle) /\ (call[d] = Answered => call'[d] = Answered)
    BY <1>1, <2>1, <2>3, AnsweredFields DEF Busy
  <2>9. AloneIsWhole'
    <3> SUFFICES ASSUME NEW d \in Calls, call'[d].op = "write", call'[d].alone
                 PROVE  /\ call'[d].attached
                        /\ \A e \in Calls : call'[e].op = "write" /\ call'[e].path = call'[d].path => e = d
                        /\ Whole(file'[call'[d].path], d, call'[d].at)
      BY DEF AloneIsWhole, Busy, Whole
    <3>1. call[d].op = "write" /\ call[d].alone /\ call'[d].path = call[d].path /\ call'[d].attached = call[d].attached
      BY <1>1, <2>1, <2>3 DEF Busy
    <3>2. /\ call[d].attached
          /\ \A e \in Calls : call[e].op = "write" /\ call[e].path = call[d].path => e = d
          /\ Whole(file[call[d].path], d, call[d].at)
      BY <3>1 DEF GrantsInv, AloneIsWhole, Busy
    <3>3. \A e \in Calls : call'[e].op = call[e].op /\ (call'[e].op = "write" => call'[e].path = call[e].path)
      BY <1>1, <2>1, <2>3 DEF Busy
    <3>4. Whole(file'[call'[d].path], d, call'[d].at)
      <4>1. CASE d = c
        <5>1. file'[p] = Chunk(file[p], n, c)
          BY <1>1, <1>2, <1>5, <3>2, <4>1 DEF GrantShapes
        <5>2. Whole(Chunk(file[p], call[c].at + 1, c), c, call[c].at + 1)
          BY <1>2, <3>2, <4>1, WholeChunk
        <5>. QED
          BY <2>1, <2>3, <4>1, <5>1, <5>2
      <4>2. CASE d # c
        <5>1. call[d].path # p /\ call[d].path \in Paths
          BY <1>1, <3>1, <3>2, <4>2, CallKinds DEF WriteCalls, Busy
        <5>2. file'[call[d].path] = file[call[d].path]
          BY <1>1, <1>5, <5>1 DEF GrantShapes
        <5>. QED
          BY <2>3, <3>2, <4>2, <5>2
      <4>. QED
        BY <4>1, <4>2
    <3>. QED
      BY <3>1, <3>2, <3>3, <3>4
  <2>. QED
    BY <1>1, <2>6, <2>7, <2>8, <2>9, DialogsStay DEF GrantsInv
<1>. QED
  BY <1>4, <1>5 DEF filesystem_write_stream, WriteDone, native_task, files

-----------------------------------------------------------------------------
(* Reloads, restarts and removed files.                                      *)

\* A budget that is spent, and the numbers of the generations.
LEMMA Budgets ==
    ASSUME GrantShapes
    PROVE  /\ MaxReloads \in Nat /\ current \in Nat /\ loaded \in Nat /\ left.reload \in Nat
           /\ 1 <= current /\ current <= loaded /\ loaded <= MaxReloads + 1
           /\ loaded \in {current, current + 1}
           /\ loaded + left.reload <= MaxReloads + 1
           /\ \A kind \in {"reload", "fault"} : Spend(kind) =>
                left' \in [dialog : Nat, reload : Nat, fault : Nat]
           /\ Spend("reload") => left.reload > 0 /\ left'.reload = left.reload - 1
           /\ Spend("fault") => left'.reload = left.reload
  <1>1. MaxReloads \in Nat
    BY GrantsAssumption DEF GrantsAssumption
  <1>2. current \in Nat /\ 1 <= current /\ current <= loaded /\ loaded \in Nat /\ loaded \in {current, current + 1}
    BY <1>1 DEF GrantShapes, Gens
  <1>3. left.reload \in Nat /\ left.fault \in Nat /\ left.dialog \in Nat /\ loaded + left.reload <= MaxReloads + 1
    BY DEF GrantShapes
  <1>4. \A kind \in {"reload", "fault"} : Spend(kind) => left' \in [dialog : Nat, reload : Nat, fault : Nat]
    BY DEF GrantShapes, Spend
  <1>5. Spend("reload") => left.reload > 0 /\ left'.reload = left.reload - 1
    BY DEF GrantShapes, Spend
  <1>6. Spend("fault") => left'.reload = left.reload
    BY DEF GrantShapes, Spend
  <1>. QED
    BY <1>1, <1>2, <1>3, <1>4, <1>5, <1>6

\* A generation starts with what the store holds.
LEMMA PreparedFacts ==
    ASSUME GrantShapes, NEW g \in Gens, prepared(g)
    PROVE  /\ kept' \in [Gens -> SUBSET Grants] /\ grants' \in [Gens -> SUBSET Grants]
           /\ skipped' \in [Gens -> SUBSET Grants]
           /\ kept'[g] = store.grants /\ skipped'[g] \subseteq store.grants
           /\ grants'[g] \cup skipped'[g] = store.grants
           /\ \A h \in Gens : h # g => kept'[h] = kept[h] /\ grants'[h] = grants[h] /\ skipped'[h] = skipped[h]
  BY DEF GrantShapes, prepared, Usable

\* A reload prepares its generation of the services.
LEMMA PrepareStep ==
    ASSUME GrantsInv, prepare
    PROVE  GrantsInv'
<1> DEFINE g == current + 1
<1>1. /\ GrantShapes /\ loaded = current /\ Spend("reload")
      /\ UNCHANGED <<current, store, temporary, overtaken, mixed, call, held, file, exists>>
  BY DEF prepare, files, GrantsInv
<1>2. /\ left' \in [dialog : Nat, reload : Nat, fault : Nat] /\ left'.reload = left.reload - 1
      /\ current \in Nat /\ g \in Gens /\ g + left'.reload <= MaxReloads + 1 /\ MaxReloads \in Nat
      /\ current + left'.reload <= MaxReloads + 1
  BY <1>1, Budgets DEF Gens
<1>3. CASE UNCHANGED <<loaded, grants, kept, skipped>>
  <2>1. GrantShapes'
    <3>1. loaded' + left'.reload <= MaxReloads + 1
      BY <1>1, <1>2, <1>3
    <3>. QED
      BY <1>1, <1>2, <1>3, <3>1 DEF GrantShapes, Gens, Calls, Grants
  <2>2. \A d \in Calls : call'[d] = call[d]
    BY <1>1
  <2>3. AloneIsWhole'
    BY <1>1 DEF GrantsInv, AloneIsWhole, Busy, Whole
  <2>4. \A h \in held' : h \in held
    BY <1>1
  <2>. QED
    BY <1>1, <1>3, <2>1, <2>2, <2>3, <2>4, DialogsStay DEF GrantsInv
<1>4. ASSUME Loads(store), loaded' = g, prepared(g)
      PROVE  GrantsInv'
  <2>1. /\ kept' \in [Gens -> SUBSET Grants] /\ grants' \in [Gens -> SUBSET Grants]
        /\ skipped' \in [Gens -> SUBSET Grants]
        /\ kept'[g] = store.grants /\ skipped'[g] \subseteq store.grants
        /\ grants'[g] \cup skipped'[g] = store.grants
        /\ \A h \in Gens : h # g => kept'[h] = kept[h] /\ grants'[h] = grants[h] /\ skipped'[h] = skipped[h]
    BY <1>1, <1>2, <1>4, PreparedFacts
  <2>2. GrantShapes'
    BY <1>1, <1>2, <1>4, <2>1 DEF GrantShapes
  <2>3. \A d \in Calls : Busy(d, "dialog") => call[d].gen \in Gens /\ call[d].gen <= current /\ call[d].gen # g
    BY <1>1, <1>2, CallKinds, DialogFields DEF GrantsInv, Numbered, InOrder, Gens
  <2>4. Numbered'
    <3> SUFFICES ASSUME NEW d \in Calls, Busy(d, "dialog")
                 PROVE  InOrder(d)'
      BY <1>1 DEF Numbered, Busy
    <3>1. InOrder(d) /\ (Pending(d))' = Pending(d)
      BY <1>1 DEF GrantsInv, Numbered, Pending
    <3>. QED
      BY <1>1, <2>1, <2>3, <3>1 DEF InOrder
  <2>5. OneStores'
    BY <1>1, <2>1, <2>3 DEF GrantsInv, OneStores, TooMany, Busy
  <2>6. TemporaryIsOwned'
    BY <1>1 DEF GrantsInv, TemporaryIsOwned, Busy
  <2>7. StoreAlwaysLoads'
    BY <1>1 DEF GrantsInv, StoreAlwaysLoads, Loads
  <2>8. KeptIsStarted'
    <3>1. \A h \in Gens : skipped'[h] \subseteq kept'[h] /\ \A x \in kept'[h] : call[x.call] # Idle
      BY <2>1 DEF GrantsInv, KeptIsStarted
    <3>2. \A h \in Gens : \A x \in skipped'[h] : Busy(x.call, "dialog") => call[x.call].gen < h
      <4>1. \A x \in store.grants : x.call \in Calls
        BY <1>1 DEF GrantShapes, Grants
      <4>2. \A x \in skipped'[g] : Busy(x.call, "dialog") => call[x.call].gen < g
        BY <1>2, <2>1, <2>3, <4>1 DEF Gens
      <4>. QED
        BY <2>1, <4>2 DEF GrantsInv, KeptIsStarted
    <3>. QED
      BY <1>1, <3>1, <3>2 DEF GrantsInv, KeptIsStarted, Busy
  <2>9. AcquiredIsKept'
    <3> SUFFICES ASSUME ~overtaken, ~mixed, NEW x \in Grants, Acquired(x)
                 PROVE  /\ x \in store.grants
                        /\ \A h \in {current, g} : x \in kept'[h] /\ x \in grants'[h] \cup skipped'[h]
      BY <1>1, <1>4 DEF AcquiredIsKept, Acquired, Busy
    <3>1. x \in store.grants /\ x \in kept[current] /\ x \in grants[current] \cup skipped[current]
      BY DEF GrantsInv, AcquiredIsKept
    <3>2. current \in Gens /\ current # g
      BY <1>1, <1>2, GensInUse
    <3>. QED
      BY <2>1, <3>1, <3>2
  <2>10. HeldIsPast' /\ AloneIsWhole'
    BY <1>1 DEF GrantsInv, HeldIsPast, AloneIsWhole, Busy, Whole
  <2>. QED
    BY <2>2, <2>4, <2>5, <2>6, <2>7, <2>8, <2>9, <2>10 DEF GrantsInv
<1>. QED
  BY <1>3, <1>4 DEF prepare

\* A reload takes its generation into use, or gives it up.
LEMMA ReplaceStep ==
    ASSUME GrantsInv, Replace
    PROVE  GrantsInv'
<1>1. /\ GrantShapes /\ loaded > current /\ current \in Gens /\ loaded \in Gens
      /\ UNCHANGED <<grants, kept, skipped, store, temporary, overtaken, mixed, call, held, file, exists>>
      /\ \/ current' = loaded /\ loaded' = loaded /\ left' = left
         \/ loaded' = current /\ current' = current /\ Spend("fault")
  BY GensInUse DEF Replace, Keep, files, GrantsInv
<1>2. left' \in [dialog : Nat, reload : Nat, fault : Nat] /\ left'.reload = left.reload
      /\ current' \in {current, loaded} /\ loaded' \in {current, loaded} /\ loaded' \in {current', current' + 1}
      /\ current' >= current /\ loaded' + left'.reload <= MaxReloads + 1
  <2>1. left \in [dialog : Nat, reload : Nat, fault : Nat]
    BY <1>1 DEF GrantShapes
  <2>. QED
    BY <1>1, <2>1, Budgets
<1>3. GrantShapes'
  BY <1>1, <1>2 DEF GrantShapes, Gens, Calls, Grants
<1>4. Numbered'
  <2> SUFFICES ASSUME NEW d \in Calls, Busy(d, "dialog")
               PROVE  InOrder(d)'
    BY <1>1 DEF Numbered, Busy
  <2>1. InOrder(d) /\ (Pending(d))' = Pending(d) /\ call[d].gen \in Gens
    BY <1>1, CallKinds, DialogFields DEF GrantsInv, Numbered, Pending
  <2>2. call[d].gen <= current'
    BY <1>1, <1>2, <2>1 DEF InOrder, Gens
  <2>. QED
    BY <1>1, <2>1, <2>2 DEF InOrder
<1>5. OneStores' /\ TemporaryIsOwned' /\ StoreAlwaysLoads' /\ KeptIsStarted'
  BY <1>1 DEF GrantsInv, OneStores, TooMany, TemporaryIsOwned, StoreAlwaysLoads, Loads, KeptIsStarted, Busy
<1>6. AcquiredIsKept'
  BY <1>1, <1>2 DEF GrantsInv, AcquiredIsKept, Acquired, Busy, Grants, Calls
<1>7. HeldIsPast' /\ AloneIsWhole'
  BY <1>1 DEF GrantsInv, HeldIsPast, AloneIsWhole, Busy, Whole
<1>. QED
  BY <1>3, <1>4, <1>5, <1>6, <1>7 DEF GrantsInv

\* The host starts again, and its pages with it.
LEMMA RestartStep ==
    ASSUME GrantsInv, Restart
    PROVE  GrantsInv'
<1> DEFINE g == loaded + 1
<1>1. /\ GrantShapes /\ Spend("reload")
      /\ current' = g /\ loaded' = g /\ prepared(g) /\ temporary' = {}
      /\ call' = [c \in Calls |-> IF call[c].op \in {"dialog", "write"} THEN Answered ELSE call[c]]
      /\ UNCHANGED <<store, overtaken, mixed, held, file, exists>>
  BY DEF Restart, files, GrantsInv
<1>2. /\ left' \in [dialog : Nat, reload : Nat, fault : Nat] /\ left'.reload = left.reload - 1
      /\ g \in Gens /\ g + left'.reload <= MaxReloads + 1 /\ loaded \in Gens /\ current \in Gens
  BY <1>1, Budgets DEF Gens
<1>3. /\ kept' \in [Gens -> SUBSET Grants] /\ grants' \in [Gens -> SUBSET Grants]
      /\ skipped' \in [Gens -> SUBSET Grants]
      /\ kept'[g] = store.grants /\ skipped'[g] \subseteq store.grants
      /\ grants'[g] \cup skipped'[g] = store.grants
      /\ \A h \in Gens : h # g => kept'[h] = kept[h] /\ grants'[h] = grants[h] /\ skipped'[h] = skipped[h]
  BY <1>1, <1>2, PreparedFacts
<1>4. \A c \in Calls : /\ call'[c] = Answered \/ (call'[c] = call[c] /\ ~Busy(c, "dialog") /\ ~Busy(c, "write"))
                       /\ ~Busy(c, "dialog")' /\ ~Busy(c, "write")'
                       /\ call[c] # Idle => call'[c] # Idle
                       /\ call[c] = Answered => call'[c] = Answered
  BY <1>1, AnsweredFields DEF Busy
<1>5. call' \in [Calls -> {Idle, Answered} \cup DialogCalls \cup WriteCalls]
  BY <1>1 DEF GrantShapes
<1>6. GrantShapes'
  BY <1>1, <1>2, <1>3, <1>5 DEF GrantShapes
<1>7. Numbered' /\ OneStores' /\ TemporaryIsOwned' /\ AloneIsWhole'
  BY <1>1, <1>4 DEF Numbered, OneStores, TemporaryIsOwned, AloneIsWhole
<1>8. StoreAlwaysLoads'
  BY <1>1 DEF GrantsInv, StoreAlwaysLoads, Loads
<1>9. KeptIsStarted'
  <2>1. \A h \in Gens : \A x \in kept[h] \cup skipped[h] : x.call \in Calls
    BY <1>1 DEF GrantShapes, Grants
  <2>2. \A x \in store.grants : x.call \in Calls
    BY <1>1 DEF GrantShapes, Grants
  <2>3. \A h \in Gens : \A x \in kept'[h] : x.call \in Calls /\ call'[x.call] # Idle
    BY <1>3, <1>4, <2>1, <2>2 DEF GrantsInv, KeptIsStarted
  <2>4. \A h \in Gens : skipped'[h] \subseteq kept'[h]
    BY <1>3 DEF GrantsInv, KeptIsStarted
  <2>5. \A x \in store.grants : call'[x.call] # Idle
    BY <1>4, <2>2 DEF GrantsInv, KeptIsStarted
  <2>. QED
    BY <1>1, <1>4, <2>3, <2>4, <2>5 DEF KeptIsStarted
<1>10. AcquiredIsKept'
  <2> SUFFICES ASSUME ~overtaken, ~mixed, NEW x \in Grants, Acquired(x)'
               PROVE  x \in store.grants /\ x \in kept'[g] /\ x \in grants'[g] \cup skipped'[g]
    BY <1>1 DEF AcquiredIsKept
  <2>1. Acquired(x)
    BY <1>1, <1>4 DEF Acquired
  <2>. QED
    BY <1>3, <2>1 DEF GrantsInv, AcquiredIsKept
<1>11. HeldIsPast'
  <2>1. \A h \in held : h.grant.call \in Calls
    BY <1>1 DEF GrantShapes, Grants
  <2>. QED
    BY <1>1, <1>4, <2>1 DEF GrantsInv, HeldIsPast
<1>. QED
  BY <1>6, <1>7, <1>8, <1>9, <1>10, <1>11 DEF GrantsInv

\* A file disappears under those who write to it.
LEMMA RemoveFileStep ==
    ASSUME GrantsInv, RemoveFile
    PROVE  GrantsInv'
<1>1. PICK p \in exists :
        /\ exists' = exists \ {p}
        /\ call' = [c \in Calls |-> IF Busy(c, "write") /\ call[c].path = p
                                    THEN [call[c] EXCEPT !.attached = FALSE, !.alone = FALSE] ELSE call[c]]
  BY DEF RemoveFile
<1>2. /\ GrantShapes /\ left' \in [dialog : Nat, reload : Nat, fault : Nat] /\ left'.reload = left.reload
      /\ UNCHANGED <<current, loaded, grants, kept, skipped, store, temporary, overtaken, mixed, held, file>>
  <2>1. GrantShapes /\ Spend("fault")
    BY DEF RemoveFile, GrantsInv
  <2>. QED
    BY <2>1, Budgets DEF RemoveFile, granting
<1>3. \A c \in Calls :
        \/ call'[c] = call[c]
        \/ /\ Busy(c, "write") /\ call'[c] \in WriteCalls /\ call'[c].op = "write"
           /\ call'[c].path = call[c].path /\ call'[c].alone = FALSE
  <2> SUFFICES ASSUME NEW c \in Calls, Busy(c, "write"), call[c].path = p
               PROVE  /\ call'[c] \in WriteCalls /\ call'[c].op = "write"
                      /\ call'[c].path = call[c].path /\ call'[c].alone = FALSE
    BY <1>1
  <2>1. call[c] \in WriteCalls /\ call'[c] = [call[c] EXCEPT !.attached = FALSE, !.alone = FALSE]
    BY <1>1, <1>2, CallKinds
  <2>. QED
    BY <2>1 DEF WriteCalls
<1>4. call' \in [Calls -> {Idle, Answered} \cup DialogCalls \cup WriteCalls]
  <2>1. \A c \in Calls : call'[c] \in {Idle, Answered} \cup DialogCalls \cup WriteCalls
    BY <1>2, <1>3 DEF GrantShapes
  <2>. QED
    BY <1>1, <2>1
<1>5. GrantShapes'
  BY <1>1, <1>2, <1>4 DEF GrantShapes, Gens, Calls, Grants
<1>6. \A d \in Calls : Busy(d, "dialog") \/ Busy(d, "dialog")' => call'[d] = call[d]
  BY <1>3 DEF Busy
<1>7. \A d \in Calls : (call[d] # Idle => call'[d] # Idle) /\ (call[d] = Answered => call'[d] = Answered)
  BY <1>3, AnsweredFields DEF Busy
<1>8. AloneIsWhole'
  BY <1>2, <1>3 DEF GrantsInv, AloneIsWhole, Busy, Whole
<1>9. \A h \in held' : h \in held
  BY <1>2
<1>. QED
  BY <1>2, <1>5, <1>6, <1>7, <1>8, <1>9, DialogsStay DEF GrantsInv

-----------------------------------------------------------------------------
\* Every step keeps the invariant.
LEMMA GrantsInvKept == GrantsInv /\ [GrantsNext]_grants_vars => GrantsInv'
<1> SUFFICES ASSUME GrantsInv, [GrantsNext]_grants_vars
             PROVE  GrantsInv'
  OBVIOUS
<1>1. CASE UNCHANGED grants_vars
  <2>1. GrantShapes'
    BY <1>1 DEF grants_vars, GrantsInv, GrantShapes, Gens, Calls, Grants
  <2>2. AloneIsWhole'
    BY <1>1 DEF grants_vars, GrantsInv, AloneIsWhole, Busy, Whole
  <2>3. \A h \in held' : h \in held
    BY <1>1 DEF grants_vars
  <2>. QED
    BY <1>1, <2>1, <2>2, <2>3, DialogsStay DEF grants_vars, GrantsInv
<1>2. ASSUME NEW c \in Calls,
             \/ dialog(c) \/ show_dialog(c) \/ DialogLost(c) \/ grant_path(c) \/ persist_grants(c)
             \/ WriteTemporary(c) \/ Publish(c) \/ DialogDone(c) \/ drag_drop(c)
             \/ open_write(c) \/ filesystem_write_stream(c) \/ WriteDone(c)
      PROVE  GrantsInv'
  BY <1>2, DialogStep, ShowDialogStep, DialogLostStep, GrantPathStep, PersistGrantsStep,
     WriteTemporaryStep, PublishStep, DialogDoneStep, DragDropStep, OpenWriteStep, WriteStreamStep
<1>3. CASE prepare \/ Replace \/ Restart \/ RemoveFile
  BY <1>3, PrepareStep, ReplaceStep, RestartStep, RemoveFileStep
<1>. QED
  BY <1>1, <1>2, <1>3 DEF GrantsNext

\* The invariant holds of every state a host reaches.
LEMMA GrantsInvAlways == GrantsSpec => []GrantsInv
  BY GrantsInitially, GrantsInvKept, PTL DEF GrantsSpec

\* Grants, requests and files keep their shapes, and budgets their bounds.
THEOREM GrantsTypeCorrect == GrantsSpec => []GrantsTypeOK
<1>1. GrantsInv => GrantsTypeOK
  <2> SUFFICES ASSUME GrantsInv PROVE GrantsTypeOK
    OBVIOUS
  <2>1. temporary \subseteq {c \in Calls : Busy(c, "dialog")}
    BY DEF GrantsInv, GrantShapes, TemporaryIsOwned
  <2>2. \A c \in Calls : Busy(c, "write") => call[c].at \in 0..MaxStream
    BY CallKinds DEF GrantsInv, WriteCalls
  <2>3. \A g \in Gens : grants[g] \subseteq Grants /\ kept[g] \subseteq Grants /\ skipped[g] \subseteq kept[g]
    BY DEF GrantsInv, GrantShapes, KeptIsStarted
  <2>. QED
    BY <2>1, <2>2, <2>3 DEF GrantsInv, GrantShapes, GrantsTypeOK
<1>. QED
  BY GrantsInvAlways, <1>1, PTL

\* While no generation changes the store behind a later one, and two of
\* them do not meet in its temporary file, a reference given to a page as
\* persistent (grant_path, persist_grants) is in the store and is opened by
\* every generation that follows, or is reported as skipped.
THEOREM KeptReferences == GrantsSpec => []KeptUnlessOvertaken
<1>1. GrantsInv => KeptUnlessOvertaken
  <2> SUFFICES ASSUME GrantsInv, ~overtaken, ~mixed, NEW h \in held, h.persistent
               PROVE  h.grant \in store.grants /\ h.grant \in grants[current] \cup skipped[current]
    BY DEF KeptUnlessOvertaken
  <2>1. h.grant \in Grants /\ Acquired(h.grant)
    BY DEF GrantsInv, GrantShapes, Acquired
  <2>. QED
    BY <2>1 DEF GrantsInv, AcquiredIsKept
<1>. QED
  BY GrantsInvAlways, <1>1, PTL

\* The store can be decoded unless two generations wrote its temporary file at
\* once: create, write and rename leave no other way to a torn store, and a
\* host that ends between them leaves the store as it was.
THEOREM StoreCanBeRead == GrantsSpec => []StoreAlwaysLoads
<1>1. GrantsInv => StoreAlwaysLoads
  BY DEF GrantsInv
<1>. QED
  BY GrantsInvAlways, <1>1, PTL

\* A write that no other writer and no removal disturbed is answered with all of
\* its chunks, and nothing else, in the file (filesystem_write_stream).
THEOREM WritesAreWhole == GrantsSpec => WrittenIsWhole
<1>1. GrantsInv => \A c \in Calls : WriteDone(c) /\ call[c].alone => Whole(file[call[c].path], c, call[c].at)
  BY DEF GrantsInv, AloneIsWhole, WriteDone
<1>. QED
  BY GrantsInvAlways, <1>1, PTL DEF GrantsSpec, WrittenIsWhole
=============================================================================
