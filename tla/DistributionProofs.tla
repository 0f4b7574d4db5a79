------------------------- MODULE DistributionProofs -------------------------
(***************************************************************************)
(* How a version reaches its users: the builds that publish it, the        *)
(* updater that offers and fetches it, and the helper that puts it in      *)
(* place.                                                                  *)
(*                                                                         *)
(* The helper, for every set of archives and any number of crashes and     *)
(* faults: whatever it is interrupted in, a complete version can be had,   *)
(* and it implements UpdateContract.                                       *)
(*                                                                         *)
(* The updater, for any releases, calls, reloads and tampered answers:     *)
(* what it installs is newer, and a helper finds the archive it was        *)
(* started for.                                                            *)
(*                                                                         *)
(* The packager, for any builds, projects, requests and failures: what it  *)
(* publishes is whole and verifies, and replaces what was there only when  *)
(* it is ready.                                                            *)
(***************************************************************************)
EXTENDS UpdateApply, Updater, Packager, WellFoundedInduction, TLAPS


\* The steps at which the bundle in place is complete, those at which the
\* backup is, and what the journal says at each.
InPlace == {"finish", "reset", "extract", "dropbackup", "dropfailed", "begin",
            "swapout", "forget", "commit", "cleanup"}
SetBy == {"clearfailed", "quarantine", "restore", "swapin", "verify", "setaside",
          "undo"}
Unjournaled == {"extract", "dropbackup", "dropfailed", "begin", "cleanup"}
Journaled == {"finish", "checkbackup", "clearfailed", "quarantine", "restore",
              "reset", "swapout", "swapin", "verify", "setaside", "undo", "forget",
              "commit"}

\* What is complete exists.
Complete == /\ bundle.ok => Exists(bundle)
            /\ backup.ok => Exists(backup)

Phases == /\ pc = "idle" <=> arch = 0
          /\ pc \in {"idle", "reconcile"} /\ transaction = 0 => bundle.ok
          /\ pc \in InPlace => bundle.ok
          /\ pc \in SetBy => backup.ok
          /\ pc \in Unjournaled => transaction = 0
          /\ pc \in Journaled => transaction = arch
          /\ pc \in {"dropfailed", "begin", "swapout"} => backup = NoBundle
          /\ pc \in {"restore", "swapin"} => ~bundle.ok

\* The inductive invariant.
IInv == TypeOK /\ Complete /\ Phases /\ Recoverable

-----------------------------------------------------------------------------
\* The directories a step can produce are directories.
LEMMA DirFacts ==
    /\ NoBundle \in Dirs
    /\ \A a \in Versions : Good(a) \in Dirs
    /\ \A d \in Dirs : Bad(d) \in Dirs
    /\ \A d \in Dirs : Bad(d).ok = FALSE
    /\ \A a \in Versions : Good(a).ok = TRUE /\ Good(a).v = a
    /\ NoBundle.ok = FALSE /\ NoBundle.v = 0
  BY DEF NoBundle, Good, Bad, Dirs, Versions

\* The helper starts from an installed bundle and no journal.
LEMMA InitIInv == Init => IInv
  BY UpdateAssumption DEF Init, IInv, TypeOK, Complete, Phases, Recoverable, Dirs,
     Versions, Steps, Good, NoBundle, Exists, InPlace, SetBy, Unjournaled, Journaled

\* Every step of the helper, every error and every kill preserves it.
LEMMA NextIInv == IInv /\ [Next]_vars => IInv'
<1> SUFFICES ASSUME IInv, [Next]_vars
             PROVE  IInv'
  OBVIOUS
<1> USE UpdateAssumption, DirFacts
    DEF IInv, TypeOK, Complete, Phases, Recoverable, Exists, Steps, InPlace, SetBy,
        Unjournaled, Journaled, At, Goto, Return, Faulty, Accepted, Refused, dirs, Versions
<1>1. ASSUME NEW a \in Archives, Launch(a)
      PROVE  IInv'
  BY <1>1 DEF Launch
<1>2. CASE RefuseToStart
  BY <1>2 DEF RefuseToStart
<1>3. CASE StartFresh
  BY <1>3 DEF StartFresh
<1>4. CASE AlreadyInstalled
  BY <1>4 DEF AlreadyInstalled
<1>5. CASE QuarantineInterrupted
  BY <1>5 DEF QuarantineInterrupted
<1>6. CASE CheckBackup
  BY <1>6 DEF CheckBackup
<1>7. CASE RestoreMissing
  BY <1>7 DEF RestoreMissing
<1>8. CASE ResumeUnstarted
  BY <1>8 DEF ResumeUnstarted
<1>9. CASE FinishRecovered
  BY <1>9 DEF FinishRecovered
<1>10. CASE ClearFailed
  BY <1>10 DEF ClearFailed
<1>11. CASE Quarantine
  BY <1>11 DEF Quarantine
<1>12. CASE Restore
  BY <1>12 DEF Restore
<1>13. CASE Reset
  BY <1>13 DEF Reset
<1>14. CASE Extract
  BY <1>14 DEF Extract
<1>15. CASE DropBackup
  BY <1>15 DEF DropBackup
<1>16. CASE DropFailed
  BY <1>16 DEF DropFailed
<1>17. CASE WriteTransaction
  BY <1>17 DEF WriteTransaction
<1>18. CASE SwapOut
  BY <1>18 DEF SwapOut
<1>19. CASE SwapIn
  BY <1>19 DEF SwapIn
<1>20. CASE VerifyInstalled
  BY <1>20 DEF VerifyInstalled
<1>21. CASE SetAside
  BY <1>21 DEF SetAside
<1>22. CASE Undo
  BY <1>22 DEF Undo
<1>23. CASE Forget
  BY <1>23 DEF Forget
<1>24. CASE Commit
  BY <1>24 DEF Commit
<1>25. CASE Cleanup
  BY <1>25 DEF Cleanup
<1>26. CASE Fault
  BY <1>26 DEF Fault, ReturnError, ReturnsErrors
<1>27. CASE Crash
  BY <1>27 DEF Crash
<1>28. CASE UNCHANGED vars
  BY <1>28 DEF vars
<1> QED
  BY <1>1, <1>2, <1>3, <1>4, <1>5, <1>6, <1>7, <1>8, <1>9, <1>10,
     <1>11, <1>12, <1>13, <1>14, <1>15, <1>16, <1>17, <1>18, <1>19, <1>20,
     <1>21, <1>22, <1>23, <1>24, <1>25, <1>26, <1>27, <1>28 DEF Next, Reconcile, Apply

\* It holds of every state the helper reaches.
LEMMA AlwaysIInv == Spec => []IInv
  BY InitIInv, NextIInv, PTL DEF Spec

-----------------------------------------------------------------------------
\* Every state of the helper and of the directories it moves is well typed.
THEOREM TypeCorrect == Spec => []TypeOK
<1>1. IInv => TypeOK
  BY DEF IInv
<1> QED
  BY AlwaysIInv, <1>1, PTL

\* updater.rs, apply: whatever is killed, fails or is repeated, a complete
\* version of the application is in place or in .previous.
THEOREM AlwaysRecoverable == Spec => []Recoverable
<1>1. IInv => Recoverable
  BY DEF IInv
<1> QED
  BY AlwaysIInv, <1>1, PTL

\* updater.rs, apply: when the helper has ended without leaving a journal, the
\* application can be started as it is.
THEOREM AlwaysRunnable == Spec => []NoJournalMeansRunnable
<1>1. IInv => NoJournalMeansRunnable
  BY DEF IInv, Phases, NoJournalMeansRunnable
<1> QED
  BY AlwaysIInv, <1>1, PTL

\* updater.rs, read_update_transaction: a journal of another archive keeps the
\* helper from moving, removing or forgetting anything.
THEOREM ForeignJournalRespected == Spec => ForeignJournalIsLeftAlone
<1>1. ASSUME IInv, [Next]_vars, transaction # 0, arch # transaction
      PROVE  UNCHANGED <<dirs, transaction, staged>>
  <2> USE <1>1 DEF IInv, Phases, Unjournaled, Journaled, TypeOK, Steps, At, dirs
  <2>1. pc \in {"idle", "reconcile"}
    OBVIOUS
  <2>2. CASE \E a \in Archives : Launch(a)
    BY <2>2 DEF Launch
  <2>3. CASE Reconcile
    BY <2>1, <2>3 DEF Reconcile, RefuseToStart, StartFresh, AlreadyInstalled,
       QuarantineInterrupted, CheckBackup, RestoreMissing, ResumeUnstarted,
       FinishRecovered, ClearFailed, Quarantine, Restore, Reset
  <2>4. CASE Apply
    BY <2>1, <2>4 DEF Apply, Extract, DropBackup, DropFailed, WriteTransaction, SwapOut,
       SwapIn, VerifyInstalled, SetAside, Undo, Forget, Commit, Cleanup
  <2>5. CASE Fault
    BY <2>5 DEF Fault, ReturnError
  <2>6. CASE Crash
    BY <2>1, <2>6 DEF Crash
  <2>7. CASE UNCHANGED vars
    BY <2>7 DEF vars
  <2> QED
    BY <1>1, <2>2, <2>3, <2>4, <2>5, <2>6, <2>7 DEF Next
<1> QED
  BY AlwaysIInv, <1>1, PTL DEF Spec, ForeignJournalIsLeftAlone

-----------------------------------------------------------------------------
(* Refinement.                                                             *)

\* Steps that leave both directories leave what the contract speaks of.
LEMMA SameDirs ==
    ASSUME UNCHANGED <<bundle, backup>>
    PROVE  UNCHANGED <<Current, Fallback>>
  BY DEF Current, Fallback

\* The version installed at first, and the one kept beside it.
LEMMA RefineInit == Init => Contract!Init
  BY UpdateAssumption DEF Init, Contract!Init, Current, Fallback, Good, NoBundle, Versions

\* The swap is the contract's Install, the rollbacks its Revert, and making room
\* for the next backup, finished or cut short, its Discard.
LEMMA RefineNext ==
    IInv /\ [Next]_vars => [Contract!Next]_<<Current, Fallback>>
<1> SUFFICES ASSUME IInv, [Next]_vars
             PROVE  [Contract!Next]_<<Current, Fallback>>
  OBVIOUS
<1> USE UpdateAssumption, DirFacts
    DEF IInv, Phases, InPlace, SetBy, Unjournaled, Journaled, At
<1>1. CASE UNCHANGED <<bundle, backup>>
  BY <1>1, SameDirs
<1>2. CASE Quarantine
  BY <1>2 DEF Quarantine, Current, Fallback, Contract!Next, Contract!Revert
<1>3. CASE Restore
  BY <1>3 DEF Restore, Current, Fallback
<1>4. CASE DropBackup
  BY <1>4 DEF DropBackup, Current, Fallback, Contract!Next, Contract!Discard
<1>5. CASE SwapOut
  BY <1>5 DEF SwapOut, Current, Fallback
<1>6. CASE SwapIn
  <2>1. arch \in Versions
    BY <1>6 DEF SwapIn, TypeOK, Versions
  <2>2. CASE bundle' = Good(arch)
    <3>1. Current' = arch /\ Fallback' = backup.v /\ Current = backup.v
      BY <1>6, <2>1, <2>2 DEF SwapIn, Current, Fallback
    <3> QED
      BY <2>1, <3>1 DEF Contract!Next, Contract!Install
  <2>3. CASE ~bundle'.ok
    BY <1>6, <2>3 DEF SwapIn, Current, Fallback
  <2> QED
    BY <1>6, <2>1, <2>2, <2>3 DEF SwapIn, Bad, Good
<1>7. CASE SetAside
  BY <1>7 DEF SetAside, Current, Fallback, Contract!Next, Contract!Revert
<1>8. CASE Undo
  BY <1>8 DEF Undo, Current, Fallback, Complete, Exists
<1>9. CASE Crash
  <2>1. CASE At("dropbackup") /\ Exists(backup)
    <3>1. Current' = Current /\ Fallback' = Current
      BY <1>9, <2>1 DEF Crash, Current, Fallback, TypeOK
    <3> QED
      BY <3>1 DEF Contract!Next, Contract!Discard
  <2>2. CASE ~(At("dropbackup") /\ Exists(backup))
    BY <1>9, <2>2, SameDirs DEF Crash
  <2> QED
    BY <2>1, <2>2
<1>10. \/ UNCHANGED <<bundle, backup>> \/ Quarantine \/ Restore \/ DropBackup
       \/ SwapOut \/ SwapIn \/ SetAside \/ Undo \/ Crash
  BY DEF Next, Launch, Reconcile, Apply, RefuseToStart, StartFresh, AlreadyInstalled,
     QuarantineInterrupted, CheckBackup, RestoreMissing, ResumeUnstarted,
     FinishRecovered, ClearFailed, Reset, Extract, DropFailed, WriteTransaction,
     VerifyInstalled, Forget, Commit, Cleanup, Fault, ReturnError, dirs, vars
<1> QED
  BY <1>1, <1>2, <1>3, <1>4, <1>5, <1>6, <1>7, <1>8, <1>9, <1>10

\* docs/updates.md, "Interrupted installation recovery": the helper's renames,
\* crashes and recoveries implement the contract of UpdateContract.
THEOREM HelperImplementsContract == Spec => ImplementsContract
  BY AlwaysIInv, RefineInit, RefineNext, PTL DEF Spec, ImplementsContract, Contract!Spec

-----------------------------------------------------------------------------
(* The updater: the order of versions.                                       *)

\* A set of numbers that is not empty has a least one.
LEMMA LeastIndex ==
    ASSUME NEW s \in SUBSET Nat, s # {}
    PROVE  \E i \in s : \A j \in s : i <= j
<1>1. PICK i \in s : \A j \in s : ~(<<j, i>> \in OpToRel(<, Nat))
  BY NatLessThanWellFounded, WFMin, Zenon
<1>2. \A j \in s : ~(j < i)
  BY <1>1 DEF OpToRel
<1>3. \A j \in s : j \in Nat /\ i \in Nat
  OBVIOUS
<1>. QED
  BY <1>2, <1>3

\* What FirstDifference finds is the first difference.
LEMMA FirstDifferenceIsFirst ==
    ASSUME NEW n \in Nat, NEW order \in [1..n -> Int]
    PROVE  /\ FirstDifference(order) = 0 => \A i \in 1..n : order[i] = 0
           /\ FirstDifference(order) # 0 =>
                \E i \in 1..n : order[i] = FirstDifference(order) /\ \A j \in 1..(i - 1) : order[j] = 0
<1> DEFINE differ == {i \in DOMAIN order : order[i] # 0}
           first == CHOOSE i \in differ : \A j \in differ : i <= j
<1>1. CASE differ = {}
  BY <1>1 DEF FirstDifference
<1>2. CASE differ # {}
  <2>1. differ \in SUBSET Nat /\ differ \subseteq 1..n
    OBVIOUS
  <2>2. \E i \in differ : \A j \in differ : i <= j
    BY <1>2, <2>1, LeastIndex
  <2>3. first \in differ /\ \A j \in differ : first <= j
    <3>. HIDE DEF differ
    <3>. QED
      BY <2>2
  <2>4. FirstDifference(order) = order[first]
    BY <1>2 DEF FirstDifference
  <2>5. \A j \in 1..(first - 1) : j \in 1..n /\ j \notin differ
    <3>. HIDE DEF first
    <3>. QED
      BY <2>1, <2>3
  <2>6. \A j \in 1..(first - 1) : order[j] = 0
    <3>. HIDE DEF first
    <3>. QED
      BY <2>5
  <2>7. first \in 1..n /\ order[first] # 0
    <3>. HIDE DEF first
    <3>. QED
      BY <2>1, <2>3
  <2>. HIDE DEF first
  <2>. QED
    BY <2>4, <2>6, <2>7
<1>. QED
  BY <1>1, <1>2

\* A number that is left out of a version counts as 0.
LEMMA PartType ==
    ASSUME NEW s \in Seq(Nat), NEW i \in Nat \ {0}
    PROVE  Part(s, i) \in Nat
  BY DEF Part

\* The longer of two sequences.
LEMMA LongerType ==
    ASSUME NEW S, NEW T, NEW s \in Seq(S), NEW t \in Seq(T)
    PROVE  /\ Longer(s, t) \in Nat /\ Longer(s, t) = Longer(t, s)
           /\ Len(s) <= Longer(s, t) /\ Len(t) <= Longer(s, t)
           /\ Longer(s, t) = Len(s) \/ Longer(s, t) = Len(t)
  BY DEF Longer

\* The cores are compared number by number.
LEMMA CoresAreCompared ==
    ASSUME NEW l \in Seq(Nat), NEW r \in Seq(Nat)
    PROVE  /\ compare_core(l, r) = 1 => CoreBefore(r, l)
           /\ compare_core(l, r) = 0 => SameCore(r, l, Longer(r, l))
<1> DEFINE n == Longer(l, r)
           order == [i \in 1..n |-> Sign(Part(l, i), Part(r, i))]
<1>1. n \in Nat /\ Longer(r, l) = n
  BY LongerType
<1>2. \A i \in 1..n : Part(l, i) \in Nat /\ Part(r, i) \in Nat
  BY <1>1, PartType
<1>3. order \in [1..n -> Int] /\ compare_core(l, r) = FirstDifference(order)
  BY DEF Sign, compare_core
<1>4. \A i \in 1..n : /\ order[i] = 1 => Part(r, i) < Part(l, i)
                      /\ order[i] = 0 => Part(r, i) = Part(l, i)
  BY <1>2 DEF Sign
<1>. HIDE DEF n, order
<1>5. /\ FirstDifference(order) = 0 => \A i \in 1..n : order[i] = 0
      /\ FirstDifference(order) # 0 =>
           \E i \in 1..n : order[i] = FirstDifference(order) /\ \A j \in 1..(i - 1) : order[j] = 0
  BY <1>1, <1>3, FirstDifferenceIsFirst, Zenon
<1>6. CASE compare_core(l, r) = 1
  <2>1. PICK i \in 1..n : order[i] = 1 /\ \A j \in 1..(i - 1) : order[j] = 0
    BY <1>3, <1>5, <1>6
  <2>2. \A j \in 1..(i - 1) : j \in 1..n
    BY <1>1
  <2>. QED
    BY <1>1, <1>4, <1>6, <2>1, <2>2 DEF CoreBefore, SameCore
<1>7. CASE compare_core(l, r) = 0
  BY <1>1, <1>3, <1>4, <1>5, <1>7 DEF SameCore
<1>. QED
  BY <1>6, <1>7

\* The parts of a pre-release.
Identifiers == [name : BOOLEAN, is : Nat]

\* Numbers come before names, and each are compared among themselves.
LEMMA IdentifiersAreCompared ==
    ASSUME NEW a \in Identifiers, NEW b \in Identifiers
    PROVE  /\ CompareIdentifiers(a, b) \in {-1, 0, 1}
           /\ CompareIdentifiers(a, b) = 1 => IdentifierBefore(b, a)
           /\ CompareIdentifiers(a, b) = 0 => a = b
  BY DEF Identifiers, CompareIdentifiers, IdentifierBefore, Sign

\* The identifiers of pre-releases are compared one by one, and the shorter
\* list comes first.
LEMMA PreReleasesAreCompared ==
    ASSUME NEW l \in Seq(Identifiers), NEW r \in Seq(Identifiers), compare_prerelease(l, r) = 1
    PROVE  PreReleaseBefore(r, l)
<1> DEFINE n == Longer(l, r)
           order == [i \in 1..n |-> IF i > Len(r) THEN 1
                                    ELSE IF i > Len(l) THEN -1
                                    ELSE CompareIdentifiers(l[i], r[i])]
<1>1. n \in Nat /\ (n = Len(l) \/ n = Len(r)) /\ Len(l) \in Nat /\ Len(r) \in Nat
  BY LongerType
<1>2. \A i \in 1..n : /\ i <= Len(l) => l[i] \in Identifiers
                      /\ i <= Len(r) => r[i] \in Identifiers
  BY <1>1
<1>3. order \in [1..n -> Int] /\ FirstDifference(order) = 1
  BY <1>1, <1>2, IdentifiersAreCompared DEF compare_prerelease
<1>4. \A i \in 1..n : order[i] = IF i > Len(r) THEN 1 ELSE IF i > Len(l) THEN -1
                                 ELSE CompareIdentifiers(l[i], r[i])
  OBVIOUS
<1>. HIDE DEF n, order
<1>5. FirstDifference(order) # 0 =>
        \E i \in 1..n : order[i] = FirstDifference(order) /\ \A j \in 1..(i - 1) : order[j] = 0
  BY <1>1, <1>3, FirstDifferenceIsFirst, Zenon
<1>6. PICK i \in 1..n : order[i] = 1 /\ \A j \in 1..(i - 1) : order[j] = 0
  BY <1>3, <1>5
<1>7. \A j \in 1..(i - 1) : j <= Len(r) /\ j <= Len(l) /\ r[j] = l[j]
  <2> SUFFICES ASSUME NEW j \in 1..(i - 1)
               PROVE  j <= Len(r) /\ j <= Len(l) /\ r[j] = l[j]
    OBVIOUS
  <2>1. j \in 1..n /\ order[j] = 0
    BY <1>1, <1>6
  <2>2. j <= Len(r) /\ j <= Len(l)
    BY <1>1, <1>4, <2>1
  <2>3. CompareIdentifiers(l[j], r[j]) = 0
    BY <1>1, <1>4, <2>1, <2>2
  <2>. QED
    BY <1>2, <2>1, <2>2, <2>3, IdentifiersAreCompared
<1>8. i <= Len(l)
  BY <1>1, <1>4, <1>6
<1>9. i > Len(r) \/ IdentifierBefore(r[i], l[i])
  BY <1>1, <1>2, <1>4, <1>6, <1>8, IdentifiersAreCompared
<1>. QED
  BY <1>1, <1>7, <1>8, <1>9 DEF PreReleaseBefore

\* What a version consists of.
LEMMA VersionFields ==
    ASSUME NEW v \in SemVersions
    PROVE  v.core \in Seq(Nat) /\ v.pre \in Seq(Identifiers)
  BY DEF SemVersions, Identifiers

\* The first difference of two versions decides both ways.
LEMMA CompareIsPrecedence ==
    ASSUME NEW l \in SemVersions, NEW r \in SemVersions, compare_versions(l, r) = 1
    PROVE  Precedes(r, l)
<1>1. l.core \in Seq(Nat) /\ r.core \in Seq(Nat) /\ l.pre \in Seq(Identifiers) /\ r.pre \in Seq(Identifiers)
  BY VersionFields
<1>2. CASE compare_core(l.core, r.core) # 0
  BY <1>1, <1>2, CoresAreCompared DEF compare_versions, Precedes
<1>3. CASE compare_core(l.core, r.core) = 0
  <2>1. SameCore(r.core, l.core, Longer(r.core, l.core))
    BY <1>1, <1>3, CoresAreCompared
  <2>2. CASE l.pre = <<>> /\ r.pre # <<>>
    BY <2>1, <2>2 DEF Precedes
  <2>3. CASE ~(l.pre = <<>> /\ r.pre # <<>>)
    <3>1. l.pre # <<>> \/ r.pre = <<>>
      BY <2>3
    <3>2. ~(l.pre # <<>> /\ r.pre = <<>>) => compare_prerelease(l.pre, r.pre) = 1
      BY <1>3, <2>3 DEF compare_versions
    <3>3. ~(l.pre # <<>> /\ r.pre = <<>>)
      BY <1>3, <2>3 DEF compare_versions
    <3>4. PreReleaseBefore(r.pre, l.pre)
      BY <1>1, <3>2, <3>3, PreReleasesAreCompared
    <3>5. l.pre # <<>>
      BY <1>1, <3>4 DEF PreReleaseBefore
    <3>. QED
      BY <2>1, <3>3, <3>4, <3>5 DEF Precedes
  <2>. QED
    BY <2>2, <2>3
<1>. QED
  BY <1>2, <1>3

\* Cores differ in one direction only.
LEMMA CoreBeforeOneWay ==
    ASSUME NEW l \in Seq(Nat), NEW r \in Seq(Nat), CoreBefore(l, r)
    PROVE  ~CoreBefore(r, l) /\ ~SameCore(l, r, Longer(l, r)) /\ ~SameCore(r, l, Longer(r, l))
<1> DEFINE n == Longer(l, r)
<1>1. n \in Nat /\ Longer(r, l) = n
  BY LongerType
<1>2. PICK i \in 1..n : (\A j \in 1..(i - 1) : Part(l, j) = Part(r, j)) /\ Part(l, i) < Part(r, i)
  BY DEF CoreBefore, SameCore
<1>3. \A j \in 1..n : Part(l, j) \in Nat /\ Part(r, j) \in Nat
  BY <1>1, PartType
<1>. HIDE DEF n
<1>4. ~CoreBefore(r, l)
  <2> SUFFICES ASSUME CoreBefore(r, l) PROVE FALSE
    OBVIOUS
  <2>1. PICK k \in 1..n : (\A j \in 1..(k - 1) : Part(r, j) = Part(l, j)) /\ Part(r, k) < Part(l, k)
    BY <1>1 DEF CoreBefore, SameCore
  <2>2. i \in Nat /\ k \in Nat /\ i >= 1 /\ k >= 1
    BY <1>1
  <2>3. CASE i < k
    <3>1. Part(r, i) = Part(l, i)
      BY <2>1, <2>2, <2>3
    <3>. QED
      BY <1>2, <1>3, <3>1
  <2>4. CASE k < i
    <3>1. Part(l, k) = Part(r, k)
      BY <1>2, <2>2, <2>4
    <3>. QED
      BY <1>3, <2>1, <3>1
  <2>5. CASE i = k
    BY <1>2, <1>3, <2>1, <2>5
  <2>. QED
    BY <2>2, <2>3, <2>4, <2>5
<1>5. ~SameCore(l, r, n) /\ ~SameCore(r, l, n)
  BY <1>2, <1>3 DEF SameCore
<1>. QED
  BY <1>1, <1>4, <1>5 DEF n

\* The identifiers of pre-releases differ in one direction only.
LEMMA PreReleaseBeforeOneWay ==
    ASSUME NEW l \in Seq(Identifiers), NEW r \in Seq(Identifiers), PreReleaseBefore(l, r)
    PROVE  ~PreReleaseBefore(r, l)
<1> SUFFICES ASSUME PreReleaseBefore(r, l) PROVE FALSE
  OBVIOUS
<1>1. PICK i \in 1..Len(r) : /\ \A j \in 1..(i - 1) : j <= Len(l) /\ l[j] = r[j]
                             /\ i > Len(l) \/ IdentifierBefore(l[i], r[i])
  BY DEF PreReleaseBefore
<1>2. PICK k \in 1..Len(l) : /\ \A j \in 1..(k - 1) : j <= Len(r) /\ r[j] = l[j]
                             /\ k > Len(r) \/ IdentifierBefore(r[k], l[k])
  BY DEF PreReleaseBefore
<1>3. /\ i \in Nat /\ k \in Nat /\ i >= 1 /\ k >= 1 /\ Len(l) \in Nat /\ Len(r) \in Nat
      /\ i <= Len(r) /\ k <= Len(l)
  OBVIOUS
<1>4. r[i] \in Identifiers /\ l[k] \in Identifiers
  OBVIOUS
<1>5. \A a, b \in Identifiers : IdentifierBefore(a, b) => ~IdentifierBefore(b, a) /\ a # b
  BY DEF Identifiers, IdentifierBefore
<1>6. CASE i < k
  <2>1. r[i] = l[i] /\ i <= Len(l)
    BY <1>2, <1>3, <1>6
  <2>. QED
    BY <1>1, <1>3, <1>4, <1>5, <2>1
<1>7. CASE k < i
  <2>1. l[k] = r[k] /\ k <= Len(r)
    BY <1>1, <1>3, <1>7
  <2>. QED
    BY <1>2, <1>3, <1>4, <1>5, <2>1
<1>8. CASE i = k
  BY <1>1, <1>2, <1>3, <1>4, <1>5, <1>8
<1>. QED
  BY <1>3, <1>6, <1>7, <1>8

\* The precedence of two versions has one direction.
LEMMA PrecedesOneWay ==
    ASSUME NEW l \in SemVersions, NEW r \in SemVersions, Precedes(l, r)
    PROVE  ~Precedes(r, l)
<1>1. l.core \in Seq(Nat) /\ r.core \in Seq(Nat) /\ l.pre \in Seq(Identifiers) /\ r.pre \in Seq(Identifiers)
  BY VersionFields
<1>2. CASE CoreBefore(l.core, r.core)
  BY <1>1, <1>2, CoreBeforeOneWay DEF Precedes
<1>3. CASE ~CoreBefore(l.core, r.core)
  <2>1. /\ SameCore(l.core, r.core, Longer(l.core, r.core))
        /\ \/ l.pre # <<>> /\ r.pre = <<>>
           \/ l.pre # <<>> /\ r.pre # <<>> /\ PreReleaseBefore(l.pre, r.pre)
    BY <1>3 DEF Precedes
  <2>2. ~CoreBefore(r.core, l.core)
    BY <1>1, <2>1, CoreBeforeOneWay
  <2>3. PreReleaseBefore(l.pre, r.pre) => ~PreReleaseBefore(r.pre, l.pre)
    BY <1>1, PreReleaseBeforeOneWay
  <2>. QED
    BY <2>1, <2>2, <2>3 DEF Precedes
<1>. QED
  BY <1>2, <1>3

\* What version_is_newer accepts has its place behind the installed version.
LEMMA NewerIsBehind ==
    ASSUME NEW v \in Ids, version_is_newer(v)
    PROVE  Position(v) > Position(1)
<1>1. Releases[v] \in SemVersions /\ Releases[1] \in SemVersions /\ 1 \in Ids
  BY UpdaterAssumption DEF UpdaterAssumption, Ids
<1>2. Precedes(Releases[1], Releases[v])
  BY <1>1, CompareIsPrecedence DEF version_is_newer
<1>3. \A w \in Ids : Position(w) \in DOMAIN Precedence /\ Precedence[Position(w)] = Releases[w]
  BY UpdaterAssumption DEF UpdaterAssumption, Position
<1> DEFINE i == Position(1)
           j == Position(v)
<1>4. /\ i \in DOMAIN Precedence /\ Precedence[i] = Releases[1]
      /\ j \in DOMAIN Precedence /\ Precedence[j] = Releases[v]
  BY <1>1, <1>3
<1>5. DOMAIN Precedence \subseteq Nat
  BY UpdaterAssumption DEF UpdaterAssumption
<1>. HIDE DEF i, j
<1>6. ~(j < i)
  BY <1>1, <1>2, <1>4, PrecedesOneWay, UpdaterAssumption DEF UpdaterAssumption
<1>7. i # j
  BY <1>1, <1>2, <1>4, PrecedesOneWay
<1>8. j > i
  BY <1>4, <1>5, <1>6, <1>7
<1>. QED
  BY <1>8 DEF i, j

-----------------------------------------------------------------------------
\* The releases the host may be told to install.
Offered == {v \in Ids : version_is_newer(v)}

\* The steps of a call before its download has a stage, while that is filled,
\* after it has found its release, and when it has an archive to install.
Unstaged == {"new", "begin", "checking", "read", "claim", "stage"}
Fetching == {"fetch", "receive"}
Chosen == {"claim", "stage", "fetch", "receive", "claimapply", "launch", "sleep"}
Installing == {"claimapply", "launch", "sleep"}

\* The shapes of the state: what is offered, stored or installed is newer than
\* what the host started as.
UpdaterShapes ==
    /\ feed \in Ids /\ updater \in Updaters
    /\ state \in [Updaters -> States]
    /\ candidate \in [Updaters -> Offered \cup {0}] /\ archive \in [Updaters -> Stages \cup {0}]
    /\ stages \in Seq(Stages) /\ Len(stages) <= 2
    /\ \A i, j \in DOMAIN stages : stages[i] = stages[j] => i = j
    /\ content \in [Stages -> Offered \cup {0}]
    /\ helpers \subseteq [stage : Stages, sha256 : Offered, by : 0..updater]
    /\ installed \in Offered \cup {1} /\ exiting \in BOOLEAN
    /\ step \in [Calls -> CallSteps] /\ op \in [Calls -> Operations]
    /\ on \in [Calls -> 0..updater]
    /\ cand \in [Calls -> Offered \cup {0}] /\ dir \in [Calls -> Stages \cup {0}]
    /\ tampered \in 0..MaxTampered /\ sent \in 0..MaxCalls
    /\ crossed \subseteq Updaters

\* What a claim on an Updater is for shows in its state, and the claim is one
\* call's.
ClaimsMark ==
    /\ \A c \in Calls : /\ c > sent => step[c] = "new"
                        /\ step[c] = "checking" => state[on[c]] = "checking"
                        /\ step[c] \in {"stage", "fetch", "receive"} => state[on[c]] = "downloading"
                        /\ step[c] \in {"launch", "sleep"} => state[on[c]] = "applying"
    /\ \A c, d \in Calls : Claims(c) /\ Claims(d) /\ on[c] = on[d] => c = d

\* A download has a stage of its own, and has found its release by then.
StagesAreOwn ==
    \A c \in Calls : /\ step[c] \in Unstaged => c \notin OnDisk
                     /\ step[c] \in Fetching => dir[c] = c
                     /\ step[c] \in Chosen => cand[c] # 0
                     /\ step[c] \in Installing => dir[c] # 0 /\ step[dir[c]] \notin Unstaged \cup Fetching
                     /\ \A u \in Updaters : archive[u] = c => step[c] \notin Unstaged \cup Fetching

\* A stage that has not been pruned has the archive of a release.
Holds(s, v) == s \in OnDisk => content[s] = v

\* While no other Updater prunes, and no download crossed a check, the archive
\* that is to be installed, if it is still there, is the one that was offered.
ArchivesMatch ==
    updater = 0 /\ 0 \notin crossed =>
        /\ archive[0] # 0 => Holds(archive[0], candidate[0])
        /\ \A c \in Calls : step[c] \in {"claimapply", "launch"} => Holds(dir[c], cand[c])
        /\ \A h \in helpers : verify_file_hash(h)

\* A helper that was started keeps its Updater claimed until the host is gone.
HelperClaims ==
    updater = 0 /\ helpers # {} => exiting \/ \E c \in Calls : step[c] = "sleep" /\ on[c] = 0

\* The inductive invariant of the updater.
UpdaterInv == UpdaterShapes /\ ClaimsMark /\ StagesAreOwn /\ ArchivesMatch /\ HelperClaims

\* The state that goes with the step of a call, and the steps that claim.
Marked(p, s) == /\ p = "checking" => s = "checking"
                /\ p \in {"stage", "fetch", "receive"} => s = "downloading"
                /\ p \in {"launch", "sleep"} => s = "applying"

Claiming == {"checking", "stage", "fetch", "receive", "launch", "sleep"}

\* The numbers of calls and of Updaters.
LEMMA Numbers ==
    /\ MaxCalls \in Nat /\ MaxReloads \in Nat /\ MaxTampered \in Nat
    /\ Calls \subseteq Nat \ {0} /\ Stages = Calls /\ 0 \in Updaters /\ 1 \in Ids
    /\ \A u \in Updaters : u \in Nat /\ 0..u \subseteq Updaters
  BY UpdaterAssumption DEF UpdaterAssumption, Calls, Stages, Updaters, Ids

\* A claim moves on, is taken of a free Updater, or is given back.
LEMMA ClaimStep ==
    ASSUME UpdaterShapes, ClaimsMark, NEW c \in Calls, NEW p \in CallSteps, NEW s \in States,
           step[c] # "new", UNCHANGED <<on, sent>>,
           step' = [step EXCEPT ![c] = p], state' = [state EXCEPT ![on[c]] = s],
           s = state[on[c]] \/ Claims(c) \/ Free(on[c]),
           p \in Claiming => Claims(c) \/ Free(on[c]),
           Marked(p, s)
    PROVE  ClaimsMark'
<1>1. \A d \in Calls : on[d] \in Updaters
  BY Numbers DEF UpdaterShapes
<1>2. state'[on[c]] = s /\ \A u \in Updaters : u # on[c] => state'[u] = state[u]
  BY <1>1 DEF UpdaterShapes
<1>3. step'[c] = p /\ \A d \in Calls : d # c => step'[d] = step[d]
  BY DEF UpdaterShapes
<1>4. \A d \in Calls : d # c /\ Claims(d) /\ on[d] = on[c] => s = state[on[c]] /\ ~Free(on[c]) /\ ~Claims(c)
  BY DEF ClaimsMark, Claims, Free
<1>5. \A d \in Calls : d # c => (Claims(d)' <=> Claims(d))
  BY <1>3 DEF Claims
<1>6. Claims(c)' <=> p \in Claiming
  BY <1>3 DEF Claims, Claiming
<1>7. ASSUME NEW d \in Calls
      PROVE  /\ d > sent' => step'[d] = "new"
             /\ step'[d] = "checking" => state'[on'[d]] = "checking"
             /\ step'[d] \in {"stage", "fetch", "receive"} => state'[on'[d]] = "downloading"
             /\ step'[d] \in {"launch", "sleep"} => state'[on'[d]] = "applying"
  <2>1. CASE d = c
    BY <1>2, <1>3, <2>1 DEF ClaimsMark, Marked
  <2>2. CASE d # c
    <3>1. /\ d > sent => step[d] = "new"
          /\ step[d] = "checking" => state[on[d]] = "checking"
          /\ step[d] \in {"stage", "fetch", "receive"} => state[on[d]] = "downloading"
          /\ step[d] \in {"launch", "sleep"} => state[on[d]] = "applying"
      BY DEF ClaimsMark
    <3>2. Claims(d) => state'[on[d]] = state[on[d]]
      BY <1>1, <1>2, <1>4, <2>2
    <3>. QED
      BY <1>3, <2>2, <3>1, <3>2 DEF Claims
  <2>. QED
    BY <2>1, <2>2
<1>8. ASSUME NEW d \in Calls, NEW e \in Calls, Claims(d)', Claims(e)', on'[d] = on'[e]
      PROVE  d = e
  <2>1. CASE d = c \/ e = c
    BY <1>4, <1>5, <1>6, <1>8, <2>1
  <2>2. CASE d # c /\ e # c
    BY <1>5, <1>8, <2>2 DEF ClaimsMark
  <2>. QED
    BY <2>1, <2>2
<1>. QED
  BY <1>7, <1>8 DEF ClaimsMark

\* A call that moves and touches neither stages nor helpers nor what the
\* Updaters offer.
LEMMA QuietStep ==
    ASSUME UpdaterInv, NEW c \in Calls, NEW p \in CallSteps, NEW s \in States,
           step[c] # "new",
           step' = [step EXCEPT ![c] = p], state' = [state EXCEPT ![on[c]] = s],
           s = state[on[c]] \/ Claims(c) \/ Free(on[c]),
           p \in Claiming => Claims(c) \/ Free(on[c]),
           Marked(p, s),
           p \in Unstaged => step[c] \in Unstaged,
           p \in Fetching => step[c] \in Fetching,
           p \in Chosen => step[c] \in Chosen,
           p \in Installing => step[c] \in Installing,
           p \in {"claimapply", "launch"} => step[c] = "claimapply",
           step[c] = "sleep" => exiting',
           exiting' \in BOOLEAN, exiting => exiting',
           tampered' \in 0..MaxTampered,
           UNCHANGED <<feed, updater, candidate, archive, stages, content, helpers, installed,
                       op, on, cand, dir, sent, crossed>>
    PROVE  UpdaterInv'
<1>1. UpdaterShapes /\ ClaimsMark /\ StagesAreOwn /\ ArchivesMatch /\ HelperClaims
  BY DEF UpdaterInv
<1>2. step'[c] = p /\ \A d \in Calls : d # c => step'[d] = step[d]
  BY <1>1 DEF UpdaterShapes
<1>3. UpdaterShapes'
  <2>1. on[c] \in Updaters
    BY <1>1, Numbers DEF UpdaterShapes
  <2>2. step' \in [Calls -> CallSteps] /\ state' \in [Updaters -> States]
    BY <1>1, <2>1 DEF UpdaterShapes
  <2>. QED
    BY <1>1, <2>2 DEF UpdaterShapes
<1>4. ClaimsMark'
  BY <1>1, ClaimStep
<1>5. OnDisk' = OnDisk /\ \A h : verify_file_hash(h)' = verify_file_hash(h)
  BY DEF OnDisk, verify_file_hash
<1>6. StagesAreOwn'
  <2> SUFFICES ASSUME NEW d \in Calls
               PROVE  /\ step'[d] \in Unstaged => d \notin OnDisk'
                      /\ step'[d] \in Fetching => dir'[d] = d
                      /\ step'[d] \in Chosen => cand'[d] # 0
                      /\ step'[d] \in Installing => dir'[d] # 0 /\ step'[dir'[d]] \notin Unstaged \cup Fetching
                      /\ \A u \in Updaters : archive'[u] = d => step'[d] \notin Unstaged \cup Fetching
    BY DEF StagesAreOwn
  <2>1. /\ step'[d] \in Unstaged => step[d] \in Unstaged
        /\ step'[d] \in Fetching => step[d] \in Fetching
        /\ step'[d] \in Chosen => step[d] \in Chosen
        /\ step'[d] \in Installing => step[d] \in Installing
    BY <1>2
  <2>2. dir[d] # 0 => dir[d] \in Calls
    BY <1>1, Numbers DEF UpdaterShapes
  <2>3. dir[d] \in Calls /\ step[dir[d]] \notin Unstaged \cup Fetching
        => step'[dir[d]] \notin Unstaged \cup Fetching
    BY <1>2
  <2>. QED
    BY <1>1, <1>5, <2>1, <2>2, <2>3 DEF StagesAreOwn
<1>7. ArchivesMatch'
  <2>1. \A d \in Calls : step'[d] \in {"claimapply", "launch"} => step[d] \in {"claimapply", "launch"}
    BY <1>2
  <2>2. \A a, v : Holds(a, v)' = Holds(a, v)
    BY <1>5 DEF Holds
  <2>. QED
    BY <1>1, <1>5, <2>1, <2>2 DEF ArchivesMatch, Holds
<1>8. HelperClaims'
  <2>1. \A d \in Calls : step[d] = "sleep" => exiting' \/ step'[d] = "sleep"
    BY <1>2
  <2>. QED
    BY <1>1, <2>1 DEF HelperClaims
<1>. QED
  BY <1>3, <1>4, <1>6, <1>7, <1>8 DEF UpdaterInv

\* Nothing is offered, staged or under way when the host starts.
LEMMA UpdaterInitially == UpdaterInit => UpdaterInv
<1> SUFFICES ASSUME UpdaterInit PROVE UpdaterInv
  OBVIOUS
<1>1. UpdaterShapes
  <2>1. 0 \in 0..updater /\ tampered \in 0..MaxTampered /\ sent \in 0..MaxCalls
    BY Numbers DEF UpdaterInit
  <2>2. stages \in Seq(Stages) /\ Len(stages) = 0 /\ DOMAIN stages = {}
    BY DEF UpdaterInit
  <2>3. /\ state \in [Updaters -> States] /\ candidate \in [Updaters -> Offered \cup {0}]
        /\ archive \in [Updaters -> Stages \cup {0}] /\ content \in [Stages -> Offered \cup {0}]
    BY DEF UpdaterInit, States
  <2>4. /\ step \in [Calls -> CallSteps] /\ op \in [Calls -> Operations] /\ on \in [Calls -> 0..updater]
        /\ cand \in [Calls -> Offered \cup {0}] /\ dir \in [Calls -> Stages \cup {0}]
    BY <2>1 DEF UpdaterInit, CallSteps, Operations
  <2>5. helpers = {} /\ installed = 1 /\ exiting = FALSE /\ crossed = {} /\ feed = 1 /\ updater = 0
    BY DEF UpdaterInit
  <2>6. \A i, j \in DOMAIN stages : stages[i] = stages[j] => i = j
    BY <2>2
  <2>7. Len(stages) <= 2 /\ helpers \subseteq [stage : Stages, sha256 : Offered, by : 0..updater]
    BY <2>2, <2>5
  <2>. QED
    BY <2>1, <2>2, <2>3, <2>4, <2>5, <2>6, <2>7, Numbers DEF UpdaterShapes
<1>2. OnDisk = {}
  BY DEF UpdaterInit, OnDisk
<1>3. ClaimsMark /\ HelperClaims
  BY DEF UpdaterInit, ClaimsMark, Claims, HelperClaims
<1>4. StagesAreOwn /\ ArchivesMatch
  BY <1>2, Numbers DEF UpdaterInit, StagesAreOwn, ArchivesMatch, Unstaged, Fetching, Chosen, Installing
<1>. QED
  BY <1>1, <1>3, <1>4 DEF UpdaterInv

\* A call is on an Updater there is; a state that stays is one set to itself.
LEMMA OnUpdater ==
    ASSUME UpdaterShapes, NEW c \in Calls
    PROVE  /\ on[c] \in Updaters /\ state[on[c]] \in States
           /\ state = [state EXCEPT ![on[c]] = state[on[c]]]
           /\ tampered \in 0..MaxTampered /\ exiting \in BOOLEAN
<1>1. on[c] \in Updaters
  BY Numbers DEF UpdaterShapes
<1>. QED
  BY <1>1 DEF UpdaterShapes

\* Claiming an Updater, or finding it at work.
LEMMA BeginStep ==
    ASSUME UpdaterInv, NEW c \in Calls, BeginCheck(c) \/ BeginDownload(c) \/ BeginApply(c)
    PROVE  UpdaterInv'
<1>1. UpdaterShapes /\ ClaimsMark
  BY DEF UpdaterInv
<1>2. /\ on[c] \in Updaters /\ state[on[c]] \in States
      /\ state = [state EXCEPT ![on[c]] = state[on[c]]]
      /\ tampered \in 0..MaxTampered /\ exiting \in BOOLEAN
  BY <1>1, OnUpdater
<1>3. /\ UNCHANGED <<feed, updater, candidate, archive, stages, content, helpers, installed,
                     op, on, cand, dir, sent, crossed, exiting, tampered>>
      /\ step[c] \in {"begin", "claim", "claimapply"}
  BY DEF BeginCheck, BeginDownload, BeginApply, CallAt, world, disk, calls
<1>4. CASE Free(on[c])
  <2> DEFINE p == IF step[c] = "begin" THEN "checking" ELSE IF step[c] = "claim" THEN "stage" ELSE "launch"
             s == IF step[c] = "begin" THEN "checking" ELSE IF step[c] = "claim" THEN "downloading" ELSE "applying"
  <2>1. step' = [step EXCEPT ![c] = p] /\ state' = [state EXCEPT ![on[c]] = s]
    BY <1>4 DEF BeginCheck, BeginDownload, BeginApply, CallAt, begin, Set, CallGoes
  <2>2. /\ p \in CallSteps /\ s \in States /\ Marked(p, s)
        /\ (p \in Unstaged => step[c] \in Unstaged) /\ (p \in Fetching => step[c] \in Fetching)
        /\ (p \in Chosen => step[c] \in Chosen) /\ (p \in Installing => step[c] \in Installing)
        /\ p \in {"claimapply", "launch"} => step[c] = "claimapply"
    BY <1>3 DEF CallSteps, States, Marked, Unstaged, Fetching, Chosen, Installing
  <2>. HIDE DEF p, s
  <2>. QED
    BY <1>2, <1>3, <1>4, <2>1, <2>2, QuietStep
<1>5. CASE ~Free(on[c])
  <2>1. step' = [step EXCEPT ![c] = "done"] /\ state' = [state EXCEPT ![on[c]] = state[on[c]]]
    BY <1>2, <1>5 DEF BeginCheck, BeginDownload, BeginApply, begin, CallGoes
  <2>2. Marked("done", state[on[c]]) /\ "done" \in CallSteps
        /\ "done" \notin Claiming \cup Unstaged \cup Fetching \cup Chosen \cup Installing
    BY DEF CallSteps, Marked, Claiming, Unstaged, Fetching, Chosen, Installing
  <2>. QED
    BY <1>2, <1>3, <2>1, <2>2, QuietStep
<1>. QED
  BY <1>4, <1>5

\* A failure gives the claim back.
LEMMA FailStep ==
    ASSUME UpdaterInv, NEW c \in Calls, fail(c), step[c] \in Claiming \ {"sleep"},
           tampered' \in 0..MaxTampered,
           UNCHANGED <<feed, updater, exiting, crossed, candidate, archive, stages, content, helpers,
                       installed, op, on, cand, dir, sent>>
    PROVE  UpdaterInv'
<1>1. /\ on[c] \in Updaters /\ exiting \in BOOLEAN
  BY OnUpdater DEF UpdaterInv
<1>2. step' = [step EXCEPT ![c] = "done"] /\ state' = [state EXCEPT ![on[c]] = "failed"]
  BY DEF fail, Set, CallGoes
<1>3. /\ Marked("done", "failed") /\ "done" \in CallSteps /\ "failed" \in States
      /\ "done" \notin Claiming \cup Unstaged \cup Fetching \cup Chosen \cup Installing
      /\ Claims(c) /\ step[c] # "new" /\ step[c] # "sleep"
  BY DEF CallSteps, States, Marked, Claims, Claiming, Unstaged, Fetching, Chosen, Installing
<1>. QED
  BY <1>1, <1>2, <1>3, QuietStep

\* A check, a download and a launch that fail give the Updater back.
LEMMA FailureSteps ==
    ASSUME UpdaterInv, NEW c \in Calls, CheckFails(c) \/ DownloadFails(c) \/ LaunchFails(c)
    PROVE  UpdaterInv'
<1>1. tampered \in 0..MaxTampered
  BY OnUpdater DEF UpdaterInv
<1>. QED
  BY <1>1, FailStep DEF CheckFails, DownloadFails, LaunchFails, CallAt, Claiming, world, disk, calls

\* The process ends behind its helper.
LEMMA ExitStep ==
    ASSUME UpdaterInv, NEW c \in Calls, Exit(c)
    PROVE  UpdaterInv'
<1>1. /\ on[c] \in Updaters /\ state[on[c]] \in States
      /\ state = [state EXCEPT ![on[c]] = state[on[c]]]
      /\ tampered \in 0..MaxTampered
  BY OnUpdater DEF UpdaterInv
<1>2. /\ step' = [step EXCEPT ![c] = "done"] /\ state' = [state EXCEPT ![on[c]] = state[on[c]]]
      /\ exiting' = TRUE /\ step[c] = "sleep" /\ tampered' = tampered
      /\ UNCHANGED <<feed, updater, candidate, archive, stages, content, helpers, installed,
                     op, on, cand, dir, sent, crossed>>
  BY <1>1 DEF Exit, CallAt, CallGoes, disk, calls
<1>3. /\ Marked("done", state[on[c]]) /\ "done" \in CallSteps
      /\ "done" \notin Claiming \cup Unstaged \cup Fetching \cup Chosen \cup Installing
  BY DEF CallSteps, Marked, Claiming, Unstaged, Fetching, Chosen, Installing
<1>. QED
  BY <1>1, <1>2, <1>3, QuietStep

\* The publisher moves on; nothing is told before the next check.
LEMMA PublishFeedStep ==
    ASSUME UpdaterInv, publish_feed
    PROVE  UpdaterInv'
<1>1. /\ feed' = feed + 1 /\ feed < Len(Releases)
      /\ UNCHANGED <<updater, state, candidate, archive, stages, content, helpers, installed, exiting,
                     step, op, on, cand, dir, sent, tampered, crossed>>
  BY DEF publish_feed, disk, calls
<1>2. feed' \in Ids
  BY <1>1, UpdaterAssumption DEF UpdaterAssumption, UpdaterInv, UpdaterShapes, Ids
<1>3. UpdaterShapes'
  BY <1>1, <1>2 DEF UpdaterInv, UpdaterShapes
<1>4. OnDisk' = OnDisk /\ \A h : verify_file_hash(h)' = verify_file_hash(h)
  BY <1>1 DEF OnDisk, verify_file_hash
<1>5. ClaimsMark' /\ StagesAreOwn' /\ HelperClaims'
  BY <1>1, <1>4 DEF UpdaterInv, ClaimsMark, Claims, StagesAreOwn, HelperClaims
<1>6. ArchivesMatch'
  BY <1>1, <1>4 DEF UpdaterInv, ArchivesMatch, Holds
<1>. QED
  BY <1>3, <1>5, <1>6 DEF UpdaterInv

\* A call starts on an Updater, or only a reload puts another one in place.
LEMMA NewCallStep ==
    ASSUME UpdaterInv, NEW c \in Calls, NEW o \in Operations, NEW u, NEW p \in {"begin", "read", "readarchive"},
           Start(c, o, u), CallGoes(c, p), u \in 0..updater', updater' \in Updaters, updater <= updater',
           UNCHANGED <<feed, state, candidate, archive, stages, content, helpers, installed, exiting,
                       cand, dir, tampered, crossed>>
    PROVE  UpdaterInv'
<1>1. UpdaterShapes /\ ClaimsMark /\ StagesAreOwn /\ ArchivesMatch /\ HelperClaims
  BY DEF UpdaterInv
<1>2. /\ c = sent + 1 /\ sent' = c /\ op' = [op EXCEPT ![c] = o] /\ on' = [on EXCEPT ![c] = u]
      /\ step' = [step EXCEPT ![c] = p]
  BY DEF Start, CallGoes
<1>3. updater \in Nat /\ updater' \in Nat /\ sent \in Nat /\ c \in Nat /\ c <= MaxCalls /\ MaxCalls \in Nat
  BY <1>1, Numbers DEF UpdaterShapes, Calls
<1>4. step[c] = "new"
  BY <1>1, <1>2, <1>3 DEF ClaimsMark
<1>5. /\ step'[c] = p /\ \A d \in Calls : d # c => step'[d] = step[d]
      /\ on'[c] = u /\ \A d \in Calls : d # c => on'[d] = on[d]
  BY <1>1, <1>2 DEF UpdaterShapes
<1>6. p \in CallSteps /\ p \notin Claiming \cup Fetching \cup Chosen \cup Installing
  BY DEF CallSteps, Claiming, Fetching, Chosen, Installing
<1>7. UpdaterShapes'
  <2>1. sent' \in 0..MaxCalls
    BY <1>2, <1>3
  <2>2. 0..updater \subseteq 0..updater'
    BY <1>3
  <2>3. on' \in [Calls -> 0..updater']
    BY <1>1, <1>2, <2>2 DEF UpdaterShapes
  <2>4. helpers' \subseteq [stage : Stages, sha256 : Offered, by : 0..updater']
    BY <1>1, <2>2 DEF UpdaterShapes
  <2>5. step' \in [Calls -> CallSteps] /\ op' \in [Calls -> Operations]
    BY <1>1, <1>2, <1>6 DEF UpdaterShapes
  <2>. QED
    BY <1>1, <2>1, <2>3, <2>4, <2>5 DEF UpdaterShapes
<1>8. ClaimsMark'
  <2>1. \A d \in Calls : Claims(d)' => d # c /\ Claims(d)
    BY <1>5, <1>6 DEF Claims, Claiming
  <2>2. \A d \in Calls : d > sent' => d > sent /\ d # c
    BY <1>2, <1>3, Numbers
  <2>. QED
    BY <1>1, <1>5, <1>6, <2>1, <2>2 DEF ClaimsMark, Claiming
<1>9. OnDisk' = OnDisk /\ \A h : verify_file_hash(h)' = verify_file_hash(h)
  BY DEF OnDisk, verify_file_hash
<1>10. StagesAreOwn'
  <2> SUFFICES ASSUME NEW d \in Calls
               PROVE  /\ step'[d] \in Unstaged => d \notin OnDisk'
                      /\ step'[d] \in Fetching => dir'[d] = d
                      /\ step'[d] \in Chosen => cand'[d] # 0
                      /\ step'[d] \in Installing => dir'[d] # 0 /\ step'[dir'[d]] \notin Unstaged \cup Fetching
                      /\ \A w \in Updaters : archive'[w] = d => step'[d] \notin Unstaged \cup Fetching
    BY DEF StagesAreOwn
  <2>1. step[c] \in Unstaged
    BY <1>4 DEF Unstaged
  <2>2. dir[d] # 0 => dir[d] \in Calls
    BY <1>1, Numbers DEF UpdaterShapes
  <2>3. CASE d = c
    BY <1>1, <1>5, <1>6, <1>9, <2>1, <2>3 DEF StagesAreOwn
  <2>4. CASE d # c
    <3>1. step[d] \in Installing => dir[d] # c
      BY <1>1, <2>1 DEF StagesAreOwn
    <3>. QED
      BY <1>1, <1>5, <1>9, <2>2, <2>4, <3>1 DEF StagesAreOwn
  <2>. QED
    BY <2>3, <2>4
<1>11. ArchivesMatch'
  <2>1. \A d \in Calls : step'[d] \in {"claimapply", "launch"} => step[d] \in {"claimapply", "launch"}
    BY <1>5
  <2>2. updater' = 0 => updater = 0
    BY <1>3
  <2>. QED
    BY <1>1, <1>9, <2>1, <2>2 DEF ArchivesMatch, Holds
<1>12. HelperClaims'
  <2>1. \A d \in Calls : step[d] = "sleep" => step'[d] = "sleep" /\ on'[d] = on[d]
    BY <1>4, <1>5
  <2>2. updater' = 0 => updater = 0
    BY <1>3
  <2>. QED
    BY <1>1, <2>1, <2>2 DEF HelperClaims
<1>. QED
  BY <1>7, <1>8, <1>10, <1>11, <1>12 DEF UpdaterInv

\* A page calls.
LEMMA CallStep ==
    ASSUME UpdaterInv, NEW c \in Calls, NEW o \in Operations, Call(c, o)
    PROVE  UpdaterInv'
<1> DEFINE p == CASE o = "check" -> "begin" [] o = "download" -> "read" [] o = "install" -> "readarchive"
<1>1. p \in {"begin", "read", "readarchive"} /\ Start(c, o, updater) /\ CallGoes(c, p)
  BY DEF Call, Operations
<1>2. updater \in Updaters /\ updater \in 0..updater /\ updater <= updater
  BY Numbers DEF UpdaterInv, UpdaterShapes
<1>3. UNCHANGED <<updater, feed, state, candidate, archive, stages, content, helpers, installed, exiting,
                  cand, dir, tampered, crossed>>
  BY DEF Call, world, disk
<1>. HIDE DEF p
<1>. QED
  BY <1>1, <1>2, <1>3, NewCallStep

\* The policy's first check.
LEMMA StartupStep ==
    ASSUME UpdaterInv, NEW c \in Calls, Startup(c)
    PROVE  UpdaterInv'
<1>1. Start(c, "policy", updater) /\ CallGoes(c, "begin") /\ "policy" \in Operations
  BY DEF Startup, start_update_policy, Operations
<1>2. updater \in Updaters /\ updater \in 0..updater /\ updater <= updater
  BY Numbers DEF UpdaterInv, UpdaterShapes
<1>3. UNCHANGED <<updater, feed, state, candidate, archive, stages, content, helpers, installed, exiting,
                  cand, dir, tampered, crossed>>
  BY DEF Startup, world, disk
<1>. QED
  BY <1>1, <1>2, <1>3, NewCallStep

\* A reload puts an Updater beside the one in place, which goes on.
LEMMA ReloadStep ==
    ASSUME UpdaterInv, NEW c \in Calls, Reload(c)
    PROVE  UpdaterInv'
<1>1. updater \in Nat /\ updater' = updater + 1 /\ updater < MaxReloads
  BY Numbers DEF UpdaterInv, UpdaterShapes, Reload
<1>2. updater' \in Updaters /\ updater' \in 0..updater' /\ updater <= updater' /\ updater' # 0
  BY <1>1, Numbers DEF Updaters
<1>3. UNCHANGED <<feed, state, candidate, archive, stages, content, helpers, installed, exiting,
                  cand, dir, tampered, crossed>>
  BY DEF Reload, disk
<1>4. CASE policy = "manual"
  <2>1. UNCHANGED <<op, on, sent, step>>
    BY <1>4 DEF Reload, start_update_policy
  <2>2. 0..updater \subseteq 0..updater'
    BY <1>1
  <2>3. UpdaterShapes'
    BY <1>2, <1>3, <2>1, <2>2 DEF UpdaterInv, UpdaterShapes
  <2>4. OnDisk' = OnDisk
    BY <1>3 DEF OnDisk
  <2>5. ClaimsMark' /\ StagesAreOwn'
    BY <1>3, <2>1, <2>4 DEF UpdaterInv, ClaimsMark, Claims, StagesAreOwn
  <2>6. ArchivesMatch' /\ HelperClaims'
    BY <1>2 DEF ArchivesMatch, HelperClaims
  <2>. QED
    BY <2>3, <2>5, <2>6 DEF UpdaterInv
<1>5. CASE policy # "manual"
  <2>1. Start(c, "policy", updater') /\ CallGoes(c, "begin") /\ "policy" \in Operations
    BY <1>5 DEF Reload, start_update_policy, Operations
  <2>. QED
    BY <1>2, <1>3, <2>1, NewCallStep
<1>. QED
  BY <1>4, <1>5

\* A check that was answered offers a newer release, or nothing.
LEMMA CheckInnerStep ==
    ASSUME UpdaterInv, NEW c \in Calls, check_inner(c)
    PROVE  UpdaterInv'
<1>1. UpdaterShapes /\ ClaimsMark /\ StagesAreOwn /\ ArchivesMatch /\ HelperClaims
  BY DEF UpdaterInv
<1>2. PICK genuine \in BOOLEAN :
        /\ ~genuine => tampered < MaxTampered
        /\ tampered' = IF genuine THEN tampered ELSE tampered + 1
        /\ IF ~genuine
           THEN fail(c) /\ UNCHANGED <<archive, candidate>>
           ELSE SettleCheck(c, IF version_is_newer(feed) THEN feed ELSE 0)
  BY DEF check_inner, verify_signed_feed
<1>3. /\ UNCHANGED <<feed, updater, exiting, crossed, stages, content, helpers, installed, op, on, cand, dir, sent>>
      /\ step[c] = "checking"
  BY DEF check_inner, world, disk, calls, CallAt
<1>4. tampered' \in 0..MaxTampered
  BY <1>1, <1>2, Numbers DEF UpdaterShapes
<1>5. CASE ~genuine
  <2>1. step[c] \in Claiming \ {"sleep"}
    BY <1>3 DEF Claiming
  <2>. QED
    BY <1>2, <1>3, <1>4, <1>5, <2>1, FailStep
<1>6. CASE genuine
  <2> DEFINE v == IF version_is_newer(feed) THEN feed ELSE 0
             s == IF v # 0 THEN "available" ELSE "uptodate"
             p == IF v # 0 /\ op[c] = "policy" /\ policy = "automatic" THEN "read" ELSE "done"
  <2>1. v \in Offered \cup {0}
    BY <1>1 DEF UpdaterShapes, Offered
  <2>2. /\ archive' = [archive EXCEPT ![on[c]] = 0] /\ candidate' = [candidate EXCEPT ![on[c]] = v]
        /\ state' = [state EXCEPT ![on[c]] = s] /\ step' = [step EXCEPT ![c] = p]
    BY <1>2, <1>6 DEF SettleCheck, Set, CallGoes
  <2>3. /\ p \in CallSteps /\ s \in States /\ Marked(p, s) /\ Claims(c) /\ step[c] # "new"
        /\ p \notin Claiming \cup Fetching \cup Chosen \cup Installing
    BY <1>3 DEF CallSteps, States, Marked, Claims, Claiming, Fetching, Chosen, Installing
  <2>4. on[c] \in Updaters
    BY <1>1, OnUpdater
  <2>. HIDE DEF v, s, p
  <2>5. UpdaterShapes'
    <3>1. archive' \in [Updaters -> Stages \cup {0}] /\ candidate' \in [Updaters -> Offered \cup {0}]
      BY <1>1, <2>1, <2>2, <2>4 DEF UpdaterShapes
    <3>2. state' \in [Updaters -> States] /\ step' \in [Calls -> CallSteps]
      BY <1>1, <2>2, <2>3, <2>4 DEF UpdaterShapes
    <3>. QED
      BY <1>1, <1>3, <1>4, <3>1, <3>2 DEF UpdaterShapes
  <2>6. ClaimsMark'
    BY <1>1, <1>3, <2>2, <2>3, ClaimStep
  <2>7. step'[c] = p /\ \A d \in Calls : d # c => step'[d] = step[d]
    BY <1>1, <2>2 DEF UpdaterShapes
  <2>8. /\ \A u \in Updaters : archive'[u] # 0 => archive'[u] = archive[u] /\ u # on[c]
        /\ \A u \in Updaters : u # on[c] => candidate'[u] = candidate[u]
    BY <1>1, <2>2 DEF UpdaterShapes
  <2>9. OnDisk' = OnDisk /\ \A h : verify_file_hash(h)' = verify_file_hash(h)
    BY <1>3 DEF OnDisk, verify_file_hash
  <2>10. StagesAreOwn'
    <3> SUFFICES ASSUME NEW d \in Calls
                 PROVE  /\ step'[d] \in Unstaged => d \notin OnDisk'
                        /\ step'[d] \in Fetching => dir'[d] = d
                        /\ step'[d] \in Chosen => cand'[d] # 0
                        /\ step'[d] \in Installing => dir'[d] # 0 /\ step'[dir'[d]] \notin Unstaged \cup Fetching
                        /\ \A u \in Updaters : archive'[u] = d => step'[d] \notin Unstaged \cup Fetching
      BY DEF StagesAreOwn
    <3>1. step[c] \in Unstaged
      BY <1>3 DEF Unstaged
    <3>2. dir[d] # 0 => dir[d] \in Calls
      BY <1>1, Numbers DEF UpdaterShapes
    <3>3. 0 \notin Calls
      BY Numbers
    <3>4. CASE d = c
      BY <1>1, <1>3, <2>3, <2>7, <2>8, <2>9, <3>1, <3>3, <3>4 DEF StagesAreOwn
    <3>5. CASE d # c
      <4>1. step[d] \in Installing => dir[d] # c
        BY <1>1, <3>1 DEF StagesAreOwn
      <4>. QED
        BY <1>1, <1>3, <2>7, <2>8, <2>9, <3>2, <3>3, <3>5, <4>1 DEF StagesAreOwn
    <3>. QED
      BY <3>4, <3>5
  <2>11. ArchivesMatch'
    <3>1. \A d \in Calls : step'[d] \in {"claimapply", "launch"} => step[d] \in {"claimapply", "launch"}
      BY <2>3, <2>7 DEF Chosen
    <3>2. archive'[0] # 0 => archive'[0] = archive[0] /\ candidate'[0] = candidate[0]
      BY <2>8, Numbers
    <3>. QED
      BY <1>1, <1>3, <2>9, <3>1, <3>2 DEF ArchivesMatch, Holds
  <2>12. HelperClaims'
    <3>1. \A d \in Calls : step[d] = "sleep" => step'[d] = "sleep"
      BY <1>3, <2>7
    <3>. QED
      BY <1>1, <1>3, <3>1 DEF HelperClaims
  <2>. QED
    BY <2>5, <2>6, <2>10, <2>11, <2>12 DEF UpdaterInv
<1>. QED
  BY <1>5, <1>6

\* download clones the candidate and looks whether there is one.
LEMMA ReadCandidateStep ==
    ASSUME UpdaterInv, NEW c \in Calls, ReadCandidate(c)
    PROVE  UpdaterInv'
<1>1. UpdaterShapes /\ ClaimsMark /\ StagesAreOwn /\ ArchivesMatch /\ HelperClaims
  BY DEF UpdaterInv
<1> DEFINE v == candidate[on[c]]
           p == IF v = 0 THEN "done" ELSE "claim"
<1>2. /\ UNCHANGED <<feed, updater, exiting, crossed, state, candidate, archive, stages, content, helpers,
                     installed, op, on, dir, sent, tampered>>
      /\ step[c] = "read" /\ cand' = [cand EXCEPT ![c] = v] /\ step' = [step EXCEPT ![c] = p]
  BY DEF ReadCandidate, CallAt, CallGoes, world, disk
<1>3. on[c] \in Updaters /\ state[on[c]] \in States /\ state' = [state EXCEPT ![on[c]] = state[on[c]]]
  BY <1>1, <1>2, OnUpdater
<1>4. v \in Offered \cup {0}
  BY <1>1, <1>3 DEF UpdaterShapes
<1>5. /\ p \in CallSteps /\ Marked(p, state[on[c]])
      /\ p \notin Claiming \cup Fetching \cup Installing /\ (p \in Chosen => v # 0) /\ step[c] \in Unstaged
  BY <1>2 DEF CallSteps, Marked, Claiming, Fetching, Installing, Chosen, Unstaged
<1>. HIDE DEF v, p
<1>6. UpdaterShapes'
  <2>1. cand' \in [Calls -> Offered \cup {0}] /\ step' \in [Calls -> CallSteps]
    BY <1>1, <1>2, <1>4, <1>5 DEF UpdaterShapes
  <2>. QED
    BY <1>1, <1>2, <2>1 DEF UpdaterShapes
<1>7. ClaimsMark'
  BY <1>1, <1>2, <1>3, <1>5, ClaimStep
<1>8. /\ step'[c] = p /\ \A d \in Calls : d # c => step'[d] = step[d]
      /\ cand'[c] = v /\ \A d \in Calls : d # c => cand'[d] = cand[d]
  BY <1>1, <1>2 DEF UpdaterShapes
<1>9. OnDisk' = OnDisk /\ \A h : verify_file_hash(h)' = verify_file_hash(h)
  BY <1>2 DEF OnDisk, verify_file_hash
<1>10. StagesAreOwn'
  <2> SUFFICES ASSUME NEW d \in Calls
               PROVE  /\ step'[d] \in Unstaged => d \notin OnDisk'
                      /\ step'[d] \in Fetching => dir'[d] = d
                      /\ step'[d] \in Chosen => cand'[d] # 0
                      /\ step'[d] \in Installing => dir'[d] # 0 /\ step'[dir'[d]] \notin Unstaged \cup Fetching
                      /\ \A u \in Updaters : archive'[u] = d => step'[d] \notin Unstaged \cup Fetching
    BY DEF StagesAreOwn
  <2>1. dir[d] # 0 => dir[d] \in Calls
    BY <1>1, Numbers DEF UpdaterShapes
  <2>2. CASE d = c
    BY <1>1, <1>2, <1>5, <1>8, <1>9, <2>2 DEF StagesAreOwn
  <2>3. CASE d # c
    <3>1. step[d] \in Installing => dir[d] # c
      BY <1>1, <1>5 DEF StagesAreOwn
    <3>. QED
      BY <1>1, <1>2, <1>8, <1>9, <2>1, <2>3, <3>1 DEF StagesAreOwn
  <2>. QED
    BY <2>2, <2>3
<1>11. ArchivesMatch'
  <2>1. \A d \in Calls : step'[d] \in {"claimapply", "launch"} =>
                           step[d] \in {"claimapply", "launch"} /\ cand'[d] = cand[d]
    BY <1>5, <1>8 DEF Installing
  <2>. QED
    BY <1>1, <1>2, <1>9, <2>1 DEF ArchivesMatch, Holds
<1>12. HelperClaims'
  <2>1. \A d \in Calls : step[d] = "sleep" => step'[d] = "sleep"
    BY <1>2, <1>8
  <2>. QED
    BY <1>1, <1>2, <2>1 DEF HelperClaims
<1>. QED
  BY <1>6, <1>7, <1>10, <1>11, <1>12 DEF UpdaterInv

\* While a call has an Updater claimed for a download, no helper is about.
LEMMA NoHelperMeanwhile ==
    ASSUME UpdaterInv, updater = 0, ~exiting, NEW c \in Calls, Claims(c), step[c] # "sleep"
    PROVE  helpers = {}
<1>1. on[c] = 0
  BY Numbers DEF UpdaterInv, UpdaterShapes
<1>. QED
  BY <1>1 DEF UpdaterInv, HelperClaims, ClaimsMark, Claims

\* The stages that are left after pruning.
LEMMA PrunedStages ==
    ASSUME UpdaterShapes, NEW c \in Calls, c \notin OnDisk, stages' = <<c>> \o prune_update_stages
    PROVE  /\ stages' \in Seq(Stages) /\ Len(stages') <= 2
           /\ \A i, j \in DOMAIN stages' : stages'[i] = stages'[j] => i = j
           /\ OnDisk' \subseteq {c} \cup OnDisk
           /\ c \in OnDisk'
           /\ \A s \in OnDisk' : s = c \/ \E i \in DOMAIN prune_update_stages : prune_update_stages[i] = s
<1>1. c \in Stages /\ stages \in Seq(Stages)
  BY Numbers DEF UpdaterShapes
<1>2. CASE stages = <<>>
  <2>1. Len(prune_update_stages) = 0 /\ prune_update_stages \in Seq(Stages)
    BY <1>1, <1>2 DEF prune_update_stages
  <2>2. stages' \in Seq(Stages) /\ Len(stages') = 1 /\ stages'[1] = c
    BY <1>1, <2>1
  <2>3. DOMAIN stages' = {1}
    BY <2>2
  <2>4. OnDisk' = {c}
    BY <2>2, <2>3 DEF OnDisk
  <2>. QED
    BY <2>2, <2>3, <2>4
<1>3. CASE stages # <<>>
  <2>1. stages[1] \in Stages /\ stages[1] \in OnDisk /\ stages[1] # c
    BY <1>1, <1>3 DEF OnDisk
  <2>2. /\ prune_update_stages = SubSeq(stages, 1, 1)
        /\ Len(prune_update_stages) = 1 /\ prune_update_stages \in Seq(Stages)
        /\ prune_update_stages[1] = stages[1]
    BY <1>1, <1>3 DEF prune_update_stages
  <2>. HIDE DEF prune_update_stages
  <2>3. stages' \in Seq(Stages) /\ Len(stages') = 2 /\ stages'[1] = c /\ stages'[2] = stages[1]
    BY <1>1, <2>2
  <2>4. DOMAIN stages' = {1, 2} /\ DOMAIN prune_update_stages = {1}
    BY <2>2, <2>3
  <2>5. OnDisk' = {c, stages[1]}
    BY <2>3, <2>4 DEF OnDisk
  <2>6. \A i, j \in DOMAIN stages' : stages'[i] = stages'[j] => i = j
    BY <2>1, <2>3, <2>4
  <2>7. \A s \in OnDisk' : s = c \/ \E i \in DOMAIN prune_update_stages : prune_update_stages[i] = s
    BY <2>2, <2>4, <2>5
  <2>. QED
    BY <2>1, <2>3, <2>5, <2>6, <2>7
<1>. QED
  BY <1>2, <1>3

\* A download makes its stage and prunes the others.
LEMMA UpdateStageStep ==
    ASSUME UpdaterInv, NEW c \in Calls, update_stage(c)
    PROVE  UpdaterInv'
<1>1. UpdaterShapes /\ ClaimsMark /\ StagesAreOwn /\ ArchivesMatch /\ HelperClaims
  BY DEF UpdaterInv
<1>2. /\ step[c] = "stage" /\ ~exiting
      /\ stages' = <<c>> \o prune_update_stages
      /\ content' = [s \in Stages |->
                       IF \E i \in DOMAIN prune_update_stages : prune_update_stages[i] = s
                       THEN content[s] ELSE 0]
      /\ dir' = [dir EXCEPT ![c] = c] /\ step' = [step EXCEPT ![c] = "fetch"]
      /\ UNCHANGED <<feed, updater, exiting, crossed, state, candidate, archive, helpers, installed,
                     op, on, cand, sent, tampered>>
  BY DEF update_stage, CallAt, CallGoes, world
<1>3. on[c] \in Updaters /\ state[on[c]] \in States /\ state' = [state EXCEPT ![on[c]] = state[on[c]]]
  BY <1>1, <1>2, OnUpdater
<1>4. step[c] \in Unstaged /\ step[c] \in Chosen /\ c \notin OnDisk /\ cand[c] # 0 /\ c \in Stages
  BY <1>1, <1>2, Numbers DEF Unstaged, Chosen, StagesAreOwn
<1>5. /\ stages' \in Seq(Stages) /\ Len(stages') <= 2
      /\ \A i, j \in DOMAIN stages' : stages'[i] = stages'[j] => i = j
      /\ OnDisk' \subseteq {c} \cup OnDisk
      /\ \A s \in OnDisk' : s = c \/ \E i \in DOMAIN prune_update_stages : prune_update_stages[i] = s
  BY <1>1, <1>2, <1>4, PrunedStages
<1>6. \A s \in Stages : content'[s] \in {0, content[s]} /\ (s \in OnDisk' /\ s # c => content'[s] = content[s])
  BY <1>2, <1>5
<1>7. UpdaterShapes'
  <2>1. content' \in [Stages -> Offered \cup {0}]
    BY <1>1, <1>2, <1>6 DEF UpdaterShapes
  <2>2. step' \in [Calls -> CallSteps] /\ dir' \in [Calls -> Stages \cup {0}]
    BY <1>1, <1>2, <1>4 DEF UpdaterShapes, CallSteps
  <2>. QED
    BY <1>1, <1>2, <1>5, <2>1, <2>2 DEF UpdaterShapes
<1>8. ClaimsMark'
  <2>1. Claims(c) /\ "fetch" \in CallSteps
    BY <1>2 DEF Claims, CallSteps
  <2>2. Marked("fetch", state[on[c]])
    BY <1>1, <1>2 DEF ClaimsMark, Marked
  <2>. QED
    BY <1>1, <1>2, <1>3, <2>1, <2>2, ClaimStep
<1>9. /\ step'[c] = "fetch" /\ \A d \in Calls : d # c => step'[d] = step[d]
      /\ dir'[c] = c /\ \A d \in Calls : d # c => dir'[d] = dir[d]
  BY <1>1, <1>2 DEF UpdaterShapes
<1>10. \A d \in Calls : dir[d] \in Stages \cup {0} /\ (step[d] \in Installing => dir[d] # c)
  BY <1>1, <1>4 DEF UpdaterShapes, StagesAreOwn
<1>11. \A u \in Updaters : archive[u] # c
  BY <1>1, <1>4 DEF StagesAreOwn
<1>12. StagesAreOwn'
  <2> SUFFICES ASSUME NEW d \in Calls
               PROVE  /\ step'[d] \in Unstaged => d \notin OnDisk'
                      /\ step'[d] \in Fetching => dir'[d] = d
                      /\ step'[d] \in Chosen => cand'[d] # 0
                      /\ step'[d] \in Installing => dir'[d] # 0 /\ step'[dir'[d]] \notin Unstaged \cup Fetching
                      /\ \A u \in Updaters : archive'[u] = d => step'[d] \notin Unstaged \cup Fetching
    BY DEF StagesAreOwn
  <2>1. CASE d = c
    <3>1. "fetch" \notin Unstaged \cup Installing
      BY DEF Unstaged, Installing
    <3>. QED
      BY <1>2, <1>4, <1>9, <1>11, <2>1, <3>1
  <2>2. CASE d # c
    <3>1. dir[d] # 0 => dir[d] \in Calls
      BY <1>10, Numbers
    <3>. QED
      BY <1>1, <1>2, <1>5, <1>9, <1>10, <2>2, <3>1 DEF StagesAreOwn
  <2>. QED
    BY <2>1, <2>2
<1>13. ArchivesMatch'
  <2> SUFFICES ASSUME updater = 0, 0 \notin crossed
               PROVE  /\ archive'[0] # 0 => Holds(archive[0], candidate[0])'
                      /\ \A d \in Calls : step'[d] \in {"claimapply", "launch"} => Holds(dir[d], cand[d])'
                      /\ \A h \in helpers' : verify_file_hash(h)'
    BY <1>2 DEF ArchivesMatch
  <2>1. archive[0] # c /\ archive[0] \in Stages \cup {0}
    BY <1>1, <1>11, Numbers DEF UpdaterShapes
  <2>2. archive[0] # 0 => Holds(archive[0], candidate[0])'
    BY <1>1, <1>2, <1>5, <1>6, <2>1 DEF ArchivesMatch, Holds
  <2>3. ASSUME NEW d \in Calls, step'[d] \in {"claimapply", "launch"} PROVE Holds(dir[d], cand[d])'
    <3>1. d # c /\ step[d] \in {"claimapply", "launch"} /\ step[d] \in Installing
      BY <1>9, <2>3 DEF Installing
    <3>2. dir[d] \in Stages /\ dir[d] # c /\ dir'[d] = dir[d]
      BY <1>1, <1>9, <1>10, <3>1 DEF StagesAreOwn
    <3>. QED
      BY <1>1, <1>2, <1>5, <1>6, <3>1, <3>2 DEF ArchivesMatch, Holds
  <2>4. helpers = {}
    BY <1>2, NoHelperMeanwhile DEF Claims
  <2>. QED
    BY <1>2, <2>2, <2>3, <2>4
<1>14. HelperClaims'
  <2>1. \A d \in Calls : step[d] = "sleep" => step'[d] = "sleep"
    BY <1>2, <1>9
  <2>. QED
    BY <1>1, <1>2, <2>1 DEF HelperClaims
<1>. QED
  BY <1>7, <1>8, <1>12, <1>13, <1>14 DEF UpdaterInv

\* Moving a stage to the front loses none.
LEMMA NewestKeeps ==
    ASSUME UpdaterShapes, NEW s \in OnDisk, stages' = Newest(s)
    PROVE  /\ stages' \in Seq(Stages) /\ Len(stages') <= 2
           /\ \A i, j \in DOMAIN stages' : stages'[i] = stages'[j] => i = j
           /\ OnDisk' = OnDisk
<1> DEFINE at == CHOOSE i \in DOMAIN stages : stages[i] = s
<1>1. stages \in Seq(Stages) /\ Len(stages) <= 2
  BY DEF UpdaterShapes
<1>2. Len(stages) \in Nat /\ DOMAIN stages = 1..Len(stages)
  BY <1>1
<1>3. stages \in Seq(Stages) /\ Len(stages) \in 0..2 /\ DOMAIN stages = 1..Len(stages)
  BY <1>1, <1>2
<1>4. at \in DOMAIN stages /\ stages[at] = s
  BY DEF OnDisk
<1>5. stages' = [i \in 1..Len(stages) |-> IF i = 1 THEN s ELSE IF i <= at THEN stages[i - 1] ELSE stages[i]]
  BY <1>3 DEF Newest
<1>. HIDE DEF at
<1>6. CASE at = 1
  <2>1. stages' = stages
    BY <1>3, <1>4, <1>5, <1>6
  <2>. QED
    BY <1>3, <2>1 DEF UpdaterShapes, OnDisk
<1>7. CASE at = 2
  <2>1. Len(stages) = 2 /\ DOMAIN stages = {1, 2} /\ stages[1] \in Stages /\ stages[2] \in Stages
    BY <1>3, <1>4, <1>7
  <2>2. stages' = <<stages[2], stages[1]>>
    BY <1>3, <1>4, <1>5, <1>7, <2>1
  <2>3. stages[1] # stages[2]
    BY <2>1 DEF UpdaterShapes
  <2>4. OnDisk = {stages[1], stages[2]} /\ OnDisk' = {stages[1], stages[2]}
    BY <2>1, <2>2 DEF OnDisk
  <2>5. /\ stages' \in Seq(Stages) /\ Len(stages') <= 2
        /\ \A i, j \in DOMAIN stages' : stages'[i] = stages'[j] => i = j
    BY <2>1, <2>2, <2>3
  <2>. QED
    BY <2>4, <2>5
<1>. QED
  BY <1>3, <1>4, <1>6, <1>7

\* What a stage holds does not change when it is touched.
LEMMA TouchedStages ==
    ASSUME OnDisk' = OnDisk, UNCHANGED content
    PROVE  /\ \A h : verify_file_hash(h)' = verify_file_hash(h)
           /\ \A a, v : (a \in OnDisk => content[a] = v) => (a \in OnDisk' => content'[a] = v)
  BY DEF verify_file_hash

\* The archive is created in its stage, or the stage is gone.
LEMMA CreateArchiveStep ==
    ASSUME UpdaterInv, NEW c \in Calls, CreateArchive(c)
    PROVE  UpdaterInv'
<1>1. UpdaterShapes /\ ClaimsMark /\ StagesAreOwn /\ ArchivesMatch /\ HelperClaims
  BY DEF UpdaterInv
<1>2. /\ step[c] = "fetch" /\ ~exiting
      /\ UNCHANGED <<feed, updater, exiting, crossed, candidate, archive, content, helpers, installed,
                     op, on, cand, dir, sent, tampered>>
  BY DEF CreateArchive, CallAt, world, calls
<1>3. on[c] \in Updaters /\ state[on[c]] \in States /\ state = [state EXCEPT ![on[c]] = state[on[c]]]
      /\ tampered \in 0..MaxTampered
  BY <1>1, OnUpdater
<1>4. CASE dir[c] \notin OnDisk
  <2>1. fail(c) /\ UNCHANGED stages
    BY <1>4 DEF CreateArchive
  <2>2. step[c] \in Claiming \ {"sleep"} /\ tampered' \in 0..MaxTampered
    BY <1>2, <1>3 DEF Claiming
  <2>. QED
    BY <1>2, <2>1, <2>2, FailStep
<1>5. CASE dir[c] \in OnDisk
  <2>1. /\ stages' = Newest(dir[c]) /\ step' = [step EXCEPT ![c] = "receive"]
        /\ state' = [state EXCEPT ![on[c]] = state[on[c]]] /\ state' = state
    BY <1>3, <1>5 DEF CreateArchive, CallGoes
  <2>2. /\ stages' \in Seq(Stages) /\ Len(stages') <= 2
        /\ \A i, j \in DOMAIN stages' : stages'[i] = stages'[j] => i = j
        /\ OnDisk' = OnDisk
    BY <1>1, <1>5, <2>1, NewestKeeps
  <2>3. UpdaterShapes'
    <3>1. step' \in [Calls -> CallSteps]
      BY <1>1, <2>1 DEF UpdaterShapes, CallSteps
    <3>. QED
      BY <1>1, <1>2, <2>1, <2>2, <3>1 DEF UpdaterShapes
  <2>4. ClaimsMark'
    <3>1. Claims(c) /\ "receive" \in CallSteps
      BY <1>2 DEF Claims, CallSteps
    <3>2. Marked("receive", state[on[c]])
      BY <1>1, <1>2 DEF ClaimsMark, Marked
    <3>. QED
      BY <1>1, <1>2, <1>3, <2>1, <3>1, <3>2, ClaimStep
  <2>5. step'[c] = "receive" /\ \A d \in Calls : d # c => step'[d] = step[d]
    BY <1>1, <2>1 DEF UpdaterShapes
  <2>6. StagesAreOwn'
    <3> SUFFICES ASSUME NEW d \in Calls
                 PROVE  /\ step'[d] \in Unstaged => d \notin OnDisk'
                        /\ step'[d] \in Fetching => dir'[d] = d
                        /\ step'[d] \in Chosen => cand'[d] # 0
                        /\ step'[d] \in Installing => dir'[d] # 0 /\ step'[dir'[d]] \notin Unstaged \cup Fetching
                        /\ \A u \in Updaters : archive'[u] = d => step'[d] \notin Unstaged \cup Fetching
      BY DEF StagesAreOwn
    <3>1. "receive" \notin Unstaged \cup Installing /\ step[c] \in Fetching /\ step[c] \in Chosen
      BY <1>2 DEF Unstaged, Installing, Fetching, Chosen
    <3>2. dir[d] # 0 => dir[d] \in Calls
      BY <1>1, Numbers DEF UpdaterShapes
    <3>3. CASE d = c
      BY <1>1, <1>2, <2>5, <3>1, <3>3 DEF StagesAreOwn
    <3>4. CASE d # c
      <4>1. step[d] \in Installing => dir[d] # c
        BY <1>1, <3>1 DEF StagesAreOwn
      <4>. QED
        BY <1>1, <1>2, <2>2, <2>5, <3>2, <3>4, <4>1 DEF StagesAreOwn
    <3>. QED
      BY <3>3, <3>4
  <2>7. ArchivesMatch'
    <3>1. \A d \in Calls : step'[d] \in {"claimapply", "launch"} => step[d] \in {"claimapply", "launch"}
      BY <2>5
    <3>. QED
      BY <1>1, <1>2, <2>2, <3>1, TouchedStages DEF ArchivesMatch, Holds
  <2>8. HelperClaims'
    <3>1. \A d \in Calls : step[d] = "sleep" => step'[d] = "sleep"
      BY <1>2, <2>5
    <3>. QED
      BY <1>1, <1>2, <3>1 DEF HelperClaims
  <2>. QED
    BY <2>3, <2>4, <2>6, <2>7, <2>8 DEF UpdaterInv
<1>. QED
  BY <1>4, <1>5

\* The stream ends with the signed archive, or with another.
LEMMA DownloadInnerStep ==
    ASSUME UpdaterInv, NEW c \in Calls, download_inner(c)
    PROVE  UpdaterInv'
<1>1. UpdaterShapes /\ ClaimsMark /\ StagesAreOwn /\ ArchivesMatch /\ HelperClaims
  BY DEF UpdaterInv
<1>2. /\ step[c] = "receive" /\ ~exiting
      /\ UNCHANGED <<feed, updater, exiting, candidate, stages, helpers, installed, op, on, cand, dir, sent>>
  BY DEF download_inner, CallAt, calls
<1>3. PICK v \in {cand[c], 0} :
        /\ v = 0 => tampered < MaxTampered
        /\ tampered' = IF v = 0 THEN tampered + 1 ELSE tampered
        /\ IF v = cand[c]
           THEN /\ archive' = [archive EXCEPT ![on[c]] = dir[c]]
                /\ content' = [content EXCEPT ![dir[c]] = IF dir[c] \in OnDisk THEN v ELSE 0]
                /\ Set(c, "ready")
                /\ crossed' = IF cand[c] = candidate[on[c]] THEN crossed ELSE crossed \cup {on[c]}
                /\ CallGoes(c, IF op[c] = "policy" THEN "readarchive" ELSE "done")
           ELSE fail(c) /\ UNCHANGED <<archive, content, crossed>>
  BY DEF download_inner, matches_digest
<1>4. /\ step[c] \in Fetching /\ step[c] \in Chosen /\ step[c] \in Claiming \ {"sleep"} /\ Claims(c)
  BY <1>2 DEF Fetching, Chosen, Claiming, Claims
<1>5. dir[c] = c /\ cand[c] # 0 /\ c \in Stages /\ on[c] \in Updaters
  BY <1>1, <1>4, Numbers, OnUpdater DEF StagesAreOwn
<1>6. tampered' \in 0..MaxTampered
  BY <1>1, <1>3, Numbers DEF UpdaterShapes
<1>7. CASE v # cand[c]
  BY <1>2, <1>3, <1>4, <1>6, <1>7, FailStep
<1>8. CASE v = cand[c]
  <2> DEFINE p == IF op[c] = "policy" THEN "readarchive" ELSE "done"
  <2>1. /\ archive' = [archive EXCEPT ![on[c]] = c]
        /\ content' = [content EXCEPT ![c] = IF c \in OnDisk THEN cand[c] ELSE 0]
        /\ state' = [state EXCEPT ![on[c]] = "ready"]
        /\ crossed' = IF cand[c] = candidate[on[c]] THEN crossed ELSE crossed \cup {on[c]}
        /\ step' = [step EXCEPT ![c] = p]
    BY <1>3, <1>5, <1>8 DEF Set, CallGoes
  <2>2. /\ p \in CallSteps /\ Marked(p, "ready") /\ "ready" \in States
        /\ p \notin Claiming \cup Unstaged \cup Fetching \cup Chosen \cup Installing
    BY DEF CallSteps, States, Marked, Claiming, Unstaged, Fetching, Chosen, Installing
  <2>. HIDE DEF p
  <2>3. cand[c] \in Offered \cup {0}
    BY <1>1 DEF UpdaterShapes
  <2>4. UpdaterShapes'
    <3>1. archive' \in [Updaters -> Stages \cup {0}] /\ state' \in [Updaters -> States]
      BY <1>1, <1>5, <2>1, <2>2 DEF UpdaterShapes
    <3>2. content' \in [Stages -> Offered \cup {0}] /\ step' \in [Calls -> CallSteps]
      BY <1>1, <2>1, <2>2, <2>3 DEF UpdaterShapes
    <3>3. crossed' \subseteq Updaters
      BY <1>1, <1>5, <2>1 DEF UpdaterShapes
    <3>. QED
      BY <1>1, <1>2, <1>6, <3>1, <3>2, <3>3 DEF UpdaterShapes
  <2>5. ClaimsMark'
    <3>1. step[c] # "new"
      BY <1>2
    <3>. QED
      BY <1>1, <1>2, <1>4, <2>1, <2>2, <3>1, ClaimStep
  <2>6. step'[c] = p /\ \A d \in Calls : d # c => step'[d] = step[d]
    BY <1>1, <2>1 DEF UpdaterShapes
  <2>7. archive'[on[c]] = c /\ \A u \in Updaters : u # on[c] => archive'[u] = archive[u]
    BY <1>1, <1>5, <2>1 DEF UpdaterShapes
  <2>8. OnDisk' = OnDisk
    BY <1>2 DEF OnDisk
  <2>9. /\ c \in OnDisk => content'[c] = cand[c]
        /\ \A s \in Stages : s # c => content'[s] = content[s]
    BY <1>1, <1>5, <2>1 DEF UpdaterShapes
  <2>10. \A d \in Calls : /\ dir[d] # 0 => dir[d] \in Calls
                          /\ step[d] \in Installing => dir[d] # c
    BY <1>1, <1>4, Numbers DEF UpdaterShapes, StagesAreOwn
  <2>11. StagesAreOwn'
    <3> SUFFICES ASSUME NEW d \in Calls
                 PROVE  /\ step'[d] \in Unstaged => d \notin OnDisk'
                        /\ step'[d] \in Fetching => dir'[d] = d
                        /\ step'[d] \in Chosen => cand'[d] # 0
                        /\ step'[d] \in Installing => dir'[d] # 0 /\ step'[dir'[d]] \notin Unstaged \cup Fetching
                        /\ \A u \in Updaters : archive'[u] = d => step'[d] \notin Unstaged \cup Fetching
      BY DEF StagesAreOwn
    <3>1. CASE d = c
      BY <2>2, <2>6, <3>1
    <3>2. CASE d # c
      BY <1>1, <1>2, <2>6, <2>7, <2>8, <2>10, <3>2 DEF StagesAreOwn
    <3>. QED
      BY <3>1, <3>2
  <2>12. ArchivesMatch'
    <3> SUFFICES ASSUME updater = 0, 0 \notin crossed'
                 PROVE  /\ archive'[0] # 0 => Holds(archive[0], candidate[0])'
                        /\ \A d \in Calls : step'[d] \in {"claimapply", "launch"} => Holds(dir[d], cand[d])'
                        /\ \A h \in helpers' : verify_file_hash(h)'
      BY <1>2 DEF ArchivesMatch
    <3>1. on[c] = 0
      BY <1>1, Numbers DEF UpdaterShapes
    <3>2. 0 \notin crossed /\ cand[c] = candidate[0]
      BY <2>1, <3>1
    <3>3. Holds(archive[0], candidate[0])'
      BY <1>2, <2>7, <2>8, <2>9, <3>1, <3>2 DEF Holds
    <3>4. ASSUME NEW d \in Calls, step'[d] \in {"claimapply", "launch"} PROVE Holds(dir[d], cand[d])'
      <4>1. step[d] \in {"claimapply", "launch"} /\ step[d] \in Installing
        BY <2>2, <2>6, <3>4 DEF Installing
      <4>2. dir[d] \in Stages /\ dir[d] # c
        BY <1>1, <2>10, <4>1, Numbers DEF StagesAreOwn
      <4>. QED
        BY <1>1, <1>2, <2>8, <2>9, <3>2, <4>1, <4>2 DEF ArchivesMatch, Holds
    <3>5. helpers = {}
      BY <1>2, <1>4, NoHelperMeanwhile
    <3>. QED
      BY <1>2, <3>3, <3>4, <3>5
  <2>13. HelperClaims'
    <3>1. \A d \in Calls : step[d] = "sleep" => step'[d] = "sleep"
      BY <1>2, <2>6
    <3>. QED
      BY <1>1, <1>2, <3>1 DEF HelperClaims
  <2>. QED
    BY <2>4, <2>5, <2>11, <2>12, <2>13 DEF UpdaterInv
<1>. QED
  BY <1>7, <1>8

\* install clones archive and candidate, if there are any.
LEMMA ReadArchiveStep ==
    ASSUME UpdaterInv, NEW c \in Calls, ReadArchive(c)
    PROVE  UpdaterInv'
<1>1. UpdaterShapes /\ ClaimsMark /\ StagesAreOwn /\ ArchivesMatch /\ HelperClaims
  BY DEF UpdaterInv
<1> DEFINE a == archive[on[c]]
           v == candidate[on[c]]
<1>2. /\ step[c] = "readarchive" /\ ~exiting
      /\ UNCHANGED <<feed, updater, exiting, crossed, state, candidate, archive, stages, content, helpers,
                     installed, op, on, sent, tampered>>
  BY DEF ReadArchive, CallAt, world, disk
<1>3. /\ on[c] \in Updaters /\ state[on[c]] \in States /\ state = [state EXCEPT ![on[c]] = state[on[c]]]
      /\ tampered \in 0..MaxTampered /\ exiting \in BOOLEAN
  BY <1>1, OnUpdater
<1>4. CASE a = 0 \/ v = 0
  <2>1. step' = [step EXCEPT ![c] = "done"] /\ state' = [state EXCEPT ![on[c]] = state[on[c]]]
        /\ UNCHANGED <<dir, cand>>
    BY <1>2, <1>3, <1>4 DEF ReadArchive, CallGoes
  <2>2. /\ Marked("done", state[on[c]]) /\ "done" \in CallSteps
        /\ "done" \notin Claiming \cup Unstaged \cup Fetching \cup Chosen \cup Installing
    BY DEF CallSteps, Marked, Claiming, Unstaged, Fetching, Chosen, Installing
  <2>. QED
    BY <1>2, <1>3, <2>1, <2>2, QuietStep
<1>5. CASE a # 0 /\ v # 0
  <2>1. /\ dir' = [dir EXCEPT ![c] = a] /\ cand' = [cand EXCEPT ![c] = v]
        /\ step' = [step EXCEPT ![c] = "claimapply"] /\ state' = [state EXCEPT ![on[c]] = state[on[c]]]
    BY <1>2, <1>3, <1>5 DEF ReadArchive, CallGoes
  <2>2. a \in Calls /\ v \in Offered
    BY <1>1, <1>3, <1>5, Numbers DEF UpdaterShapes
  <2>3. step[a] \notin Unstaged \cup Fetching
    BY <1>1, <1>3, <2>2 DEF StagesAreOwn
  <2>4. updater = 0 => on[c] = 0
    BY <1>1, Numbers DEF UpdaterShapes
  <2>5. updater = 0 /\ 0 \notin crossed => Holds(a, v)
    BY <1>1, <1>5, <2>4 DEF ArchivesMatch
  <2>. HIDE DEF a, v
  <2>6. UpdaterShapes'
    <3>1. dir' \in [Calls -> Stages \cup {0}] /\ cand' \in [Calls -> Offered \cup {0}]
      BY <1>1, <2>1, <2>2, Numbers DEF UpdaterShapes
    <3>2. step' \in [Calls -> CallSteps]
      BY <1>1, <2>1 DEF UpdaterShapes, CallSteps
    <3>. QED
      BY <1>1, <1>2, <3>1, <3>2 DEF UpdaterShapes
  <2>7. ClaimsMark'
    <3>1. "claimapply" \in CallSteps /\ "claimapply" \notin Claiming /\ Marked("claimapply", state[on[c]])
      BY DEF CallSteps, Claiming, Marked
    <3>. QED
      BY <1>1, <1>2, <1>3, <2>1, <3>1, ClaimStep
  <2>8. /\ step'[c] = "claimapply" /\ \A d \in Calls : d # c => step'[d] = step[d]
        /\ dir'[c] = a /\ \A d \in Calls : d # c => dir'[d] = dir[d]
        /\ cand'[c] = v /\ \A d \in Calls : d # c => cand'[d] = cand[d]
    BY <1>1, <2>1 DEF UpdaterShapes
  <2>9. OnDisk' = OnDisk /\ \A h : verify_file_hash(h)' = verify_file_hash(h)
    BY <1>2 DEF OnDisk, verify_file_hash
  <2>10. StagesAreOwn'
    <3> SUFFICES ASSUME NEW d \in Calls
                 PROVE  /\ step'[d] \in Unstaged => d \notin OnDisk'
                        /\ step'[d] \in Fetching => dir'[d] = d
                        /\ step'[d] \in Chosen => cand'[d] # 0
                        /\ step'[d] \in Installing => dir'[d] # 0 /\ step'[dir'[d]] \notin Unstaged \cup Fetching
                        /\ \A u \in Updaters : archive'[u] = d => step'[d] \notin Unstaged \cup Fetching
      BY DEF StagesAreOwn
    <3>1. "claimapply" \notin Unstaged \cup Fetching
      BY DEF Unstaged, Fetching
    <3>2. dir[d] # 0 => dir[d] \in Calls
      BY <1>1, Numbers DEF UpdaterShapes
    <3>3. \A b \in Calls : step[b] \notin Unstaged \cup Fetching => step'[b] \notin Unstaged \cup Fetching
      BY <2>8, <3>1
    <3>4. CASE d = c
      BY <1>5, <2>2, <2>3, <2>8, <3>1, <3>3, <3>4 DEF a, v
    <3>5. CASE d # c
      BY <1>1, <1>2, <2>8, <2>9, <3>2, <3>3, <3>5 DEF StagesAreOwn
    <3>. QED
      BY <3>4, <3>5
  <2>11. ArchivesMatch'
    <3>1. ASSUME updater = 0, 0 \notin crossed, NEW d \in Calls, step'[d] \in {"claimapply", "launch"}
          PROVE  Holds(dir[d], cand[d])'
      <4>1. CASE d = c
        BY <1>2, <2>5, <2>8, <2>9, <3>1, <4>1 DEF Holds
      <4>2. CASE d # c
        BY <1>1, <1>2, <2>8, <2>9, <3>1, <4>2 DEF ArchivesMatch, Holds
      <4>. QED
        BY <4>1, <4>2
    <3>. QED
      BY <1>1, <1>2, <2>9, <3>1 DEF ArchivesMatch, Holds
  <2>12. HelperClaims'
    <3>1. \A d \in Calls : step[d] = "sleep" => step'[d] = "sleep"
      BY <1>2, <2>8
    <3>. QED
      BY <1>1, <1>2, <3>1 DEF HelperClaims
  <2>. QED
    BY <2>6, <2>7, <2>10, <2>11, <2>12 DEF UpdaterInv
<1>. QED
  BY <1>4, <1>5

\* The host starts the helper from the stage of its archive.
LEMMA LaunchStep ==
    ASSUME UpdaterInv, NEW c \in Calls, launch_apply_helper(c)
    PROVE  UpdaterInv'
<1>1. UpdaterShapes /\ ClaimsMark /\ StagesAreOwn /\ ArchivesMatch /\ HelperClaims
  BY DEF UpdaterInv
<1> DEFINE new == [stage |-> dir[c], sha256 |-> cand[c], by |-> on[c]]
<1>2. /\ step[c] = "launch" /\ ~exiting /\ dir[c] \in OnDisk
      /\ stages' = Newest(dir[c]) /\ helpers' = helpers \cup {new} /\ step' = [step EXCEPT ![c] = "sleep"]
      /\ UNCHANGED <<feed, updater, exiting, crossed, state, candidate, archive, content, installed,
                     op, on, cand, dir, sent, tampered>>
  BY DEF launch_apply_helper, CallAt, CallGoes, world, calls
<1>3. on[c] \in Updaters /\ state[on[c]] \in States /\ state' = [state EXCEPT ![on[c]] = state[on[c]]]
  BY <1>1, <1>2, OnUpdater
<1>4. /\ stages' \in Seq(Stages) /\ Len(stages') <= 2
      /\ \A i, j \in DOMAIN stages' : stages'[i] = stages'[j] => i = j
      /\ OnDisk' = OnDisk
  BY <1>1, <1>2, NewestKeeps
<1>5. step[c] \in Chosen /\ step[c] \in Installing /\ Claims(c)
  BY <1>2 DEF Chosen, Installing, Claims
<1>6. new \in [stage : Stages, sha256 : Offered, by : 0..updater]
  <2>1. dir[c] \in Stages /\ cand[c] \in Offered /\ on[c] \in 0..updater
    BY <1>1, <1>5 DEF UpdaterShapes, StagesAreOwn
  <2>. QED
    BY <2>1
<1>7. UpdaterShapes'
  <2>1. helpers' \subseteq [stage : Stages, sha256 : Offered, by : 0..updater']
    BY <1>1, <1>2, <1>6 DEF UpdaterShapes
  <2>2. step' \in [Calls -> CallSteps]
    BY <1>1, <1>2 DEF UpdaterShapes, CallSteps
  <2>. QED
    BY <1>1, <1>2, <1>4, <2>1, <2>2 DEF UpdaterShapes
<1>8. ClaimsMark'
  <2>1. "sleep" \in CallSteps
    BY DEF CallSteps
  <2>2. Marked("sleep", state[on[c]])
    BY <1>1, <1>2 DEF ClaimsMark, Marked
  <2>. QED
    BY <1>1, <1>2, <1>3, <1>5, <2>1, <2>2, ClaimStep
<1>9. step'[c] = "sleep" /\ \A d \in Calls : d # c => step'[d] = step[d]
  BY <1>1, <1>2 DEF UpdaterShapes
<1>10. StagesAreOwn'
  <2> SUFFICES ASSUME NEW d \in Calls
               PROVE  /\ step'[d] \in Unstaged => d \notin OnDisk'
                      /\ step'[d] \in Fetching => dir'[d] = d
                      /\ step'[d] \in Chosen => cand'[d] # 0
                      /\ step'[d] \in Installing => dir'[d] # 0 /\ step'[dir'[d]] \notin Unstaged \cup Fetching
                      /\ \A u \in Updaters : archive'[u] = d => step'[d] \notin Unstaged \cup Fetching
    BY DEF StagesAreOwn
  <2>1. "sleep" \notin Unstaged \cup Fetching
    BY DEF Unstaged, Fetching
  <2>2. dir[d] # 0 => dir[d] \in Calls
    BY <1>1, Numbers DEF UpdaterShapes
  <2>3. \A b \in Calls : step[b] \notin Unstaged \cup Fetching => step'[b] \notin Unstaged \cup Fetching
    BY <1>9, <2>1
  <2>4. CASE d = c
    BY <1>1, <1>2, <1>5, <1>9, <2>1, <2>2, <2>3, <2>4 DEF StagesAreOwn
  <2>5. CASE d # c
    BY <1>1, <1>2, <1>4, <1>9, <2>2, <2>3, <2>5 DEF StagesAreOwn
  <2>. QED
    BY <2>4, <2>5
<1>11. ArchivesMatch'
  <2> SUFFICES ASSUME updater = 0, 0 \notin crossed
               PROVE  /\ archive'[0] # 0 => Holds(archive[0], candidate[0])'
                      /\ \A d \in Calls : step'[d] \in {"claimapply", "launch"} => Holds(dir[d], cand[d])'
                      /\ \A h \in helpers' : verify_file_hash(h)'
    BY <1>2 DEF ArchivesMatch
  <2>1. \A d \in Calls : step'[d] \in {"claimapply", "launch"} => step[d] \in {"claimapply", "launch"}
    BY <1>9
  <2>2. Holds(dir[c], cand[c])
    BY <1>1, <1>2 DEF ArchivesMatch
  <2>3. \A h : h = new => verify_file_hash(h)'
    BY <1>2, <1>4, <2>2 DEF Holds, verify_file_hash
  <2>4. \A h \in helpers : verify_file_hash(h)'
    BY <1>1, <1>2, <1>4 DEF ArchivesMatch, verify_file_hash
  <2>5. \A d \in Calls : step'[d] \in {"claimapply", "launch"} => Holds(dir[d], cand[d])'
    BY <1>1, <1>2, <1>4, <2>1 DEF ArchivesMatch, Holds
  <2>6. archive'[0] # 0 => Holds(archive[0], candidate[0])'
    BY <1>1, <1>2, <1>4 DEF ArchivesMatch, Holds
  <2>. HIDE DEF new
  <2>. QED
    BY <1>2, <2>3, <2>4, <2>5, <2>6
<1>12. HelperClaims'
  <2>1. updater = 0 => on[c] = 0
    BY <1>1, Numbers DEF UpdaterShapes
  <2>. QED
    BY <1>2, <1>9, <2>1 DEF HelperClaims
<1>. QED
  BY <1>7, <1>8, <1>10, <1>11, <1>12 DEF UpdaterInv

\* The helper installs what it was told to, or refuses.
LEMMA ApplyStep ==
    ASSUME UpdaterInv, NEW h \in helpers, HelperApplies(h)
    PROVE  UpdaterInv'
<1>1. /\ exiting /\ helpers' = helpers \ {h}
      /\ installed' = IF verify_file_hash(h) THEN content[h.stage] ELSE installed
      /\ UNCHANGED <<feed, updater, state, candidate, archive, stages, content, exiting,
                     step, op, on, cand, dir, sent, tampered, crossed>>
  BY DEF HelperApplies, calls
<1>2. UpdaterShapes'
  <2>1. h.sha256 \in Offered
    BY DEF UpdaterInv, UpdaterShapes
  <2>2. installed' \in Offered \cup {1}
    BY <1>1, <2>1 DEF UpdaterInv, UpdaterShapes, verify_file_hash
  <2>. QED
    BY <1>1, <2>2 DEF UpdaterInv, UpdaterShapes
<1>3. OnDisk' = OnDisk /\ \A g : verify_file_hash(g)' = verify_file_hash(g)
  BY <1>1 DEF OnDisk, verify_file_hash
<1>4. ClaimsMark' /\ StagesAreOwn' /\ HelperClaims'
  BY <1>1, <1>3 DEF UpdaterInv, ClaimsMark, Claims, StagesAreOwn, HelperClaims
<1>5. ArchivesMatch'
  BY <1>1, <1>3 DEF UpdaterInv, ArchivesMatch, Holds
<1>. QED
  BY <1>2, <1>4, <1>5 DEF UpdaterInv

-----------------------------------------------------------------------------
\* Every step keeps the invariant.
LEMMA UpdaterInvKept == UpdaterInv /\ [UpdaterNext]_updater_vars => UpdaterInv'
<1> SUFFICES ASSUME UpdaterInv, [UpdaterNext]_updater_vars PROVE UpdaterInv'
  OBVIOUS
<1>1. CASE UNCHANGED updater_vars
  <2>1. UpdaterShapes' /\ ClaimsMark'
    BY <1>1 DEF updater_vars, UpdaterInv, UpdaterShapes, ClaimsMark, Claims
  <2>2. OnDisk' = OnDisk /\ \A h : verify_file_hash(h)' = verify_file_hash(h)
    BY <1>1 DEF updater_vars, OnDisk, verify_file_hash
  <2>3. StagesAreOwn' /\ HelperClaims'
    BY <1>1, <2>2 DEF updater_vars, UpdaterInv, StagesAreOwn, HelperClaims
  <2>4. ArchivesMatch'
    BY <1>1, <2>2 DEF updater_vars, UpdaterInv, ArchivesMatch, Holds
  <2>. QED
    BY <2>1, <2>3, <2>4 DEF UpdaterInv
<1>2. CASE publish_feed
  BY <1>2, PublishFeedStep
<1>3. ASSUME NEW c \in Calls, NEW o \in Operations, Call(c, o) PROVE UpdaterInv'
  BY <1>3, CallStep
<1>4. ASSUME NEW c \in Calls, Startup(c) \/ Reload(c) PROVE UpdaterInv'
  BY <1>4, StartupStep, ReloadStep
<1>5. ASSUME NEW c \in Calls, Work(c) PROVE UpdaterInv'
  BY <1>5, BeginStep, FailureSteps, CheckInnerStep, ReadCandidateStep, UpdateStageStep, CreateArchiveStep,
     DownloadInnerStep, ReadArchiveStep, LaunchStep, ExitStep DEF Work
<1>6. ASSUME NEW h \in helpers, HelperApplies(h) PROVE UpdaterInv'
  BY <1>6, ApplyStep
<1>. QED
  BY <1>1, <1>2, <1>3, <1>4, <1>5, <1>6 DEF UpdaterNext

\* The invariant holds of every state a host reaches.
LEMMA UpdaterInvAlways == UpdaterSpec => []UpdaterInv
  BY UpdaterInitially, UpdaterInvKept, PTL DEF UpdaterSpec

\* Updaters, calls and stages keep their shapes, and an Updater admits one
\* operation at a time (begin).
THEOREM UpdaterTypeCorrect == UpdaterSpec => []UpdaterTypeOK
<1>1. UpdaterInv => UpdaterTypeOK
  <2> SUFFICES ASSUME UpdaterInv PROVE UpdaterTypeOK
    OBVIOUS
  <2>1. Offered \subseteq Ids /\ Offered \cup {0} \subseteq Known /\ 0..updater \subseteq Updaters
    BY Numbers DEF UpdaterInv, UpdaterShapes, Offered, Known
  <2>2. /\ feed \in Ids /\ updater \in Updaters /\ state \in [Updaters -> States]
        /\ candidate \in [Updaters -> Known] /\ archive \in [Updaters -> Stages \cup {0}]
        /\ stages \in Seq(Stages) /\ \A i, j \in DOMAIN stages : stages[i] = stages[j] => i = j
    BY <2>1 DEF UpdaterInv, UpdaterShapes
  <2>3. /\ content \in [Stages -> Known]
        /\ helpers \subseteq [stage : Stages, sha256 : Ids, by : Updaters]
        /\ installed \in Ids /\ exiting \in BOOLEAN
    BY <2>1, Numbers DEF UpdaterInv, UpdaterShapes
  <2>4. /\ step \in [Calls -> CallSteps] /\ op \in [Calls -> Operations] /\ on \in [Calls -> Updaters]
        /\ cand \in [Calls -> Known] /\ dir \in [Calls -> Stages \cup {0}]
        /\ tampered \in 0..MaxTampered /\ sent \in 0..MaxCalls /\ crossed \subseteq Updaters
    BY <2>1 DEF UpdaterInv, UpdaterShapes
  <2>. QED
    BY <2>2, <2>3, <2>4 DEF UpdaterInv, ClaimsMark, UpdaterTypeOK
<1>. QED
  BY UpdaterInvAlways, <1>1, PTL

\* Whatever releases are published, in whatever order, and however checks,
\* downloads, reloads and tampered answers overlap, what a helper puts in
\* place of the installed version has a higher SemVer precedence: the
\* candidate that compare_versions accepted is the one that is hashed.
THEOREM InstallsOnlyNewer == UpdaterSpec => []NeverInstallsOlder
<1>1. UpdaterInv => NeverInstallsOlder
  BY NewerIsBehind DEF UpdaterInv, UpdaterShapes, Offered, NeverInstallsOlder
<1>. QED
  BY UpdaterInvAlways, <1>1, PTL

\* A helper finds the archive whose digest it was given, complete, unless a
\* download ended for another candidate than the one in place or a reload
\* brought a second Updater: update_stage of the same Updater cannot have
\* pruned it, since the claim is held until the host is gone.
THEOREM HelpersFindArchives == UpdaterSpec => []HelperFindsItsArchive
<1>1. UpdaterInv => HelperFindsItsArchive
  <2> SUFFICES ASSUME UpdaterInv, NEW h \in helpers, h.by \notin crossed, ~(updater > 0)
               PROVE  verify_file_hash(h)
    BY DEF HelperFindsItsArchive
  <2>1. updater = 0 /\ h.by = 0
    BY Numbers DEF UpdaterInv, UpdaterShapes
  <2>. QED
    BY <2>1 DEF UpdaterInv, ArchivesMatch
<1>. QED
  BY UpdaterInvAlways, <1>1, PTL

-----------------------------------------------------------------------------
(* The packager.                                                             *)

\* The names of everything a bundle or an artifact consists of.
Files == Entries \cup Binaries \cup
         {"php.ini", "icon", "desktop.in", "install.sh", "uninstall.sh", "manifest.json", "desktop", "link",
          "control", "spec", "AppRun", "Info.plist", "start", "assets", "AppxManifest.xml"}

\* A bundle and an artifact, and a build once its options were read.
Bundles == [by : Builds, files : SUBSET Files, signed : SUBSET Files,
            listed : SUBSET [file : Files, by : Builds, signed : BOOLEAN]]
Artifacts == [by : Builds, format : Formats, bundle : Bundles, files : SUBSET Files, sealed : BOOLEAN]
BuildSteps == {"check", "bundle", "stage", "remove", "publish", "done", "failed", "killed"}
New == [pc |-> "new"]
Parsed == [pc : BuildSteps, formats : SUBSET Formats, force : BOOLEAN, sign : BOOLEAN,
           bundle : Bundles \cup {None}, staged : SUBSET Artifacts, todo : SUBSET Formats]

\* The shapes of the state.
PackageShapes ==
    /\ os \in Systems /\ project \in Projects
    /\ build \in [Builds -> {New} \cup Parsed]
    /\ out \in [Formats -> {None} \cup {[by |-> Earlier, format |-> f] : f \in Formats} \cup Artifacts]

\* A bundle is what the build made of a project that could be copied.
Built(b) == /\ build[b] \in Parsed /\ build[b].bundle = Bundle(b)
            /\ ~CopyFails(project) /\ (build[b].sign => os # "linux")

\* The formats a build has staged.
StagedFormats(b) == {a.format : a \in build[b].staged}

\* What is staged was created from the build's own bundle, and what is not yet
\* staged, removed or published is still to do.
InStep(b) ==
    /\ build[b].sign => os # "linux"
    /\ build[b].bundle # None => Built(b)
    /\ build[b].pc \in {"check", "bundle"} => build[b].bundle = None /\ build[b].staged = {}
    /\ build[b].pc \in {"stage", "remove", "publish"} => build[b].bundle # None
    /\ \A a \in build[b].staged : build[b].bundle # None /\ a = Create(b, a.format)
    /\ build[b].pc = "stage" => StagedFormats(b) \cup build[b].todo = build[b].formats
    /\ build[b].pc = "remove" => StagedFormats(b) = build[b].formats
    /\ build[b].pc = "publish" => build[b].todo \subseteq StagedFormats(b)

\* Every build whose options were read is in step.
BuildsInStep == \A b \in Builds : build[b] # New => InStep(b)

\* What a build published is what it created.
PublishedIsCreated ==
    \A f \in Formats, m \in Builds :
        out[f] \in Artifacts /\ out[f].by = m => Built(m) /\ out[f] = Create(m, f)

\* The inductive invariant of the packager.
PackagesInv == PackageShapes /\ BuildsInStep /\ PublishedIsCreated

-----------------------------------------------------------------------------
\* Nothing is no artifact, and neither is what an earlier build left.
LEMMA NoneIsNoArtifact ==
    None \notin Artifacts /\ \A f : [by |-> Earlier, format |-> f] \notin Artifacts
<1>1. \A a \in Artifacts : "files" \in DOMAIN a
  BY DEF Artifacts
<1>2. DOMAIN None = {"by"} /\ \A f : DOMAIN [by |-> Earlier, format |-> f] = {"by", "format"}
  BY DEF None
<1>. QED
  BY <1>1, <1>2

\* Both orders list every format.
LEMMA OrdersAreComplete ==
    /\ \A f \in Formats : \E i \in 1..8 : Order[i] = f
    /\ \A f \in Formats : \E i \in 1..8 : Destinations[i] = f
    /\ DOMAIN Order = 1..8 /\ DOMAIN Destinations = 1..8
<1>1. DOMAIN Order = 1..8 /\ DOMAIN Destinations = 1..8
  BY DEF Order, Destinations
<1>2. /\ Order[1] = "portable" /\ Order[2] = "deb" /\ Order[3] = "native" /\ Order[4] = "appimage"
      /\ Order[5] = "rpm" /\ Order[6] = "pkg" /\ Order[7] = "msi" /\ Order[8] = "directory"
  BY DEF Order
<1>3. /\ Destinations[1] = "directory" /\ Destinations[2] = "portable" /\ Destinations[3] = "deb"
      /\ Destinations[4] = "native" /\ Destinations[5] = "appimage" /\ Destinations[6] = "rpm"
      /\ Destinations[7] = "pkg" /\ Destinations[8] = "msi"
  BY DEF Destinations
<1>4. {1, 2, 3, 4, 5, 6, 7, 8} \subseteq 1..8
  OBVIOUS
<1>5. \A f \in Formats : \E i \in 1..8 : Order[i] = f
  BY <1>2, <1>4 DEF Formats
<1>6. \A f \in Formats : \E i \in 1..8 : Destinations[i] = f
  BY <1>3, <1>4 DEF Formats
<1>. QED
  BY <1>1, <1>5, <1>6

\* The format whose turn it is is one of them.
LEMMA ForemostIsOne ==
    ASSUME NEW order, DOMAIN order = 1..8, \A f \in Formats : \E i \in 1..8 : order[i] = f,
           NEW formats \in SUBSET Formats, formats # {}
    PROVE  Foremost(order, formats) \in formats
<1> DEFINE places == {i \in 1..8 : order[i] \in formats}
<1>1. places \in SUBSET Nat /\ places # {}
  OBVIOUS
<1>2. PICK i \in places : \A j \in places : i <= j
  BY <1>1, LeastIndex
<1>3. \A j \in 1..(i - 1) : j \in 1..8 /\ ~(i <= j)
  OBVIOUS
<1>4. \A j \in 1..(i - 1) : order[j] \notin formats
  BY <1>2, <1>3
<1>. QED
  BY <1>4 DEF Foremost

\* Staging, removing and publishing take one of the formats that are to do.
LEMMA NextInOrder ==
    ASSUME NEW formats \in SUBSET Formats, formats # {}
    PROVE  Foremost(Order, formats) \in formats /\ Foremost(Destinations, formats) \in formats
  BY OrdersAreComplete, ForemostIsOne

\* What the bundle consists of are names of files.
LEMMA FilesAreNames ==
    ASSUME project \in Projects
    PROVE  /\ App \subseteq Files /\ Binaries \subseteq Files /\ Materialized \subseteq Files
           /\ "manifest.json" \notin Materialized
<1>1. App \subseteq Entries
  BY PackagerAssumption DEF PackagerAssumption, App, sanitize_composer_metadata, copy_directory
<1>2. "manifest.json" \notin Entries
  BY DEF Entries
<1>3. "manifest.json" \notin Binaries
  BY DEF Binaries, write_launcher, copy_runtime_libraries
<1>. QED
  BY <1>1, <1>2, <1>3 DEF Files, Materialized, write_php_ini, bundle_icon_path, desktop_entry,
     write_portable_installer, write_portable_uninstaller

\* What materialize_bundle makes is a bundle.
LEMMA BundleType ==
    ASSUME PackageShapes, NEW b \in Builds, build[b] \in Parsed
    PROVE  Bundle(b) \in Bundles /\ Bundle(b) # None
<1>1. Binaries \subseteq Files /\ Materialized \subseteq Files
  BY FilesAreNames DEF PackageShapes
<1>2. Signed(build[b].sign) \subseteq Files
  BY <1>1 DEF Signed
<1>3. write_bundle_manifest(Materialized, b, Signed(build[b].sign))
        \in SUBSET [file : Files, by : Builds, signed : BOOLEAN]
  <2>1. \A g \in Materialized, s \in BOOLEAN :
          [file |-> g, by |-> b, signed |-> s] \in [file : Files, by : Builds, signed : BOOLEAN]
    BY <1>1
  <2>2. \A g : (g \in Signed(build[b].sign)) \in BOOLEAN
    OBVIOUS
  <2>3. write_bundle_manifest(Materialized, b, Signed(build[b].sign)) =
          {[file |-> g, by |-> b, signed |-> g \in Signed(build[b].sign)] :
             g \in Materialized \ {"manifest", "manifest.json"}}
    BY DEF write_bundle_manifest, packager_bundle_files, Digests
  <2>. QED
    BY <2>1, <2>2, <2>3
<1>4. "manifest.json" \in Files
  BY DEF Files
<1> DEFINE listed == write_bundle_manifest(Materialized, b, Signed(build[b].sign))
           signed == Signed(build[b].sign)
<1>5. Bundle(b) = [by |-> b, files |-> Materialized \cup {"manifest.json"}, signed |-> signed, listed |-> listed]
  BY DEF Bundle
<1>6. listed \in SUBSET [file : Files, by : Builds, signed : BOOLEAN] /\ signed \in SUBSET Files
      /\ Materialized \cup {"manifest.json"} \in SUBSET Files
  BY <1>1, <1>2, <1>3, <1>4
<1>. HIDE DEF listed, signed
<1>7. Bundle(b) \in Bundles
  BY <1>5, <1>6 DEF Bundles
<1>8. Bundle(b) # None
  <2>1. DOMAIN Bundle(b) = {"by", "files", "signed", "listed"} /\ DOMAIN None = {"by"}
    BY <1>5 DEF None
  <2>. QED
    BY <2>1
<1>. QED
  BY <1>7, <1>8

\* Each create function makes an artifact of its format from the bundle.
LEMMA CreateType ==
    ASSUME PackageShapes, NEW b \in Builds, build[b] \in Parsed, build[b].bundle \in Bundles,
           NEW f \in Formats
    PROVE  Create(b, f) \in Artifacts /\ Create(b, f).format = f /\ Create(b, f).by = b
<1>1. App \subseteq Files /\ Binaries \subseteq Files
  BY FilesAreNames DEF PackageShapes
<1>2. All(b) \subseteq Files /\ create_macos_application(b) \subseteq Files /\ build[b].sign \in BOOLEAN
  BY DEF All, Bundles, create_macos_application, macos_info_plist, Parsed, Files
<1>3. \A g \in Formats, files \in SUBSET Files, sealed \in BOOLEAN :
        /\ Artifact(b, g, files, sealed) \in Artifacts
        /\ Artifact(b, g, files, sealed).format = g /\ Artifact(b, g, files, sealed).by = b
  BY DEF Artifact, Artifacts
<1>4. /\ App \cup Binaries \cup {"php.ini", "manifest.json", "desktop", "icon", "link", "control"} \subseteq Files
      /\ All(b) \cup {"desktop", "icon", "link", "spec"} \subseteq Files
      /\ All(b) \cup {"desktop", "icon", "link", "AppRun"} \subseteq Files
      /\ All(b) \cup create_windows_assets \cup windows_appx_manifest \subseteq Files
  BY <1>1, <1>2 DEF Files, create_windows_assets, windows_appx_manifest
<1>. HIDE DEF Files
<1>5. CASE f = "portable"
  BY <1>2, <1>3, <1>5 DEF Create, create_portable_archive
<1>6. CASE f = "deb"
  BY <1>3, <1>4, <1>6 DEF Create, create_debian_package
<1>7. CASE f = "native"
  BY <1>2, <1>3, <1>4, <1>7 DEF Create, create_native_package, create_macos_package, create_windows_package
<1>8. CASE f = "appimage"
  BY <1>3, <1>4, <1>8 DEF Create, create_appimage_package
<1>9. CASE f = "rpm"
  BY <1>3, <1>4, <1>9 DEF Create, create_rpm_package
<1>10. CASE f = "pkg"
  BY <1>2, <1>3, <1>10 DEF Create, create_pkg_package
<1>11. CASE f = "msi"
  BY <1>2, <1>3, <1>11 DEF Create, create_msi_package
<1>12. CASE f = "directory"
  BY <1>2, <1>3, <1>12 DEF Create
<1>. QED
  BY <1>5, <1>6, <1>7, <1>8, <1>9, <1>10, <1>11, <1>12 DEF Formats

-----------------------------------------------------------------------------
\* The same system and project give the same files.
LEMMA SameSources ==
    ASSUME UNCHANGED <<os, project>>
    PROVE  /\ App' = App /\ Materialized' = Materialized /\ (\A s : Signed(s)' = Signed(s))
           /\ CopyFails(project)' = CopyFails(project)
  BY DEF App, Materialized, Signed, CopyFails

\* The same options give the same bundle, and the same bundle the same artifacts.
LEMMA SameMade ==
    ASSUME UNCHANGED <<os, project>>, NEW b, build'[b].sign = build[b].sign
    PROVE  /\ Bundle(b)' = Bundle(b)
           /\ build'[b].bundle = build[b].bundle => \A f : Create(b, f)' = Create(b, f)
<1>1. App' = App /\ Materialized' = Materialized /\ \A s : Signed(s)' = Signed(s)
  BY SameSources
<1>2. Bundle(b)' = Bundle(b)
  BY <1>1 DEF Bundle
<1>3. ASSUME build'[b].bundle = build[b].bundle PROVE \A f : Create(b, f)' = Create(b, f)
  <2>1. All(b)' = All(b) /\ create_macos_application(b)' = create_macos_application(b)
    BY <1>3 DEF All, create_macos_application
  <2>2. \A g, files, sealed : Artifact(b, g, files, sealed)' = Artifact(b, g, files, sealed)
    BY <1>3 DEF Artifact
  <2>3. /\ create_portable_archive(b)' = create_portable_archive(b)
        /\ create_debian_package(b)' = create_debian_package(b)
        /\ create_appimage_package(b)' = create_appimage_package(b)
        /\ create_rpm_package(b)' = create_rpm_package(b)
    BY <1>1, <1>3, <2>1 DEF Artifact, create_portable_archive, create_debian_package, create_appimage_package,
       create_rpm_package
  <2>4. /\ create_native_package(b)' = create_native_package(b)
        /\ create_pkg_package(b)' = create_pkg_package(b)
        /\ create_msi_package(b)' = create_msi_package(b)
    BY <1>3, <2>1 DEF Artifact, create_native_package, create_macos_package, create_windows_package,
       create_pkg_package, create_msi_package
  <2>. QED
    BY <1>3, <2>1, <2>3, <2>4 DEF Create, Artifact
<1>. QED
  BY <1>2, <1>3

\* A step of one build: what the others, and it itself, published stays made.
LEMMA OneBuildMoves ==
    ASSUME PackagesInv, NEW b \in Builds, NEW r \in Parsed, build' = [build EXCEPT ![b] = r],
           UNCHANGED <<os, project>>,
           build[b] \in Parsed => r.sign = build[b].sign /\ (build[b].bundle # None => r.bundle = build[b].bundle),
           InStep(b)',
           out' \in [Formats -> {None} \cup {[by |-> Earlier, format |-> f] : f \in Formats} \cup Artifacts],
           \A f \in Formats : out'[f] \in Artifacts =>
               out'[f] = out[f] \/ (out'[f].by = b /\ Built(b) /\ out'[f] = Create(b, f))
    PROVE  PackagesInv'
<1>1. PackageShapes /\ BuildsInStep /\ PublishedIsCreated
  BY DEF PackagesInv
<1>2. build'[b] = r /\ \A c \in Builds : c # b => build'[c] = build[c]
  BY <1>1 DEF PackageShapes
<1>3. PackageShapes'
  <2>1. build' \in [Builds -> {New} \cup Parsed]
    BY <1>1 DEF PackageShapes
  <2>. QED
    BY <1>1, <2>1 DEF PackageShapes
<1>4. \A c \in Builds : c # b => /\ Bundle(c)' = Bundle(c)
                                 /\ \A f : Create(c, f)' = Create(c, f)
  BY <1>2, SameMade
<1>5. CopyFails(project)' = CopyFails(project)
  BY SameSources
<1>6. \A c \in Builds : c # b => Built(c)' = Built(c)
  BY <1>2, <1>4, <1>5 DEF Built
<1>7. BuildsInStep'
  <2> SUFFICES ASSUME NEW c \in Builds, build'[c] # New PROVE InStep(c)'
    BY DEF BuildsInStep
  <2>1. CASE c = b
    BY <2>1
  <2>2. CASE c # b
    <3>1. InStep(c)
      BY <1>1, <1>2, <2>2 DEF BuildsInStep
    <3>2. StagedFormats(c)' = StagedFormats(c)
      BY <1>2, <2>2 DEF StagedFormats
    <3>. QED
      BY <1>2, <1>4, <1>6, <2>2, <3>1, <3>2 DEF InStep
  <2>. QED
    BY <2>1, <2>2
<1>8. Built(b) => Built(b)' /\ \A f : Create(b, f)' = Create(b, f)
  <2> SUFFICES ASSUME Built(b) PROVE Built(b)' /\ \A f : Create(b, f)' = Create(b, f)
    OBVIOUS
  <2>1. build[b] \in Parsed /\ build[b].bundle = Bundle(b)
    BY DEF Built
  <2>2. build[b].bundle # None
    BY <1>1, <2>1, BundleType
  <2>3. build'[b].sign = build[b].sign /\ build'[b].bundle = build[b].bundle
    BY <1>2, <2>1, <2>2
  <2>4. Bundle(b)' = Bundle(b) /\ \A f : Create(b, f)' = Create(b, f)
    BY <2>3, SameMade
  <2>. QED
    BY <1>2, <1>5, <2>3, <2>4 DEF Built
<1>9. PublishedIsCreated'
  <2> SUFFICES ASSUME NEW f \in Formats, NEW m \in Builds, out'[f] \in Artifacts, out'[f].by = m
               PROVE  Built(m)' /\ out'[f] = Create(m, f)'
    BY DEF PublishedIsCreated
  <2>1. Built(m) /\ out'[f] = Create(m, f)
    BY <1>1 DEF PublishedIsCreated
  <2>2. CASE m = b
    BY <1>8, <2>1, <2>2
  <2>3. CASE m # b
    BY <1>4, <1>6, <2>1, <2>3
  <2>. QED
    BY <2>2, <2>3
<1>. QED
  BY <1>3, <1>7, <1>9 DEF PackagesInv

\* A build that has left its first step has read its options.
LEMMA BuildIsParsed ==
    ASSUME PackageShapes, NEW b \in Builds, build[b].pc # "new"
    PROVE  build[b] \in Parsed
  BY DEF PackageShapes, New

\* The invariant of one build.
LEMMA ParsedIsInStep ==
    ASSUME PackagesInv, NEW b \in Builds, build[b] \in Parsed
    PROVE  InStep(b)
<1>1. DOMAIN build[b] = {"pc", "formats", "force", "sign", "bundle", "staged", "todo"} /\ DOMAIN New = {"pc"}
  BY DEF Parsed, New
<1>2. build[b] # New
  BY <1>1
<1>. QED
  BY <1>2 DEF PackagesInv, BuildsInStep

\* A step of a build whose options were read: it keeps them and its bundle,
\* stages only what it creates, and publishes only what it had staged.
LEMMA BuildMovesOn ==
    ASSUME PackagesInv, NEW b \in Builds, build[b] \in Parsed, NEW r \in Parsed,
           build' = [build EXCEPT ![b] = r], UNCHANGED <<os, project>>,
           r.formats = build[b].formats, r.sign = build[b].sign, r.bundle = build[b].bundle,
           \A a \in r.staged : a \in build[b].staged \/ (build[b].bundle # None /\ a = Create(b, a.format)),
           r.pc \in {"stage", "remove", "publish"} => build[b].bundle # None,
           r.pc \in {"check", "bundle"} => r.bundle = None /\ r.staged = {},
           r.pc = "stage" => {a.format : a \in r.staged} \cup r.todo = r.formats,
           r.pc = "remove" => {a.format : a \in r.staged} = r.formats,
           r.pc = "publish" => r.todo \subseteq {a.format : a \in r.staged},
           out' \in [Formats -> {None} \cup {[by |-> Earlier, format |-> f] : f \in Formats} \cup Artifacts],
           \A f \in Formats : out'[f] \in Artifacts =>
               out'[f] = out[f] \/ (out'[f] \in build[b].staged /\ out'[f].format = f)
    PROVE  PackagesInv'
<1>1. PackageShapes /\ BuildsInStep
  BY DEF PackagesInv
<1>2. build'[b] = r
  BY <1>1 DEF PackageShapes
<1>3. InStep(b)
  BY ParsedIsInStep
<1>4. /\ Bundle(b)' = Bundle(b) /\ \A f : Create(b, f)' = Create(b, f)
  BY <1>2, SameMade
<1>5. CopyFails(project)' = CopyFails(project)
  BY SameSources
<1>6. build[b].bundle # None => Built(b) /\ Built(b)'
  BY <1>2, <1>3, <1>4, <1>5 DEF InStep, Built
<1>7. InStep(b)'
  <2>1. StagedFormats(b)' = {a.format : a \in r.staged}
    BY <1>2 DEF StagedFormats
  <2>2. \A a \in r.staged : build[b].bundle # None /\ a = Create(b, a.format)
    BY <1>3 DEF InStep
  <2>3. \A a \in build'[b].staged : build'[b].bundle # None /\ a = Create(b, a.format)'
    BY <1>2, <1>4, <2>2
  <2>. QED
    BY <1>2, <1>3, <1>6, <2>1, <2>3 DEF InStep
<1>8. \A f \in Formats : out'[f] \in Artifacts =>
          out'[f] = out[f] \/ (out'[f].by = b /\ Built(b) /\ out'[f] = Create(b, f))
  <2> SUFFICES ASSUME NEW f \in Formats, out'[f] \in build[b].staged, out'[f].format = f
               PROVE  out'[f].by = b /\ Built(b) /\ out'[f] = Create(b, f)
    OBVIOUS
  <2>1. build[b].bundle # None /\ out'[f] = Create(b, f)
    BY <1>3 DEF InStep
  <2>2. build[b].bundle \in Bundles
    BY <2>1 DEF Parsed
  <2>. QED
    BY <1>1, <1>6, <2>1, <2>2, CreateType
<1>9. /\ build[b] \in Parsed => r.sign = build[b].sign /\ (build[b].bundle # None => r.bundle = build[b].bundle)
      /\ out' \in [Formats -> {None} \cup {[by |-> Earlier, format |-> f] : f \in Formats} \cup Artifacts]
  OBVIOUS
<1>. QED
  BY <1>7, <1>8, <1>9, OneBuildMoves

\* An error at any step, a kill, and a build that is done: what is staged is
\* kept or dropped, and nothing is published.
LEMMA BuildEnds ==
    ASSUME PackagesInv, NEW b \in Builds, build[b] \in Parsed, UNCHANGED <<os, project, out>>,
           NEW end \in {"done", "failed", "killed"}, NEW kept \in SUBSET build[b].staged,
           build' = [build EXCEPT ![b] = [@ EXCEPT !.pc = end, !.staged = kept]]
    PROVE  PackagesInv'
<1> DEFINE r == [build[b] EXCEPT !.pc = end, !.staged = kept]
<1>1. /\ r \in Parsed /\ r.pc = end /\ r.staged = kept /\ r.formats = build[b].formats
      /\ r.sign = build[b].sign /\ r.bundle = build[b].bundle
  BY DEF Parsed, BuildSteps
<1>2. build' = [build EXCEPT ![b] = r]
  BY DEF PackagesInv, PackageShapes
<1>3. out' \in [Formats -> {None} \cup {[by |-> Earlier, format |-> f] : f \in Formats} \cup Artifacts]
  BY DEF PackagesInv, PackageShapes
<1>. HIDE DEF r
<1>. QED
  BY <1>1, <1>2, <1>3, BuildMovesOn

\* An error drops what was staged.
LEMMA FailsKeeps ==
    ASSUME PackagesInv, NEW b \in Builds, build[b].pc # "new", UNCHANGED <<os, project, out>>, Fails(b)
    PROVE  PackagesInv'
<1>1. build[b] \in Parsed
  BY BuildIsParsed DEF PackagesInv
<1>2. build' = [build EXCEPT ![b] = [@ EXCEPT !.pc = "failed", !.staged = {}]]
  BY DEF Fails
<1>3. {} \in SUBSET build[b].staged /\ "failed" \in {"done", "failed", "killed"}
  OBVIOUS
<1>. QED
  BY <1>1, <1>2, <1>3, BuildEnds

\* A build that is done or killed leaves its workspace as it is.
LEMMA EndsKeep ==
    ASSUME PackagesInv, NEW b \in Builds, build[b].pc # "new", UNCHANGED <<os, project, out>>,
           NEW end \in {"done", "killed"}, BuildGoes(b, end)
    PROVE  PackagesInv'
<1>1. build[b] \in Parsed
  BY BuildIsParsed DEF PackagesInv
<1>2. [build[b] EXCEPT !.pc = end] = [build[b] EXCEPT !.pc = end, !.staged = build[b].staged]
  BY <1>1 DEF Parsed
<1>3. build' = [build EXCEPT ![b] = [@ EXCEPT !.pc = end, !.staged = build[b].staged]]
  BY <1>2 DEF BuildGoes, PackagesInv, PackageShapes
<1>. QED
  BY <1>1, <1>3, BuildEnds

\* BuildOptions::parse: nothing is built yet.
LEMMA ParseKeeps ==
    ASSUME PackagesInv, NEW b \in Builds, parse(b)
    PROVE  PackagesInv'
<1>1. PackageShapes
  BY DEF PackagesInv
<1>2. PICK formats \in Requests, force \in BOOLEAN, sign \in BOOLEAN :
        /\ validate_platform_formats(formats, sign)
        /\ build' = [build EXCEPT ![b] = [pc |-> "check", formats |-> formats, force |-> force, sign |-> sign,
                                          bundle |-> None, staged |-> {}, todo |-> {}]]
  BY DEF parse
<1> DEFINE r == [pc |-> "check", formats |-> formats, force |-> force, sign |-> sign,
                 bundle |-> None, staged |-> {}, todo |-> {}]
<1>3. r \in Parsed
  BY PackagerAssumption DEF PackagerAssumption, Parsed, BuildSteps
<1>4. r.pc = "check" /\ r.sign = sign /\ r.bundle = None /\ r.staged = {}
  OBVIOUS
<1>5. build' = [build EXCEPT ![b] = r]
  BY <1>2
<1>. HIDE DEF r
<1>6. build'[b] = r
  BY <1>1, <1>5 DEF PackageShapes
<1>7. build[b] \notin Parsed
  BY DEF parse, BuildAt, Parsed, BuildSteps
<1>8. UNCHANGED <<os, project, out>>
  BY DEF parse
<1>9. InStep(b)'
  BY <1>2, <1>4, <1>6, <1>8 DEF InStep, validate_platform_formats
<1>10. out' \in [Formats -> {None} \cup {[by |-> Earlier, format |-> f] : f \in Formats} \cup Artifacts]
  BY <1>1, <1>8 DEF PackageShapes
<1>. QED
  BY <1>3, <1>5, <1>7, <1>8, <1>9, <1>10, OneBuildMoves

\* ensure_available touches nothing of an earlier build.
LEMMA CheckKeeps ==
    ASSUME PackagesInv, NEW b \in Builds, ensure_available(b)
    PROVE  PackagesInv'
<1>1. PackageShapes /\ UNCHANGED <<os, project, out>> /\ build[b].pc = "check"
  BY DEF PackagesInv, ensure_available, BuildAt
<1>2. build[b] \in Parsed
  BY <1>1, BuildIsParsed
<1>3. CASE Fails(b)
  BY <1>1, <1>3, FailsKeeps
<1>4. CASE BuildGoes(b, "bundle")
  <2> DEFINE r == [build[b] EXCEPT !.pc = "bundle"]
  <2>1. /\ r \in Parsed /\ r.pc = "bundle" /\ r.staged = build[b].staged /\ r.formats = build[b].formats
        /\ r.sign = build[b].sign /\ r.bundle = build[b].bundle
    BY <1>2 DEF Parsed, BuildSteps
  <2>2. build' = [build EXCEPT ![b] = r]
    BY <1>1, <1>4 DEF BuildGoes, PackageShapes
  <2>3. out' \in [Formats -> {None} \cup {[by |-> Earlier, format |-> f] : f \in Formats} \cup Artifacts]
    BY <1>1 DEF PackageShapes
  <2>4. build[b].bundle = None /\ build[b].staged = {}
    BY <1>1, <1>2, ParsedIsInStep DEF InStep
  <2>. HIDE DEF r
  <2>. QED
    BY <1>1, <1>2, <2>1, <2>2, <2>3, <2>4, BuildMovesOn
<1>. QED
  BY <1>3, <1>4 DEF ensure_available

\* materialize_bundle: the bundle is the one of the project and the options.
LEMMA BundleKeeps ==
    ASSUME PackagesInv, NEW b \in Builds, materialize_bundle(b)
    PROVE  PackagesInv'
<1>1. PackageShapes /\ UNCHANGED <<os, project, out>> /\ build[b].pc = "bundle"
  BY DEF PackagesInv, materialize_bundle, BuildAt
<1>2. build[b] \in Parsed
  BY <1>1, BuildIsParsed
<1>3. CASE Fails(b)
  BY <1>1, <1>3, FailsKeeps
<1>4. ASSUME ~CopyFails(project),
             build' = [build EXCEPT ![b] = [@ EXCEPT !.pc = "stage", !.bundle = Bundle(b),
                                                      !.todo = build[b].formats]]
      PROVE  PackagesInv'
  <2> DEFINE r == [build[b] EXCEPT !.pc = "stage", !.bundle = Bundle(b), !.todo = build[b].formats]
  <2>1. Bundle(b) \in Bundles /\ Bundle(b) # None
    BY <1>1, <1>2, BundleType
  <2>2. /\ r \in Parsed /\ r.pc = "stage" /\ r.staged = build[b].staged /\ r.formats = build[b].formats
        /\ r.sign = build[b].sign /\ r.bundle = Bundle(b) /\ r.todo = build[b].formats
    BY <1>2, <2>1 DEF Parsed, BuildSteps
  <2>3. build' = [build EXCEPT ![b] = r]
    BY <1>1, <1>4 DEF PackageShapes
  <2>4. out' \in [Formats -> {None} \cup {[by |-> Earlier, format |-> f] : f \in Formats} \cup Artifacts]
    BY <1>1 DEF PackageShapes
  <2>. HIDE DEF r
  <2>5. build'[b] = r
    BY <1>1, <2>3 DEF PackageShapes
  <2>6. InStep(b)
    BY <1>2, ParsedIsInStep
  <2>7. build[b].bundle = None /\ build[b].staged = {}
    BY <1>1, <2>6 DEF InStep
  <2>8. Bundle(b)' = Bundle(b)
    BY <1>1, <2>2, <2>5, SameMade
  <2>9. CopyFails(project)' = CopyFails(project)
    BY <1>1, SameSources
  <2>10. Built(b)'
    BY <1>1, <1>4, <2>2, <2>5, <2>6, <2>8, <2>9 DEF Built, InStep
  <2>11. StagedFormats(b)' = {}
    BY <2>2, <2>5, <2>7 DEF StagedFormats
  <2>12. InStep(b)'
    BY <1>1, <2>1, <2>2, <2>5, <2>6, <2>7, <2>10, <2>11 DEF InStep
  <2>. QED
    BY <1>1, <2>2, <2>3, <2>4, <2>7, <2>12, OneBuildMoves
<1>. QED
  BY <1>3, <1>4 DEF materialize_bundle

\* The next format is staged, or all of them are and the earlier ones go.
LEMMA StageKeeps ==
    ASSUME PackagesInv, NEW b \in Builds, Stage(b)
    PROVE  PackagesInv'
<1>1. PackageShapes /\ UNCHANGED <<os, project, out>> /\ build[b].pc = "stage"
  BY DEF PackagesInv, Stage, BuildAt
<1>2. build[b] \in Parsed /\ InStep(b)
  BY <1>1, BuildIsParsed, ParsedIsInStep
<1>3. /\ build[b].bundle # None /\ build[b].bundle \in Bundles
      /\ StagedFormats(b) \cup build[b].todo = build[b].formats
      /\ build[b].todo \in SUBSET Formats /\ build[b].staged \in SUBSET Artifacts
  BY <1>1, <1>2 DEF InStep, Parsed
<1>4. out' \in [Formats -> {None} \cup {[by |-> Earlier, format |-> g] : g \in Formats} \cup Artifacts]
  BY <1>1 DEF PackageShapes
<1> DEFINE f == Foremost(Order, build[b].todo)
<1>5. CASE Fails(b)
  BY <1>1, <1>5, FailsKeeps
<1>6. ASSUME build[b].todo # {},
             build' = [build EXCEPT ![b] = [@ EXCEPT !.staged = build[b].staged \cup {Create(b, f)},
                                                      !.todo = build[b].todo \ {f}]]
      PROVE  PackagesInv'
  <2>1. f \in build[b].todo /\ f \in Formats
    BY <1>3, <1>6, NextInOrder
  <2> HIDE DEF f
  <2> DEFINE a == Create(b, f)
             r == [build[b] EXCEPT !.staged = build[b].staged \cup {a}, !.todo = build[b].todo \ {f}]
  <2>2. a \in Artifacts /\ a.format = f
    BY <1>1, <1>2, <1>3, <2>1, CreateType
  <2>3. a = Create(b, a.format)
    BY <2>2
  <2>4. build' = [build EXCEPT ![b] = r]
    BY <1>1, <1>6 DEF PackageShapes
  <2> HIDE DEF a
  <2>5. /\ r \in Parsed /\ r.pc = "stage" /\ r.staged = build[b].staged \cup {a} /\ r.formats = build[b].formats
        /\ r.sign = build[b].sign /\ r.bundle = build[b].bundle /\ r.todo = build[b].todo \ {f}
    BY <1>1, <1>2, <1>3, <2>2 DEF Parsed
  <2> HIDE DEF r
  <2>6. {x.format : x \in r.staged} \cup r.todo = r.formats
    <3>1. {x.format : x \in build[b].staged \cup {a}} = StagedFormats(b) \cup {f}
      BY <2>2 DEF StagedFormats
    <3>2. {x.format : x \in r.staged} = StagedFormats(b) \cup {f}
      BY <2>5, <3>1
    <3>. QED
      BY <1>3, <2>1, <2>5, <3>2
  <2>7. \A x \in r.staged : x \in build[b].staged \/ (build[b].bundle # None /\ x = Create(b, x.format))
    BY <1>3, <2>3, <2>5
  <2>. QED
    BY <1>1, <1>2, <1>3, <1>4, <2>4, <2>5, <2>6, <2>7, BuildMovesOn
<1>7. ASSUME build[b].todo = {},
             build' = [build EXCEPT ![b] = [@ EXCEPT !.pc = "remove", !.todo = build[b].formats]]
      PROVE  PackagesInv'
  <2> DEFINE r == [build[b] EXCEPT !.pc = "remove", !.todo = build[b].formats]
  <2>1. /\ r \in Parsed /\ r.pc = "remove" /\ r.staged = build[b].staged /\ r.formats = build[b].formats
        /\ r.sign = build[b].sign /\ r.bundle = build[b].bundle
    BY <1>2 DEF Parsed, BuildSteps
  <2>2. build' = [build EXCEPT ![b] = r]
    BY <1>1, <1>7 DEF PackageShapes
  <2> HIDE DEF r
  <2>3. {x.format : x \in r.staged} = r.formats
    BY <1>3, <1>7, <2>1 DEF StagedFormats
  <2>. QED
    BY <1>1, <1>2, <1>3, <1>4, <2>1, <2>2, <2>3, BuildMovesOn
<1>. QED
  BY <1>5, <1>6, <1>7 DEF Stage

\* The earlier artifacts go one after the other; the new ones stay staged.
LEMMA RemoveKeeps ==
    ASSUME PackagesInv, NEW b \in Builds, remove_existing(b)
    PROVE  PackagesInv'
<1>1. PackageShapes /\ UNCHANGED <<os, project>> /\ build[b].pc = "remove"
  BY DEF PackagesInv, remove_existing, BuildAt
<1>2. build[b] \in Parsed /\ InStep(b)
  BY <1>1, BuildIsParsed, ParsedIsInStep
<1>3. /\ build[b].bundle # None /\ StagedFormats(b) = build[b].formats
      /\ build[b].todo \in SUBSET Formats
  BY <1>1, <1>2 DEF InStep, Parsed
<1>4. out \in [Formats -> {None} \cup {[by |-> Earlier, format |-> g] : g \in Formats} \cup Artifacts]
  BY <1>1 DEF PackageShapes
<1> DEFINE f == Foremost(Destinations, build[b].todo)
<1>5. ASSUME build[b].todo # {}, out' = [out EXCEPT ![f] = None],
             build' = [build EXCEPT ![b] = [@ EXCEPT !.todo = build[b].todo \ {f}]]
      PROVE  PackagesInv'
  <2>1. f \in Formats
    BY <1>3, <1>5, NextInOrder
  <2> HIDE DEF f
  <2> DEFINE r == [build[b] EXCEPT !.todo = build[b].todo \ {f}]
  <2>2. /\ r \in Parsed /\ r.pc = "remove" /\ r.staged = build[b].staged /\ r.formats = build[b].formats
        /\ r.sign = build[b].sign /\ r.bundle = build[b].bundle
    BY <1>1, <1>2 DEF Parsed
  <2>3. build' = [build EXCEPT ![b] = r]
    BY <1>1, <1>5 DEF PackageShapes
  <2> HIDE DEF r
  <2>4. {x.format : x \in r.staged} = r.formats
    BY <1>3, <2>2 DEF StagedFormats
  <2>5. out' \in [Formats -> {None} \cup {[by |-> Earlier, format |-> g] : g \in Formats} \cup Artifacts]
    BY <1>4, <1>5
  <2>6. \A g \in Formats : out'[g] \in Artifacts => out'[g] = out[g]
    BY <1>4, <1>5, NoneIsNoArtifact
  <2>. QED
    BY <1>1, <1>2, <1>3, <2>2, <2>3, <2>4, <2>5, <2>6, BuildMovesOn
<1>6. ASSUME UNCHANGED out,
             build' = [build EXCEPT ![b] = [@ EXCEPT !.pc = "publish", !.todo = build[b].formats]]
      PROVE  PackagesInv'
  <2> DEFINE r == [build[b] EXCEPT !.pc = "publish", !.todo = build[b].formats]
  <2>1. /\ r \in Parsed /\ r.pc = "publish" /\ r.staged = build[b].staged /\ r.formats = build[b].formats
        /\ r.sign = build[b].sign /\ r.bundle = build[b].bundle /\ r.todo = r.formats
    BY <1>2 DEF Parsed, BuildSteps
  <2>2. build' = [build EXCEPT ![b] = r]
    BY <1>1, <1>6 DEF PackageShapes
  <2> HIDE DEF r
  <2>3. r.todo \subseteq {x.format : x \in r.staged}
    BY <1>3, <2>1 DEF StagedFormats
  <2>. QED
    BY <1>1, <1>2, <1>3, <1>4, <1>6, <2>1, <2>2, <2>3, BuildMovesOn
<1>. QED
  BY <1>5, <1>6 DEF remove_existing

\* fs::rename publishes the staged artifact of its format.
LEMMA RenameKeeps ==
    ASSUME PackagesInv, NEW b \in Builds, rename(b)
    PROVE  PackagesInv'
<1>1. PackageShapes /\ UNCHANGED <<os, project>> /\ build[b].pc = "publish" /\ build[b].todo # {}
  BY DEF PackagesInv, rename, BuildAt
<1>2. build[b] \in Parsed /\ InStep(b)
  BY <1>1, BuildIsParsed, ParsedIsInStep
<1>3. /\ build[b].bundle # None /\ build[b].todo \subseteq StagedFormats(b)
      /\ build[b].todo \in SUBSET Formats /\ build[b].staged \in SUBSET Artifacts
  BY <1>1, <1>2 DEF InStep, Parsed
<1>4. out \in [Formats -> {None} \cup {[by |-> Earlier, format |-> g] : g \in Formats} \cup Artifacts]
  BY <1>1 DEF PackageShapes
<1> DEFINE f == Foremost(Order, build[b].todo)
           a == CHOOSE x \in build[b].staged : x.format = f
<1>5. CASE Fails(b) /\ UNCHANGED out
  BY <1>1, <1>5, FailsKeeps
<1>6. ASSUME out' = [out EXCEPT ![f] = a],
             build' = [build EXCEPT ![b] = [@ EXCEPT !.todo = build[b].todo \ {f},
                                                         !.staged = {x \in build[b].staged : x.format # f}]]
      PROVE  PackagesInv'
  <2>1. f \in build[b].todo /\ f \in Formats
    BY <1>1, <1>3, NextInOrder
  <2> HIDE DEF f
  <2>2. a \in build[b].staged /\ a.format = f
    BY <1>3, <2>1 DEF StagedFormats
  <2> HIDE DEF a
  <2> DEFINE left_over == {x \in build[b].staged : x.format # f}
             r == [build[b] EXCEPT !.todo = build[b].todo \ {f}, !.staged = left_over]
  <2>3. build' = [build EXCEPT ![b] = r]
    BY <1>1, <1>6 DEF PackageShapes
  <2>4. left_over \in SUBSET Artifacts /\ left_over \subseteq build[b].staged
    BY <1>3
  <2>5. build[b].todo \ {f} \subseteq {x.format : x \in left_over}
    BY <1>3 DEF StagedFormats
  <2> HIDE DEF left_over
  <2>6. /\ r \in Parsed /\ r.pc = "publish" /\ r.staged = left_over /\ r.formats = build[b].formats
        /\ r.sign = build[b].sign /\ r.bundle = build[b].bundle /\ r.todo = build[b].todo \ {f}
    BY <1>1, <1>2, <2>4 DEF Parsed
  <2> HIDE DEF r
  <2>7. r.todo \subseteq {x.format : x \in r.staged}
    BY <2>5, <2>6
  <2>8. out' \in [Formats -> {None} \cup {[by |-> Earlier, format |-> g] : g \in Formats} \cup Artifacts]
    BY <1>3, <1>4, <1>6, <2>2
  <2>9. \A g \in Formats : out'[g] = out[g] \/ (out'[g] \in build[b].staged /\ out'[g].format = g)
    BY <1>4, <1>6, <2>1, <2>2
  <2>. QED
    BY <1>1, <1>2, <1>3, <2>3, <2>4, <2>6, <2>7, <2>8, <2>9, BuildMovesOn
<1>. QED
  BY <1>5, <1>6 DEF rename

\* At first nothing is built, and what is in the output directory is earlier.
LEMMA PackagerInitially == PackagerInit => PackagesInv
<1> SUFFICES ASSUME PackagerInit PROVE PackagesInv
  OBVIOUS
<1>1. PICK old \in {{}, {"portable"}, {"portable", "directory"}} :
        out = [f \in Formats |-> IF f \in old THEN [by |-> Earlier, format |-> f] ELSE None]
  BY DEF PackagerInit
<1>2. PackageShapes
  BY <1>1 DEF PackagerInit, PackageShapes, New
<1>3. BuildsInStep
  BY DEF PackagerInit, BuildsInStep, New
<1>4. \A f \in Formats : out[f] \notin Artifacts
  BY <1>1, NoneIsNoArtifact
<1>. QED
  BY <1>2, <1>3, <1>4 DEF PackagesInv, PublishedIsCreated

\* Every step keeps the invariant.
LEMMA PackagerInvKept == PackagesInv /\ [PackagerNext]_packager_vars => PackagesInv'
<1> SUFFICES ASSUME PackagesInv, [PackagerNext]_packager_vars PROVE PackagesInv'
  OBVIOUS
<1>1. CASE UNCHANGED packager_vars
  <2>1. UNCHANGED <<os, project, build, out>>
    BY <1>1 DEF packager_vars
  <2>2. \A b \in Builds : Bundle(b)' = Bundle(b) /\ \A f : Create(b, f)' = Create(b, f)
    BY <2>1, SameMade
  <2>3. CopyFails(project)' = CopyFails(project)
    BY <2>1, SameSources
  <2>4. \A b \in Builds : Built(b)' = Built(b) /\ StagedFormats(b)' = StagedFormats(b)
    BY <2>1, <2>2, <2>3 DEF Built, StagedFormats
  <2>5. \A b \in Builds : InStep(b)' = InStep(b)
    BY <2>1, <2>2, <2>4 DEF InStep
  <2>6. PackageShapes' /\ BuildsInStep'
    BY <2>1, <2>5 DEF PackagesInv, PackageShapes, BuildsInStep
  <2>7. PublishedIsCreated'
    BY <2>1, <2>2, <2>4 DEF PackagesInv, PublishedIsCreated
  <2>. QED
    BY <2>6, <2>7 DEF PackagesInv
<1>2. ASSUME NEW b \in Builds, Succeed(b) \/ StepFails(b) \/ Killed(b) PROVE PackagesInv'
  <2>1. build[b].pc # "new" /\ UNCHANGED <<os, project, out>>
    BY <1>2 DEF Succeed, StepFails, Killed, BuildAt, Running
  <2>2. Fails(b) \/ BuildGoes(b, "done") \/ BuildGoes(b, "killed")
    BY <1>2 DEF Succeed, StepFails, Killed
  <2>. QED
    BY <2>1, <2>2, FailsKeeps, EndsKeep
<1>. QED
  BY <1>1, <1>2, ParseKeeps, CheckKeeps, BundleKeeps, StageKeeps, RemoveKeeps, RenameKeeps DEF PackagerNext

\* The invariant holds of every state the builds reach.
LEMMA PackagerInvAlways == PackagerSpec => []PackagesInv
  BY PackagerInitially, PackagerInvKept, PTL DEF PackagerSpec

\* What a build made and published is what its create function makes of its
\* bundle, which is the one of the project.
LEMMA MadeIsCreated ==
    ASSUME PackagesInv, NEW f \in Formats, Made(f)
    PROVE  \E m \in Builds : /\ out[f].by = m /\ Built(m) /\ out[f] = Create(m, f)
                             /\ out[f] \in Artifacts /\ build[m].bundle \in Bundles
<1>1. out[f] \in {None} \cup {[by |-> Earlier, format |-> g] : g \in Formats} \cup Artifacts
  BY DEF PackagesInv, PackageShapes
<1>2. out[f] \in Artifacts
  BY <1>1 DEF Made
<1>3. out[f].by \in Builds
  BY <1>2 DEF Artifacts
<1>4. Built(out[f].by) /\ out[f] = Create(out[f].by, f)
  BY <1>2, <1>3 DEF PackagesInv, PublishedIsCreated
<1>5. build[out[f].by].bundle \in Bundles
  BY <1>3, <1>4, BundleType DEF Built, PackagesInv
<1>. QED
  BY <1>2, <1>3, <1>4, <1>5

\* The bundle's files, and which of them are signed.
LEMMA BundleHolds ==
    ASSUME NEW m \in Builds, build[m] \in Parsed, build[m].bundle = Bundle(m)
    PROVE  /\ build[m].bundle.by = m
           /\ build[m].bundle.files = Materialized \cup {"manifest.json"}
           /\ build[m].bundle.signed = Signed(build[m].sign)
           /\ build[m].bundle.listed = write_bundle_manifest(Materialized, m, Signed(build[m].sign))
  BY DEF Bundle

\* The updater accepts what the packager wrote.
LEMMA BundleVerifies ==
    ASSUME project \in Projects, "manifest" \notin project, NEW m \in Builds,
           build[m] \in Parsed, build[m].bundle = Bundle(m)
    PROVE  verify_bundle(build[m].bundle)
<1>1. "manifest" \notin App
  BY DEF App, sanitize_composer_metadata, copy_directory
<1>2. "manifest" \notin Materialized
  BY <1>1 DEF Materialized, Binaries, write_launcher, copy_runtime_libraries, write_php_ini, bundle_icon_path,
     desktop_entry, write_portable_installer, write_portable_uninstaller
<1>3. "manifest.json" \notin Materialized
  BY FilesAreNames
<1>4. updater_bundle_files(Materialized \cup {"manifest.json"}) = packager_bundle_files(Materialized)
  BY <1>2, <1>3 DEF updater_bundle_files, packager_bundle_files
<1>. QED
  BY <1>4, BundleHolds DEF verify_bundle, write_bundle_manifest

\* What the updater installs is what the packager listed: a portable archive or
\* a directory that a build published passes the updater's verify_bundle, when
\* the application has no manifest.json of its own, for any builds, projects,
\* requests and failures.
THEOREM PublishedIsVerified == PackagerSpec => []PublishedVerifies
<1>1. PackagesInv => PublishedVerifies
  <2> SUFFICES ASSUME PackagesInv, NEW f \in {"portable", "directory"}, Made(f), "manifest" \notin project
               PROVE  verify_bundle(Unpacked(out[f]))
    BY DEF PublishedVerifies
  <2>1. f \in Formats /\ project \in Projects
    BY DEF Formats, PackagesInv, PackageShapes
  <2>2. PICK m \in Builds : /\ out[f].by = m /\ Built(m) /\ out[f] = Create(m, f)
                            /\ out[f] \in Artifacts /\ build[m].bundle \in Bundles
    BY <2>1, MadeIsCreated
  <2>3. /\ Create(m, f).bundle = build[m].bundle
        /\ All(m) \subseteq Create(m, f).files
    <3>1. CASE f = "portable"
      BY <3>1 DEF Create, create_portable_archive, create_macos_application, Artifact
    <3>2. CASE f = "directory"
      BY <3>2 DEF Create, Artifact
    <3>. QED
      BY <3>1, <3>2
  <2>4. out[f].files \cap out[f].bundle.files = out[f].bundle.files
    BY <2>2, <2>3 DEF All
  <2>5. Unpacked(out[f]) = build[m].bundle
    BY <2>2, <2>3, <2>4 DEF Unpacked, Bundles
  <2>. QED
    BY <2>1, <2>2, <2>5, BundleVerifies DEF Built
<1>. QED
  BY <1>1, PackagerInvAlways, PTL

\* What the bundle of a project holds, and what it does not.
LEMMA BundleIsWhole ==
    ASSUME project \in Projects, ~CopyFails(project)
    PROVE  /\ {"code", "plugin"} \subseteq App
           /\ Binaries \cup {"php.ini"} \subseteq Materialized /\ App \subseteq Materialized
           /\ \A e \in {"secret", "output", "path_repository", "stray_link", "output_link"} :
                e \notin App /\ e \notin Materialized /\ e \notin Binaries
<1>1. "code" \in project
  BY PackagerAssumption DEF PackagerAssumption
<1>2. "plugin" \in project /\ "stray_link" \notin project /\ "output_link" \notin project
  BY DEF CopyFails, copy_project_symlink, copy_directory
<1>3. {"code", "plugin"} \subseteq App
  BY <1>1, <1>2 DEF App, sanitize_composer_metadata, copy_directory, excluded_path
<1>4. \A e \in {"secret", "output", "path_repository", "stray_link", "output_link"} : e \notin App
  BY <1>2 DEF App, sanitize_composer_metadata, copy_directory, excluded_path
<1>5. \A e \in {"secret", "output", "path_repository", "stray_link", "output_link"} : e \notin Binaries
  BY DEF Binaries, write_launcher, copy_runtime_libraries
<1>6. \A e \in {"secret", "output", "path_repository", "stray_link", "output_link"} : e \notin Materialized
  BY <1>4, <1>5 DEF Materialized, write_php_ini, bundle_icon_path, desktop_entry, write_portable_installer,
     write_portable_uninstaller
<1>7. Binaries \cup {"php.ini"} \subseteq Materialized /\ App \subseteq Materialized
  BY DEF Materialized, write_php_ini
<1>. QED
  BY <1>3, <1>4, <1>5, <1>6, <1>7

\* Each create function keeps all the bundle's files, or what the package needs
\* of them, adds only its own, and signs what its format can have signed.
LEMMA CreatedIsWhole ==
    ASSUME project \in Projects, ~CopyFails(project), NEW m \in Builds, build[m] \in Parsed,
           build[m].bundle = Bundle(m), NEW f \in Formats
    PROVE  /\ Create(m, f).bundle = build[m].bundle
           /\ App \cup Binaries \cup {"php.ini"} \subseteq Create(m, f).files
           /\ Create(m, f).files \subseteq Materialized \cup {"manifest.json", "desktop", "icon", "link", "control",
                  "spec", "AppRun", "Info.plist", "start", "assets", "AppxManifest.xml"}
           /\ f \in {"native", "pkg", "msi"} => Create(m, f).sealed = build[m].sign
<1>1. All(m) = Materialized \cup {"manifest.json"}
  BY BundleHolds DEF All
<1>2. App \cup Binaries \cup {"php.ini"} \subseteq Materialized
  BY BundleIsWhole
<1> USE DEF Create, Artifact
<1>3. CASE f = "portable"
  BY <1>1, <1>2, <1>3 DEF create_portable_archive, create_macos_application, macos_info_plist
<1>4. CASE f = "deb"
  BY <1>2, <1>4 DEF create_debian_package
<1>5. CASE f = "native"
  BY <1>1, <1>2, <1>5 DEF create_native_package, create_macos_package, create_windows_package,
     create_macos_application, macos_info_plist, create_windows_assets, windows_appx_manifest
<1>6. CASE f = "appimage"
  BY <1>1, <1>2, <1>6 DEF create_appimage_package
<1>7. CASE f = "rpm"
  BY <1>1, <1>2, <1>7 DEF create_rpm_package
<1>8. CASE f = "pkg"
  BY <1>1, <1>2, <1>8 DEF create_pkg_package, create_macos_application, macos_info_plist
<1>9. CASE f = "msi"
  BY <1>1, <1>2, <1>9 DEF create_msi_package
<1>10. CASE f = "directory"
  BY <1>1, <1>2, <1>10
<1>. QED
  BY <1>3, <1>4, <1>5, <1>6, <1>7, <1>8, <1>9, <1>10 DEF Formats

\* Every package a build published holds the binaries, the code and the plugins
\* of the application, none of what is left out of a bundle, and was signed when
\* signing was asked for, for any builds, projects, requests and failures.
THEOREM PublishedAreWhole == PackagerSpec => []PackagesAreWhole
<1>1. PackagesInv => PackagesAreWhole
  <2> SUFFICES ASSUME PackagesInv, NEW f \in Formats, Made(f)
               PROVE  /\ Binaries \cup {"php.ini", "code", "plugin"} \subseteq out[f].files
                      /\ out[f].files \cap {"secret", "output", "path_repository", "stray_link", "output_link"} = {}
                      /\ build[out[f].by].sign =>
                          out[f].bundle.signed = Binaries /\ (f \in {"native", "pkg", "msi"} => out[f].sealed)
    BY DEF PackagesAreWhole
  <2>1. project \in Projects
    BY DEF PackagesInv, PackageShapes
  <2>2. PICK m \in Builds : /\ out[f].by = m /\ Built(m) /\ out[f] = Create(m, f)
                            /\ out[f] \in Artifacts /\ build[m].bundle \in Bundles
    BY MadeIsCreated
  <2>3. /\ build[m] \in Parsed /\ build[m].bundle = Bundle(m) /\ ~CopyFails(project)
        /\ (build[m].sign => os # "linux")
    BY <2>2 DEF Built
  <2>4. /\ out[f].bundle = build[m].bundle
        /\ App \cup Binaries \cup {"php.ini"} \subseteq out[f].files
        /\ out[f].files \subseteq Materialized \cup {"manifest.json", "desktop", "icon", "link", "control",
                "spec", "AppRun", "Info.plist", "start", "assets", "AppxManifest.xml"}
        /\ f \in {"native", "pkg", "msi"} => out[f].sealed = build[m].sign
    BY <2>1, <2>2, <2>3, CreatedIsWhole
  <2>5. Binaries \cup {"php.ini", "code", "plugin"} \subseteq out[f].files
    BY <2>1, <2>3, <2>4, BundleIsWhole
  <2>6. \A e \in {"secret", "output", "path_repository", "stray_link", "output_link"} : e \notin out[f].files
    BY <2>1, <2>3, <2>4, BundleIsWhole
  <2>7. build[m].sign => out[f].bundle.signed = Binaries
    BY <2>3, <2>4, BundleHolds DEF Signed
  <2>. QED
    BY <2>2, <2>4, <2>5, <2>6, <2>7
<1>. QED
  BY <1>1, PackagerInvAlways, PTL

\* An artifact of an earlier build goes only when all those of the build that
\* removes it are staged, and only when it was forced to: ensure_available
\* removes nothing, and no failure on the way to remove_existing does.
THEOREM RemovalWaits == PackagerSpec => RemovedOnlyWhenReady
<1> DEFINE Waits == \A f \in Formats : out[f] # None /\ out'[f] = None =>
          \E b \in Builds : build[b] # build'[b] /\ build[b].force
                            /\ {a.format : a \in build[b].staged} = build[b].formats
<1>1. PackagesInv /\ [PackagerNext]_packager_vars => [Waits]_packager_vars
  <2> SUFFICES ASSUME PackagesInv, PackagerNext, NEW f \in Formats, out[f] # None, out'[f] = None
               PROVE  \E b \in Builds : build[b] # build'[b] /\ build[b].force
                            /\ {a.format : a \in build[b].staged} = build[b].formats
    OBVIOUS
  <2>1. PackageShapes
    BY DEF PackagesInv
  <2>2. PICK b \in Builds : remove_existing(b) \/ rename(b)
    BY DEF PackagerNext, parse, ensure_available, materialize_bundle, Stage, Succeed, StepFails, Killed
  <2>3. build[b] \in Parsed /\ InStep(b)
    BY <2>1, <2>2, BuildIsParsed, ParsedIsInStep DEF remove_existing, rename, BuildAt
  <2>4. CASE remove_existing(b)
    <3> DEFINE g == Foremost(Destinations, build[b].todo)
    <3>1. /\ build[b].pc = "remove" /\ build[b].force /\ build[b].todo # {}
          /\ build' = [build EXCEPT ![b] = [@ EXCEPT !.todo = build[b].todo \ {g}]]
      BY <2>4 DEF remove_existing, BuildAt
    <3>2. g \in build[b].todo
      BY <2>3, <3>1, NextInOrder DEF Parsed
    <3> HIDE DEF g
    <3>3. build'[b].todo = build[b].todo \ {g}
      BY <2>1, <2>3, <3>1 DEF PackageShapes, Parsed
    <3>4. build[b] # build'[b]
      BY <3>2, <3>3
    <3>5. {a.format : a \in build[b].staged} = build[b].formats
      BY <2>3, <3>1 DEF InStep, StagedFormats
    <3>. QED
      BY <3>1, <3>4, <3>5
  <2>5. CASE rename(b)
    <3> DEFINE g == Foremost(Order, build[b].todo)
               a == CHOOSE x \in build[b].staged : x.format = g
    <3>1. build[b].pc = "publish" /\ build[b].todo # {} /\ (UNCHANGED out \/ out' = [out EXCEPT ![g] = a])
      BY <2>5 DEF rename, BuildAt
    <3>2. g \in build[b].todo
      BY <2>3, <3>1, NextInOrder DEF Parsed
    <3> HIDE DEF g
    <3>3. a \in Artifacts
      <4>1. build[b].todo \subseteq StagedFormats(b) /\ build[b].staged \subseteq Artifacts
        BY <2>3, <3>1 DEF InStep, Parsed
      <4>. QED
        BY <3>2, <4>1 DEF StagedFormats
    <3> HIDE DEF a
    <3>4. out'[f] = a \/ out'[f] = out[f]
      BY <2>1, <3>1 DEF PackageShapes
    <3>. QED
      BY <3>3, <3>4, NoneIsNoArtifact
  <2>. QED
    BY <2>2, <2>4, <2>5
<1>. QED
  BY <1>1, PackagerInvAlways, PTL DEF PackagerSpec, RemovedOnlyWhenReady
=============================================================================
