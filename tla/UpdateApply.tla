----------------------------- MODULE UpdateApply -----------------------------
(***************************************************************************)
(* The detached helper that replaces the installed bundle (updater.rs,      *)
(* `apply` and `reconcile_interrupted_update`), which may be killed between  *)
(* any two of its file-system steps, may see any of them fail, and may be   *)
(* run again for the same or for another staged archive.                    *)
(*                                                                         *)
(* A directory holds NoBundle, or a version that verify_replacement accepts *)
(* (ok) or refuses (a tree that was being removed, or damaged on disk).     *)
(* Archives are named by the version they carry; their digest and contents  *)
(* are verified before use and stay as they are.  The extraction directory  *)
(* is reset by every run and never read by another, so it is left out.      *)
(***************************************************************************)
EXTENDS Integers

CONSTANTS Archives,   \* staged archives, named by their version
          Installed,  \* the version installed at first
          Kept,       \* the version in .previous at first, or Installed: none
          MaxCrashes, \* bound: times the helper is killed
          MaxFaults   \* bound: file-system steps that fail

Versions == Archives \cup {Installed, Kept}

ASSUME UpdateAssumption == /\ Installed \in Nat \ {0}
                           /\ Kept \in Nat \ {0}
                           /\ Archives \subseteq Nat \ {0}
                           /\ Installed \notin Archives
                           /\ Kept \notin Archives
                           /\ MaxCrashes \in Nat /\ MaxFaults \in Nat

VARIABLES bundle,      \* the installed directory
          backup,      \* its sibling .previous
          failed,      \* its sibling .failed
          transaction, \* .update-transaction.json: the archive, or 0 for none
          staged,      \* archives still in their stage
          pc,          \* where the helper is; "idle" when none is running
          arch,        \* the archive it was started for, 0 when idle
          crashes, faults

dirs == <<bundle, backup, failed>>
vars == <<bundle, backup, failed, transaction, staged, pc, arch, crashes, faults>>

NoBundle == [v |-> 0, ok |-> FALSE]
Good(v) == [v |-> v, ok |-> TRUE]
Bad(d) == [d EXCEPT !.ok = FALSE]
Exists(d) == d.v # 0

Steps == {"idle", "reconcile", "finish", "checkbackup", "clearfailed",
          "quarantine", "restore", "reset", "extract", "dropbackup", "dropfailed", "begin",
          "swapout",
          "swapin", "verify", "setaside", "undo", "forget", "commit", "cleanup"}

Init == /\ bundle = Good(Installed)
        /\ backup = IF Kept = Installed THEN NoBundle ELSE Good(Kept)
        /\ failed = NoBundle
        /\ transaction = 0
        /\ staged = Archives
        /\ pc = "idle" /\ arch = 0
        /\ crashes = 0 /\ faults = 0

-----------------------------------------------------------------------------
Goto(p) == pc' = p /\ UNCHANGED arch
Return == pc' = "idle" /\ arch' = 0
At(p) == pc = p

\* A file-system step that reports an error; `apply` returns it.
Faulty == faults < MaxFaults /\ faults' = faults + 1
ReturnError == /\ Faulty
               /\ Return
               /\ UNCHANGED <<dirs, transaction, staged, crashes>>

\* verify_replacement refuses what is damaged, and may fail to read what is not.
Accepted(d) == d.ok /\ UNCHANGED faults
Refused(d) == (~d.ok /\ UNCHANGED faults) \/ (d.ok /\ Faulty)

\* The host (or whoever repeats the operation) starts the helper; it resolves
\* its paths, verifies the archive's digest and waits for the parent to end.
Launch(a) ==
    /\ At("idle")
    /\ a \in staged
    /\ arch' = a
    /\ pc' = "reconcile"
    /\ UNCHANGED <<dirs, transaction, staged, crashes, faults>>

-----------------------------------------------------------------------------
(* reconcile_interrupted_update                                            *)

\* read_update_transaction refuses a journal bound to another archive; without
\* a journal the bundle must be there.
RefuseToStart ==
    /\ At("reconcile")
    /\ \/ transaction \notin {0, arch}
       \/ transaction = 0 /\ ~Exists(bundle)
       \/ transaction = arch /\ ~Exists(bundle) /\ ~Exists(backup)
    /\ Return
    /\ UNCHANGED <<dirs, transaction, staged, crashes, faults>>

\* Mutant: only a journal for the same archive is respected.
StartOver ==
    /\ At("reconcile")
    /\ transaction # arch
    /\ Exists(bundle)
    /\ Goto("extract")
    /\ UNCHANGED <<dirs, transaction, staged, crashes, faults>>

StartFresh ==
    /\ At("reconcile")
    /\ transaction = 0
    /\ Exists(bundle)
    /\ Goto("extract")
    /\ UNCHANGED <<dirs, transaction, staged, crashes, faults>>

\* (true, true), bundle verified: the swap had completed.
AlreadyInstalled ==
    /\ At("reconcile")
    /\ transaction = arch
    /\ Exists(bundle) /\ Exists(backup)
    /\ Accepted(bundle)
    /\ Goto("finish")
    /\ UNCHANGED <<dirs, transaction, staged, crashes>>

\* (true, true), bundle refused: the backup must verify before anything moves.
QuarantineInterrupted ==
    /\ At("reconcile")
    /\ transaction = arch
    /\ Exists(bundle) /\ Exists(backup)
    /\ Refused(bundle)
    /\ Goto("checkbackup")
    /\ UNCHANGED <<dirs, transaction, staged, crashes>>

CheckBackup ==
    /\ At("checkbackup")
    /\ \/ Accepted(backup) /\ Goto("clearfailed")
       \/ Refused(backup) /\ Return
    /\ UNCHANGED <<dirs, transaction, staged, crashes>>

\* Mutant: a missing bundle is taken for a missing installation.
RefuseMissing ==
    /\ At("reconcile")
    /\ transaction = arch
    /\ ~Exists(bundle) /\ Exists(backup)
    /\ Return
    /\ UNCHANGED <<dirs, transaction, staged, crashes, faults>>

\* (false, true): killed between the two renames.
RestoreMissing ==
    /\ At("reconcile")
    /\ transaction = arch
    /\ ~Exists(bundle) /\ Exists(backup)
    /\ \/ Accepted(backup) /\ Goto("restore")
       \/ Refused(backup) /\ Return
    /\ UNCHANGED <<dirs, transaction, staged, crashes>>

\* (true, false): the journal was written, nothing was moved.
ResumeUnstarted ==
    /\ At("reconcile")
    /\ transaction = arch
    /\ Exists(bundle) /\ ~Exists(backup)
    /\ \/ Accepted(bundle) /\ Goto("reset")
       \/ Refused(bundle) /\ Return
    /\ UNCHANGED <<dirs, transaction, staged, crashes>>

FinishRecovered ==
    /\ At("finish")
    /\ transaction' = 0
    /\ Goto("cleanup")
    /\ UNCHANGED <<dirs, staged, crashes, faults>>

ClearFailed ==
    /\ At("clearfailed")
    /\ failed' = NoBundle
    /\ Goto("quarantine")
    /\ UNCHANGED <<bundle, backup, transaction, staged, crashes, faults>>

Quarantine ==
    /\ At("quarantine")
    /\ failed' = bundle
    /\ bundle' = NoBundle
    /\ Goto("restore")
    /\ UNCHANGED <<backup, transaction, staged, crashes, faults>>

Restore ==
    /\ At("restore")
    /\ bundle' = backup
    /\ backup' = NoBundle
    /\ Goto("reset")
    /\ UNCHANGED <<failed, transaction, staged, crashes, faults>>

Reset ==
    /\ At("reset")
    /\ transaction' = 0
    /\ Goto("extract")
    /\ UNCHANGED <<dirs, staged, crashes, faults>>

-----------------------------------------------------------------------------
(* apply                                                                   *)

\* Extraction, single_extracted_root and verify_replacement(&replacement).
Extract ==
    /\ At("extract")
    /\ Goto("dropbackup")
    /\ UNCHANGED <<dirs, transaction, staged, crashes, faults>>

DropBackup ==
    /\ At("dropbackup")
    /\ backup' = NoBundle
    /\ Goto("dropfailed")
    /\ UNCHANGED <<bundle, failed, transaction, staged, crashes, faults>>

DropFailed ==
    /\ At("dropfailed")
    /\ failed' = NoBundle
    /\ Goto("begin")
    /\ UNCHANGED <<bundle, backup, transaction, staged, crashes, faults>>

\* Mutant: the bundle is moved without a journal.
SkipTransaction ==
    /\ At("begin")
    /\ Goto("swapout")
    /\ UNCHANGED <<dirs, transaction, staged, crashes, faults>>

\* Mutant: the journal names the version it replaces.
WriteReplaced ==
    /\ At("begin")
    /\ transaction' = bundle.v
    /\ Goto("swapout")
    /\ UNCHANGED <<dirs, staged, crashes, faults>>

\* write_update_transaction: a temporary file, fsync, rename.
WriteTransaction ==
    /\ At("begin")
    /\ transaction' = arch
    /\ Goto("swapout")
    /\ UNCHANGED <<dirs, staged, crashes, faults>>

\* Mutant: the installed bundle is removed instead of renamed.
RemoveBundle ==
    /\ At("swapout")
    /\ bundle' = NoBundle
    /\ Goto("swapin")
    /\ UNCHANGED <<backup, failed, transaction, staged, crashes, faults>>

SwapOut ==
    /\ At("swapout")
    /\ backup' = bundle
    /\ bundle' = NoBundle
    /\ Goto("swapin")
    /\ UNCHANGED <<failed, transaction, staged, crashes, faults>>

\* The rename works, or leaves a damaged tree, or fails and is undone.
SwapIn ==
    /\ At("swapin")
    /\ \/ /\ bundle' = Good(arch)
          /\ Goto("verify")
          /\ UNCHANGED faults
       \/ /\ bundle' = Bad(Good(arch))
          /\ Goto("verify")
          /\ Faulty
       \/ /\ Goto("undo")
          /\ Faulty
          /\ UNCHANGED bundle
    /\ UNCHANGED <<backup, failed, transaction, staged, crashes>>

\* Mutant: what was installed is not verified.
VerifyNothing ==
    /\ At("verify")
    /\ Goto("commit")
    /\ UNCHANGED <<dirs, transaction, staged, crashes, faults>>

VerifyInstalled ==
    /\ At("verify")
    /\ \/ Accepted(bundle) /\ Goto("commit")
       \/ Refused(bundle) /\ Goto("setaside")
    /\ UNCHANGED <<dirs, transaction, staged, crashes>>

\* let _ = fs::rename(&bundle, &failed): an error is ignored.
SetAside ==
    /\ At("setaside")
    /\ \/ /\ failed' = bundle
          /\ bundle' = NoBundle
          /\ UNCHANGED faults
       \/ /\ Faulty
          /\ UNCHANGED <<bundle, failed>>
    /\ Goto("undo")
    /\ UNCHANGED <<backup, transaction, staged, crashes>>

\* The rollback rename; it cannot replace a bundle that is still in place.
Undo ==
    /\ At("undo")
    /\ \/ /\ ~Exists(bundle)
          /\ bundle' = backup
          /\ backup' = NoBundle
          /\ Goto("forget")
       \/ /\ Exists(bundle)
          /\ Return
          /\ UNCHANGED <<bundle, backup>>
    /\ UNCHANGED <<failed, transaction, staged, crashes, faults>>

\* let _ = fs::remove_file(&transaction), then the error of the installation.
Forget ==
    /\ At("forget")
    /\ \/ transaction' = 0 /\ UNCHANGED faults
       \/ Faulty /\ UNCHANGED transaction
    /\ Return
    /\ UNCHANGED <<dirs, staged, crashes>>

Commit ==
    /\ At("commit")
    /\ transaction' = 0
    /\ Goto("cleanup")
    /\ UNCHANGED <<dirs, staged, crashes, faults>>

\* cleanup_update_stage and relaunch.
Cleanup ==
    /\ At("cleanup")
    /\ staged' = staged \ {arch}
    /\ Return
    /\ UNCHANGED <<dirs, transaction, crashes, faults>>

\* The steps whose error `apply` returns as it stands.
ReturnsErrors == {"finish", "clearfailed", "quarantine", "restore", "reset", "extract",
                  "dropbackup", "dropfailed", "begin", "swapout", "undo", "commit",
                  "cleanup"}
Fault == pc \in ReturnsErrors /\ ReturnError

\* The helper is killed.  A tree it was removing is left in part.
Crash ==
    /\ ~At("idle")
    /\ crashes < MaxCrashes
    /\ crashes' = crashes + 1
    /\ Return
    /\ backup' = IF At("dropbackup") /\ Exists(backup) THEN Bad(backup) ELSE backup
    /\ failed' = IF pc \in {"dropfailed", "clearfailed"} /\ Exists(failed)
                 THEN Bad(failed) ELSE failed
    /\ UNCHANGED <<bundle, transaction, staged, faults>>

-----------------------------------------------------------------------------
Reconcile == \/ RefuseToStart \/ StartFresh \/ AlreadyInstalled
             \/ QuarantineInterrupted \/ RestoreMissing \/ ResumeUnstarted
             \/ FinishRecovered \/ CheckBackup \/ ClearFailed \/ Quarantine \/ Restore \/ Reset

Apply == \/ Extract \/ DropBackup \/ DropFailed \/ WriteTransaction
         \/ SwapOut \/ SwapIn \/ VerifyInstalled \/ SetAside \/ Undo \/ Forget
         \/ Commit \/ Cleanup

Next == (\E a \in Archives : Launch(a)) \/ Reconcile \/ Apply \/ Fault \/ Crash

\* A running helper goes on.  That an operation that did not finish is repeated
\* is what docs/updates.md:127 asks of its user, not something the code does.
Fairness == /\ WF_vars(Reconcile \/ Apply)
            /\ \A a \in Archives : SF_vars(Launch(a))

Spec == Init /\ [][Next]_vars /\ Fairness

-----------------------------------------------------------------------------
Dirs == [v : Versions \cup {0}, ok : BOOLEAN]

TypeOK == /\ bundle \in Dirs /\ backup \in Dirs /\ failed \in Dirs
          /\ transaction \in Archives \cup {0}
          /\ staged \subseteq Archives
          /\ pc \in Steps
          /\ arch \in Archives \cup {0}
          /\ crashes \in 0..MaxCrashes
          /\ faults \in 0..MaxFaults

\* Whatever is killed or fails, and whatever is run after it, a complete version
\* of the application is in place or in .previous.
Recoverable == bundle.ok \/ backup.ok

\* When no helper runs and no journal is left, the application is complete in
\* its own place: nothing has to be repaired before it can be started.
NoJournalMeansRunnable == pc = "idle" /\ transaction = 0 => bundle.ok

\* "A journal bound to another archive fails closed without deleting anything":
\* a helper moves and removes nothing while the journal names another archive.
ForeignJournalIsLeftAlone ==
    [][transaction # 0 /\ arch # transaction
          => UNCHANGED <<dirs, transaction, staged>>]_vars

\* Every staged update is installed in the end when its operation is repeated
\* until it finishes; no state the helper can be killed in blocks it for ever.
EveryUpdateCompletes == \A a \in Archives : <>[](a \notin staged /\ transaction # a)

\* The refinement mapping: the version one ends up with, and the one beside it.
Current == IF bundle.ok THEN bundle.v ELSE backup.v
Fallback == IF backup.ok THEN backup.v ELSE Current

Contract == INSTANCE UpdateContract WITH current <- Current, fallback <- Fallback

\* The helper's renames, crashes and recoveries implement the contract.
ImplementsContract == Contract!Spec
=============================================================================
