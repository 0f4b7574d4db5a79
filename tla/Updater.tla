------------------------------- MODULE Updater -------------------------------
(***************************************************************************)
(* The host's side of updates: Updater (check, download, install and the    *)
(* state they claim with `begin`), the directories downloads are staged in, *)
(* the endpoints and the policy thread that call it, a hot reload, which    *)
(* puts a second Updater in place of one still at work, and the publisher   *)
(* of the feed.                                                             *)
(*                                                                         *)
(* A release is its position in Releases; position 1 is what is installed.  *)
(* A digest is modelled by the release whose archive has it.  What the      *)
(* helper does with a verified archive is UpdateApply's subject.            *)
(***************************************************************************)
EXTENDS Integers, Sequences

CONSTANTS Releases,    \* the versions, the installed one first, then as published
          Precedence,  \* the same versions in the order SemVer gives them
          MaxCalls,    \* bound: endpoint calls and policy threads
          MaxReloads,  \* bound: hot reloads
          MaxTampered  \* bound: answers of the servers that were tampered with

Calls == 1..MaxCalls
Updaters == 0..MaxReloads
Ids == DOMAIN Releases
Stages == Calls             \* update_stage: a fresh name, one per download

VARIABLES policy,     \* UpdateConfig.policy
          feed,       \* the newest release published
          updater,    \* GatewayState.updater: the one in place
          state,      \* Updater -> snapshot.state
          candidate,  \* Updater -> InternalState.candidate, 0 for None
          archive,    \* Updater -> the stage of InternalState.archive, 0 for None
          stages,     \* .pam-update-*: the stages on disk, last modified first
          content,    \* stage -> the release its archive holds complete, or 0
          helpers,    \* helpers spawned: [stage, sha256, by]
          installed,  \* the release in place
          exiting,    \* HostEvent::Exit was sent
          step, op, on, cand, dir, \* calls: step, operation, Updater, local copies
          tampered, sent, crossed

updater_vars == <<policy, feed, updater, state, candidate, archive, stages, content, helpers,
                  installed, exiting, step, op, on, cand, dir, tampered, sent, crossed>>

Operations == {"check", "download", "install", "policy"}
CallSteps == {"new", "begin", "checking", "read", "claim", "stage", "fetch", "receive",
              "readarchive", "claimapply", "launch", "sleep", "done"}
States == {"idle", "checking", "available", "downloading", "ready", "applying",
           "uptodate", "failed"}

-----------------------------------------------------------------------------
\* Versions are [core, pre]; an identifier of pre is a number, or a name, which
\* is written as a number too but in [name].
Sign(a, b) == IF a < b THEN -1 ELSE IF a > b THEN 1 ELSE 0

Longer(s, t) == IF Len(s) > Len(t) THEN Len(s) ELSE Len(t)

\* The order at the first index where the parts differ.
FirstDifference(order) ==
    LET differ == {i \in DOMAIN order : order[i] # 0}
    IN IF differ = {} THEN 0
       ELSE order[CHOOSE i \in differ : \A j \in differ : i <= j]

Part(core, i) == IF i <= Len(core) THEN core[i] ELSE 0

compare_core(l, r) ==
    FirstDifference([i \in 1..Longer(l, r) |-> Sign(Part(l, i), Part(r, i))])

CompareIdentifiers(a, b) == IF a.name # b.name THEN IF b.name THEN -1 ELSE 1
                            ELSE Sign(a.is, b.is)

compare_prerelease(l, r) ==
    FirstDifference([i \in 1..Longer(l, r) |-> IF i > Len(r) THEN 1
                                               ELSE IF i > Len(l) THEN -1
                                               ELSE CompareIdentifiers(l[i], r[i])])

compare_previews_last(l, r) ==
    IF compare_core(l.core, r.core) # 0 THEN compare_core(l.core, r.core)
    ELSE compare_prerelease(l.pre, r.pre)

compare_versions(l, r) ==
    IF compare_core(l.core, r.core) # 0 THEN compare_core(l.core, r.core)
    ELSE IF l.pre = <<>> /\ r.pre # <<>> THEN 1
    ELSE IF l.pre # <<>> /\ r.pre = <<>> THEN -1
    ELSE compare_prerelease(l.pre, r.pre)

version_is_newer(v) == compare_versions(Releases[v], Releases[1]) = 1

\* The precedence of SemVer 2.0.0, section 11, which compare_versions computes:
\* the core decides, then a pre-release comes before its release, then the first
\* identifier that differs, or the shorter list.
SemVersions == [core : Seq(Nat), pre : Seq([name : BOOLEAN, is : Nat])]

SameCore(l, r, n) == \A i \in 1..n : Part(l, i) = Part(r, i)

CoreBefore(l, r) ==
    \E i \in 1..Longer(l, r) : SameCore(l, r, i - 1) /\ Part(l, i) < Part(r, i)

IdentifierBefore(a, b) == \/ ~a.name /\ b.name
                          \/ a.name = b.name /\ a.is < b.is

PreReleaseBefore(l, r) ==
    \E i \in 1..Len(r) :
        /\ \A j \in 1..(i - 1) : j <= Len(l) /\ l[j] = r[j]
        /\ i > Len(l) \/ IdentifierBefore(l[i], r[i])

Precedes(l, r) ==
    \/ CoreBefore(l.core, r.core)
    \/ /\ SameCore(l.core, r.core, Longer(l.core, r.core))
       /\ \/ l.pre # <<>> /\ r.pre = <<>>
          \/ l.pre # <<>> /\ r.pre # <<>> /\ PreReleaseBefore(l.pre, r.pre)

\* Precedence lists the releases in this order.
ASSUME UpdaterAssumption ==
    /\ Releases \in Seq(SemVersions) /\ Releases # <<>>
    /\ MaxCalls \in Nat /\ MaxReloads \in Nat /\ MaxTampered \in Nat
    /\ Precedence \in Seq(SemVersions)
    /\ \A v \in Ids : \E i \in DOMAIN Precedence : Precedence[i] = Releases[v]
    /\ \A i, j \in DOMAIN Precedence : i < j => Precedes(Precedence[i], Precedence[j])

-----------------------------------------------------------------------------
UpdaterInit == /\ policy \in {"manual", "check", "automatic"}
               /\ feed = 1 /\ updater = 0
               /\ state = [u \in Updaters |-> "idle"]
               /\ candidate = [u \in Updaters |-> 0]
               /\ archive = [u \in Updaters |-> 0]
               /\ stages = <<>> /\ content = [s \in Stages |-> 0]
               /\ helpers = {} /\ installed = 1 /\ exiting = FALSE
               /\ step = [c \in Calls |-> "new"]
               /\ op = [c \in Calls |-> "check"]
               /\ on = [c \in Calls |-> 0]
               /\ cand = [c \in Calls |-> 0]
               /\ dir = [c \in Calls |-> 0]
               /\ tampered = 0 /\ sent = 0 /\ crossed = {}

disk == <<stages, content, helpers, installed>>
calls == <<op, on, cand, dir, sent>>
world == <<policy, feed, updater, exiting, crossed>>

CallAt(c, p) == step[c] = p /\ ~exiting
CallGoes(c, p) == step' = [step EXCEPT ![c] = p]
Set(c, s) == state' = [state EXCEPT ![on[c]] = s]

\* The publisher signs a feed for the next release and moves it into place.
publish_feed == /\ feed < Len(Releases)
                /\ feed' = feed + 1
                /\ UNCHANGED <<policy, updater, state, candidate, archive, disk, exiting, step,
                               calls, tampered, crossed>>

Start(c, o, u) == /\ c = sent + 1 /\ sent' = c
                  /\ op' = [op EXCEPT ![c] = o]
                  /\ on' = [on EXCEPT ![c] = u]

\* An endpoint takes the Updater in place.  `check` claims it at once; the other
\* operations look at its candidate or archive first.
Call(c, o) ==
    /\ o # "policy" /\ ~exiting
    /\ Start(c, o, updater)
    /\ CallGoes(c, CASE o = "check" -> "begin"
                     [] o = "download" -> "read"
                     [] o = "install" -> "readarchive")
    /\ UNCHANGED <<world, state, candidate, archive, disk, cand, dir, tampered>>

\* start_update_policy, once when the gateway has started and after each reload.
start_update_policy(c, u) ==
    IF policy = "manual" THEN UNCHANGED <<op, on, sent, step>>
    ELSE Start(c, "policy", u) /\ CallGoes(c, "begin")

Startup(c) ==
    /\ sent = 0 /\ policy # "manual"
    /\ start_update_policy(c, updater)
    /\ UNCHANGED <<world, state, candidate, archive, disk, cand, dir, tampered>>

\* finish_runtime_reload: Updater::prepare, whatever the one in place is doing.
Reload(c) ==
    /\ ~exiting /\ updater < MaxReloads
    /\ updater' = updater + 1
    /\ start_update_policy(c, updater')
    /\ UNCHANGED <<policy, feed, state, candidate, archive, disk, exiting, cand, dir,
                   tampered, crossed>>

Free(u) == state[u] \notin {"checking", "downloading", "applying"}

\* Claims the Updater for s, or ends the call.
begin(c, s, p) ==
    IF Free(on[c])
    THEN Set(c, s) /\ CallGoes(c, p)
    ELSE CallGoes(c, "done") /\ UNCHANGED state

BeginCheck(c) ==
    /\ CallAt(c, "begin")
    /\ begin(c, "checking", "checking")
    /\ UNCHANGED <<world, candidate, archive, disk, calls, tampered>>

leave_claimed(c) == CallGoes(c, "done") /\ UNCHANGED state

fail(c) == Set(c, "failed") /\ CallGoes(c, "done")

\* The feed cannot be fetched, read or parsed, has no artifact for this target,
\* or is for another application or channel.
CheckFails(c) ==
    /\ CallAt(c, "checking")
    /\ fail(c)
    /\ UNCHANGED <<world, candidate, archive, disk, calls, tampered>>

verify_signed_feed(genuine) == genuine

\* 0: the feed has nothing newer.
SettleCheck(c, v) ==
    /\ archive' = [archive EXCEPT ![on[c]] = 0]
    /\ candidate' = [candidate EXCEPT ![on[c]] = v]
    /\ Set(c, IF v # 0 THEN "available" ELSE "uptodate")
    /\ CallGoes(c, IF v # 0 /\ op[c] = "policy" /\ policy = "automatic" THEN "read" ELSE "done")

\* A tampered feed offers a release that nobody signed, -1.
check_inner(c) ==
    /\ CallAt(c, "checking")
    /\ \E genuine \in BOOLEAN :
          /\ ~genuine => tampered < MaxTampered
          /\ tampered' = IF genuine THEN tampered ELSE tampered + 1
          /\ IF ~verify_signed_feed(genuine)
             THEN fail(c) /\ UNCHANGED <<archive, candidate>>
             ELSE SettleCheck(c, IF ~genuine THEN -1
                                 ELSE IF version_is_newer(feed) THEN feed ELSE 0)
    /\ UNCHANGED <<world, disk, calls>>

-----------------------------------------------------------------------------
\* download clones the candidate in one lock and claims the Updater in another.
ReadCandidate(c) ==
    /\ CallAt(c, "read")
    /\ cand' = [cand EXCEPT ![c] = candidate[on[c]]]
    /\ CallGoes(c, IF candidate[on[c]] = 0 THEN "done" ELSE "claim")
    /\ UNCHANGED <<world, state, candidate, archive, disk, op, on, dir, sent, tampered>>

BeginDownload(c) ==
    /\ CallAt(c, "claim")
    /\ begin(c, "downloading", "stage")
    /\ UNCHANGED <<world, candidate, archive, disk, calls, tampered>>

\* A stage that is written to is the one modified last.
Newest(s) ==
    LET at == CHOOSE i \in DOMAIN stages : stages[i] = s
    IN [i \in DOMAIN stages |-> IF i = 1 THEN s ELSE IF i <= at THEN stages[i - 1] ELSE stages[i]]
OnDisk == {stages[i] : i \in DOMAIN stages}

\* All but the newest stage are removed, whoever refers to them.
prune_update_stages == SubSeq(stages, 1, IF stages = <<>> THEN 0 ELSE 1)

update_stage(c) ==
    /\ CallAt(c, "stage")
    /\ stages' = <<c>> \o prune_update_stages
    /\ content' = [s \in Stages |->
                     IF \E i \in DOMAIN prune_update_stages : prune_update_stages[i] = s
                     THEN content[s] ELSE 0]
    /\ dir' = [dir EXCEPT ![c] = c]
    /\ CallGoes(c, "fetch")
    /\ UNCHANGED <<world, state, candidate, archive, helpers, installed, op, on, cand,
                   sent, tampered>>

\* The server answers and the archive is created in its stage, unless another
\* Updater has removed the stage.
CreateArchive(c) ==
    /\ CallAt(c, "fetch")
    /\ IF dir[c] \in OnDisk
       THEN stages' = Newest(dir[c]) /\ CallGoes(c, "receive") /\ UNCHANGED state
       ELSE fail(c) /\ UNCHANGED stages
    /\ UNCHANGED <<world, candidate, archive, content, helpers, installed, calls, tampered>>

DownloadFails(c) ==
    /\ step[c] \in {"stage", "fetch", "receive"} /\ ~exiting
    /\ fail(c)
    /\ UNCHANGED <<world, candidate, archive, disk, calls, tampered>>

any_archive(c, v) == TRUE
matches_digest(c, v) == v = cand[c]

\* The stream ends: its length and digest are compared with the signed ones.  A
\* stage removed meanwhile takes its file with it, which the writer cannot see.
download_inner(c) ==
    /\ CallAt(c, "receive")
    /\ \E v \in {cand[c], 0} :
          /\ v = 0 => tampered < MaxTampered
          /\ tampered' = IF v = 0 THEN tampered + 1 ELSE tampered
          /\ IF matches_digest(c, v)
             THEN /\ archive' = [archive EXCEPT ![on[c]] = dir[c]]
                  /\ content' = [content EXCEPT ![dir[c]] =
                                    IF dir[c] \in OnDisk THEN v ELSE 0]
                  /\ Set(c, "ready")
                  /\ crossed' = IF cand[c] = candidate[on[c]] THEN crossed
                                ELSE crossed \cup {on[c]}
                  /\ CallGoes(c, IF op[c] = "policy" THEN "readarchive" ELSE "done")
             ELSE fail(c) /\ UNCHANGED <<archive, content, crossed>>
    /\ UNCHANGED <<policy, feed, updater, exiting, candidate, stages, helpers, installed, calls>>

-----------------------------------------------------------------------------
\* install clones archive and candidate in one lock and claims in another.
ReadArchive(c) ==
    /\ CallAt(c, "readarchive")
    /\ IF archive[on[c]] = 0 \/ candidate[on[c]] = 0
       THEN CallGoes(c, "done") /\ UNCHANGED <<dir, cand>>
       ELSE /\ dir' = [dir EXCEPT ![c] = archive[on[c]]]
            /\ cand' = [cand EXCEPT ![c] = candidate[on[c]]]
            /\ CallGoes(c, "claimapply")
    /\ UNCHANGED <<world, state, candidate, archive, disk, op, on, sent, tampered>>

BeginApply(c) ==
    /\ CallAt(c, "claimapply")
    /\ begin(c, "applying", "launch")
    /\ UNCHANGED <<world, candidate, archive, disk, calls, tampered>>

\* The host copies itself into the stage and starts the copy.
launch_apply_helper(c) ==
    /\ CallAt(c, "launch") /\ dir[c] \in OnDisk
    /\ stages' = Newest(dir[c])
    /\ helpers' = helpers \cup {[stage |-> dir[c], sha256 |-> cand[c], by |-> on[c]]}
    /\ CallGoes(c, "sleep")
    /\ UNCHANGED <<world, state, candidate, archive, content, installed, calls, tampered>>

LaunchFails(c) ==
    /\ CallAt(c, "launch")
    /\ fail(c)
    /\ UNCHANGED <<world, candidate, archive, disk, calls, tampered>>

\* 150 milliseconds later; the event loop ends and the process with it.
Exit(c) ==
    /\ CallAt(c, "sleep")
    /\ exiting' = TRUE
    /\ CallGoes(c, "done")
    /\ UNCHANGED <<policy, feed, updater, state, candidate, archive, disk, calls, tampered,
                   crossed>>

verify_file_hash(h) == h.stage \in OnDisk /\ content[h.stage] = h.sha256

\* The helper, once its parent is gone.  A refused archive leaves things as they
\* are; a helper runs once.
HelperApplies(h) ==
    /\ exiting /\ h \in helpers
    /\ helpers' = helpers \ {h}
    /\ installed' = IF verify_file_hash(h) THEN content[h.stage] ELSE installed
    /\ UNCHANGED <<policy, feed, updater, state, candidate, archive, stages, content, exiting,
                   step, calls, tampered, crossed>>

Work(c) == \/ BeginCheck(c) \/ CheckFails(c) \/ check_inner(c)
           \/ ReadCandidate(c) \/ BeginDownload(c) \/ update_stage(c) \/ CreateArchive(c)
           \/ DownloadFails(c) \/ download_inner(c)
           \/ ReadArchive(c) \/ BeginApply(c) \/ launch_apply_helper(c) \/ LaunchFails(c)
           \/ Exit(c)

UpdaterNext == \/ publish_feed
               \/ \E c \in Calls : \/ \E o \in Operations : Call(c, o)
                                   \/ Startup(c) \/ Reload(c) \/ Work(c)
               \/ \E h \in helpers : HelperApplies(h)

\* Threads go on, and the network answers or times out (NETWORK_TIMEOUT).
UpdaterFairness == \A c \in Calls : WF_updater_vars(Work(c))

UpdaterSpec == UpdaterInit /\ [][UpdaterNext]_updater_vars /\ UpdaterFairness

-----------------------------------------------------------------------------
Known == Ids \cup {0}
Claims(c) == step[c] \in {"checking", "stage", "fetch", "receive", "launch", "sleep"}

UpdaterTypeOK ==
    /\ feed \in Ids /\ updater \in Updaters
    /\ state \in [Updaters -> States]
    /\ candidate \in [Updaters -> Known]
    /\ archive \in [Updaters -> Stages \cup {0}]
    /\ stages \in Seq(Stages)
    /\ \A i, j \in DOMAIN stages : stages[i] = stages[j] => i = j
    /\ content \in [Stages -> Known]
    /\ helpers \subseteq [stage : Stages, sha256 : Ids, by : Updaters]
    /\ installed \in Ids /\ exiting \in BOOLEAN
    /\ step \in [Calls -> CallSteps] /\ op \in [Calls -> Operations]
    /\ on \in [Calls -> Updaters]
    /\ cand \in [Calls -> Known] /\ dir \in [Calls -> Stages \cup {0}]
    /\ tampered \in 0..MaxTampered /\ sent \in 0..MaxCalls
    /\ crossed \subseteq Updaters
    \* begin admits one operation at a time to an Updater.
    /\ \A c, d \in Calls : Claims(c) /\ Claims(d) /\ on[c] = on[d] => c = d

Position(v) == CHOOSE i \in DOMAIN Precedence : Precedence[i] = Releases[v]

\* Whatever servers answer, calls overlap and stages disappear, what replaces the
\* installed version is a signed release that SemVer places after it.
NeverInstallsOlder ==
    installed # 1 => installed \in Ids /\ Position(installed) > Position(1)

\* The host exits for a helper that will find the archive it was told to install,
\* unless a download ended for another candidate than the one a check had put in
\* place meanwhile, or a reload let a second Updater remove its stage.
HelperFindsItsArchive ==
    \A h \in helpers : verify_file_hash(h) \/ h.by \in crossed \/ updater > 0

\* A claim on the Updater does not outlive its operation: network, disk and
\* integrity failures all give it back.
ClaimsAreReleased ==
    \A u \in Updaters :
        state[u] \in {"checking", "downloading"}
            ~> (state[u] \notin {"checking", "downloading"} \/ exiting)
=============================================================================
