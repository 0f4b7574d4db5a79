------------------------------ MODULE FileGrants ------------------------------
(***************************************************************************)
(* The file services of native.rs as the gateway's request threads use     *)
(* them: dialogs that grant files and keep some grants on disk, and reads  *)
(* and writes through those grants, while reloads and restarts replace the *)
(* services.  Each generation of the services has its own grants and locks *)
(* and a request works on the generation it took at its start.  The store  *)
(* of persistent grants, and its temporary file, are common to all.        *)
(***************************************************************************)
EXTENDS Integers, FiniteSets, Sequences

CONSTANTS
    Paths,          \* the files a user may select
    MaxGrants,      \* persistent grants an application may keep (128)
    MaxStream,      \* chunks a stream may write (MAX_STREAM_BYTES)
    MaxCalls,       \* requests of the pages
    MaxDialogs,     \* dialogs among them
    MaxReloads,     \* reloads and restarts
    MaxFaults       \* failing system calls and removed files

ASSUME GrantsAssumption ==
    /\ {MaxGrants, MaxStream, MaxCalls, MaxDialogs, MaxReloads, MaxFaults} \subseteq Nat
    /\ IsFiniteSet(Paths)

Calls == 1..MaxCalls
Gens == 1..(MaxReloads + 1)
User == 0           \* what wrote a chunk before any request did

VARIABLES
    current,    \* the generation the gateway hands out
    loaded,     \* the last generation that read the store
    grants,     \* generation -> its grants
    kept,       \* generation -> its persistent grants
    skipped,    \* generation -> stored grants it could not open again
    store,      \* the file of persistent grants: whether it can be decoded, its grants
    temporary,  \* the requests that have file-grants.json.tmp open
    overtaken,  \* a generation changed the store after a later one had read it
    mixed,      \* requests of two generations had the temporary file open at once
    call,       \* call -> where the request is
    held,       \* the references the pages were given
    file,       \* path -> the writers of the file's chunks
    exists,     \* the paths at which there is a file
    left

grants_vars == <<current, loaded, grants, kept, skipped, store, temporary, overtaken, mixed, call, held, file, exists, left>>
granting == <<loaded, grants, kept, skipped, store, temporary, overtaken, mixed>>
files == <<file, exists>>

Idle == [op |-> "none"]
Grant(c, i, p, access) == [call |-> c, nth |-> i, path |-> p, access |-> access]

GrantsInit ==
    /\ current = 1 /\ loaded = 1
    /\ grants = [g \in Gens |-> {}] /\ kept = [g \in Gens |-> {}] /\ skipped = [g \in Gens |-> {}]
    /\ store = [ok |-> TRUE, grants |-> {}] /\ temporary = {}
    /\ overtaken = FALSE /\ mixed = FALSE
    /\ call = [c \in Calls |-> Idle] /\ held = {}
    /\ file = [p \in Paths |-> <<User, User>>]
    /\ exists = Paths
    /\ left = [dialog |-> MaxDialogs, reload |-> MaxReloads, fault |-> MaxFaults]

Spend(kind) == left[kind] > 0 /\ left' = [left EXCEPT ![kind] = @ - 1]
Keep == UNCHANGED left

\* The requests start in the order of their numbers.
Fresh(c) == call[c] = Idle /\ \A d \in Calls : d < c => call[d] # Idle

Busy(c, op) == call[c].op = op
At(c, pc) == Busy(c, "dialog") /\ call[c].pc = pc
Goto(c, pc) == call' = [call EXCEPT ![c].pc = pc]
\* A request that was answered, or lost.  Whether it succeeded shows in what
\* reached the page.
Answered == [op |-> "done"]

\* native_success, native_failure
native_task(c) == call' = [call EXCEPT ![c] = Answered]

-----------------------------------------------------------------------------
(* Dialogs and grants. *)

CanWrite(access) == access = "ReadWrite"

\* create_file_grant: a file that exists, or one the grant may create.
create_file_grant(p, access) == p \in exists \/ CanWrite(access)

\* dialog: validated against the services of the moment, which the request
\* keeps while the user decides.
dialog(c) ==
    /\ Fresh(c) /\ Spend("dialog")
    /\ call' = [call EXCEPT ![c] = [op |-> "dialog", gen |-> current, pc |-> "shown", access |-> "Read",
                                    persistent |-> FALSE, paths |-> <<>>, got |-> {}]]
    /\ UNCHANGED <<current, granting, held, files>>

\* validate_dialog: what is opened is granted for reading, what is saved for
\* writing, and only files to be opened may be several.
Replies(access) ==
    {<<>>} \cup {<<p>> : p \in Paths}
    \cup {ps \in {<<p, q>> : p \in Paths, q \in Paths} : access = "Read" /\ ps[1] # ps[2]}

\* show_dialog replies with what was picked.  The kind of the dialog and whether
\* its grants are to be kept were fixed by the request; nothing looks at them
\* before the reply, where the model chooses them.
show_dialog(c) ==
    /\ At(c, "shown")
    /\ \E access \in {"Read", "ReadWrite"}, persistent \in BOOLEAN : \E paths \in Replies(access) :
        call' = [call EXCEPT ![c] = [@ EXCEPT !.pc = "grant", !.access = access,
                                              !.persistent = persistent, !.paths = paths]]
    /\ Keep /\ UNCHANGED <<current, granting, held, files>>

\* The event loop ends, and with it the dialog.
DialogLost(c) ==
    /\ At(c, "shown")
    /\ native_task(c) /\ Spend("fault")
    /\ UNCHANGED <<current, granting, held, files>>

Pending(c) == Grant(c, Cardinality(call[c].got) + 1, Head(call[c].paths), call[c].access)

\* persistent_grants stays locked until the store is published.
Locked(g) ==
    \E d \in Calls : Busy(d, "dialog") /\ call[d].gen = g /\ call[d].pc \in {"create", "write", "rename"}

\* grant_path_with_persistence for the next path.  What was granted before a
\* path that fails stays granted, and stays in the store.
grant_path(c) ==
    LET g == call[c].gen
        r == Pending(c)
    IN  /\ At(c, "grant") /\ call[c].paths # <<>>
        /\ IF ~create_file_grant(r.path, r.access)
           THEN native_task(c) /\ UNCHANGED <<grants, kept>>
           ELSE /\ grants' = [grants EXCEPT ![g] = @ \cup {r}]
                /\ \/ /\ ~call[c].persistent
                      /\ call' = [call EXCEPT ![c].paths = Tail(@), ![c].got = @ \cup {r}]
                      /\ UNCHANGED kept
                   \/ /\ call[c].persistent /\ ~Locked(g)
                      /\ kept' = [kept EXCEPT ![g] = @ \cup {r}]
                      /\ Goto(c, "create")
        /\ Keep /\ UNCHANGED <<current, loaded, skipped, store, temporary, overtaken, mixed, held, files>>

\* persist_grants failed: the grant is taken back.
take_back(c) ==
    LET g == call[c].gen IN
    /\ grants' = [grants EXCEPT ![g] = @ \ {Pending(c)}]
    /\ kept' = [kept EXCEPT ![g] = @ \ {Pending(c)}]
    /\ temporary' = temporary \ {c}
    /\ native_task(c)

TooMany_late(c) == Cardinality(kept[call[c].gen]) > MaxGrants + 1

TooMany(c) == Cardinality(kept[call[c].gen]) > MaxGrants

\* persist_grants: too many grants are refused before anything is written;
\* then the temporary file is emptied.
persist_grants(c) ==
    /\ At(c, "create")
    /\ \/ /\ TooMany(c)
          /\ take_back(c) /\ Keep /\ UNCHANGED mixed
       \/ /\ ~TooMany(c)
          /\ temporary' = temporary \cup {c}
          /\ mixed' = (mixed \/ \E d \in temporary : call[d].gen # call[c].gen)
          /\ Goto(c, "write") /\ Keep /\ UNCHANGED <<grants, kept>>
       \/ ~TooMany(c) /\ take_back(c) /\ Spend("fault") /\ UNCHANGED mixed
    /\ UNCHANGED <<current, loaded, skipped, store, overtaken, held, files>>

\* What readers of a file find that two requests wrote into.
Torn(cs) == {[ok |-> FALSE, grants |-> {}]} \cup {[ok |-> TRUE, grants |-> kept[call[d].gen]] : d \in cs}

\* A generation's write that reaches the store.
Reaches(c) == overtaken' = (overtaken \/ call[c].gen < loaded)

\* write_all and sync_all, into the temporary file or, when another request
\* renamed it meanwhile, into the published store.
WriteTemporary(c) ==
    /\ At(c, "write")
    /\ \/ c \in temporary /\ Goto(c, "rename") /\ Keep /\ UNCHANGED <<grants, kept, store, temporary, overtaken>>
       \/ /\ c \notin temporary
          /\ store' \in Torn({c}) /\ Reaches(c)
          /\ Goto(c, "rename") /\ Keep /\ UNCHANGED <<grants, kept, temporary>>
       \/ take_back(c) /\ Spend("fault") /\ UNCHANGED <<store, overtaken>>
    /\ UNCHANGED <<current, loaded, skipped, mixed, held, files>>

\* The rename publishes what the temporary file holds.
Published(c) == IF temporary = {c} THEN {[ok |-> TRUE, grants |-> kept[call[c].gen]]}
                                   ELSE Torn(temporary)

Publish(c) ==
    LET r == Pending(c) IN
    /\ At(c, "rename")
    /\ \/ /\ temporary # {}
          /\ store' \in Published(c) /\ Reaches(c)
          /\ temporary' = {}
          /\ call' = [call EXCEPT ![c].pc = "grant", ![c].paths = Tail(@), ![c].got = @ \cup {r}]
          /\ Keep /\ UNCHANGED <<grants, kept>>
       \/ temporary = {} /\ take_back(c) /\ Keep /\ UNCHANGED <<store, overtaken>>
       \/ take_back(c) /\ Spend("fault") /\ UNCHANGED <<store, overtaken>>
    /\ UNCHANGED <<current, loaded, skipped, mixed, held, files>>

\* The references reach the page once every path is granted.
DialogDone(c) ==
    /\ At(c, "grant") /\ call[c].paths = <<>>
    /\ held' = held \cup {[grant |-> r, persistent |-> call[c].persistent] : r \in call[c].got}
    /\ native_task(c)
    /\ Keep /\ UNCHANGED <<current, granting, files>>

\* drag_drop: the window grants what was dropped on it for reading, until the
\* services are replaced.
drag_drop(c) ==
    /\ Fresh(c)
    /\ \E p \in exists :
        LET r == Grant(c, 1, p, "Read") IN
        /\ grants' = [grants EXCEPT ![current] = @ \cup {r}]
        /\ held' = held \cup {[grant |-> r, persistent |-> FALSE]}
        /\ call' = [call EXCEPT ![c] = Answered]
    /\ Keep /\ UNCHANGED <<current, loaded, kept, skipped, store, temporary, overtaken, mixed, files>>

-----------------------------------------------------------------------------
(* Files. *)

\* resolve and require_write: a grant of the services the request took.
resolve(r) == r.grant \in grants[current]
require_write(r) == CanWrite(r.grant.access)

\* write_text and open_write_stream empty the file, or create it.
Truncated_kept(p) == IF p \in exists THEN file[p] ELSE <<>>
Truncated(p) == <<>>

\* The requests that have a file open for writing.  alone, in a request that
\* writes, says that it has had its file for itself.
Writers(p) == {d \in Calls : Busy(d, "write") /\ call[d].path = p}

open_write(c) ==
    /\ Fresh(c)
    /\ \E r \in held :
        /\ resolve(r)
        /\ \/ /\ require_write(r)
              /\ file' = [file EXCEPT ![r.grant.path] = Truncated(r.grant.path)]
              /\ exists' = exists \cup {r.grant.path}
              /\ call' = [d \in Calls |->
                    IF d = c THEN [op |-> "write", path |-> r.grant.path, at |-> 0, attached |-> TRUE,
                                   alone |-> Writers(r.grant.path) = {}]
                    ELSE IF d \in Writers(r.grant.path) THEN [call[d] EXCEPT !.alone = FALSE] ELSE call[d]]
           \/ /\ ~require_write(r)
              /\ call' = [call EXCEPT ![c] = Answered]
              /\ UNCHANGED files
    /\ Keep /\ UNCHANGED <<current, granting, held>>

\* A writer puts its chunk at its own position in the file.
Chunk(s, i, c) == [k \in 1..(IF Len(s) > i THEN Len(s) ELSE i) |->
                      IF k = i THEN c ELSE IF k <= Len(s) THEN s[k] ELSE User]

Fits(n) == n <= MaxStream

\* A chunk is counted, and refused over the limit, before it is written; a body
\* that breaks off leaves what was written so far.
filesystem_write_stream(c) ==
    /\ Busy(c, "write")
    /\ LET p == call[c].path
           n == call[c].at + 1
       IN  \/ /\ Fits(n)
              /\ file' = IF call[c].attached THEN [file EXCEPT ![p] = Chunk(@, n, c)] ELSE file
              /\ call' = [call EXCEPT ![c].at = n]
              /\ Keep
           \/ ~Fits(n) /\ native_task(c) /\ Keep /\ UNCHANGED file
           \/ native_task(c) /\ Spend("fault") /\ UNCHANGED file
    /\ UNCHANGED <<current, granting, held, exists>>

Whole(s, c, n) == s = [k \in 1..n |-> c]

\* The body ended: the answer is the number of bytes written.
WriteDone(c) ==
    /\ Busy(c, "write")
    /\ call' = [call EXCEPT ![c] = Answered]
    /\ Keep /\ UNCHANGED <<current, granting, held, files>>

-----------------------------------------------------------------------------
(* Reloads, restarts and the user. *)

\* load_persistent_grants
Loads(s) == s.ok /\ Cardinality(s.grants) <= MaxGrants
Usable(g) == {r \in g : create_file_grant(r.path, r.access)}

\* NativeServices::prepare reads the store.  A grant whose file is gone is of
\* no use to this generation, which keeps it in the store.
prepared_usable(g) ==
    /\ kept' = [kept EXCEPT ![g] = Usable(store.grants)]
    /\ grants' = [grants EXCEPT ![g] = Usable(store.grants)]
    /\ skipped' = [skipped EXCEPT ![g] = store.grants \ Usable(store.grants)]

prepared(g) ==
    /\ kept' = [kept EXCEPT ![g] = store.grants]
    /\ grants' = [grants EXCEPT ![g] = Usable(store.grants)]
    /\ skipped' = [skipped EXCEPT ![g] = store.grants \ Usable(store.grants)]

\* A reload prepares the next services; a store that cannot be read fails it.
prepare ==
    /\ loaded = current
    /\ Spend("reload")
    /\ \/ Loads(store) /\ loaded' = current + 1 /\ prepared(current + 1)
       \/ ~Loads(store) /\ UNCHANGED <<loaded, grants, kept, skipped>>
    /\ UNCHANGED <<current, store, temporary, overtaken, mixed, call, held, files>>

\* The gateway hands out the new services, or a later part of the reload fails.
Replace ==
    /\ loaded > current
    /\ \/ current' = loaded /\ Keep /\ UNCHANGED loaded
       \/ loaded' = current /\ Spend("fault") /\ UNCHANGED current
    /\ UNCHANGED <<grants, kept, skipped, store, temporary, overtaken, mixed, call, held, files>>

\* The host ends and is started again: its requests are lost, the temporary
\* file is left behind.  It does not start with a store it cannot read.
Restart ==
    /\ Loads(store)
    /\ Spend("reload")
    /\ current' = loaded + 1 /\ loaded' = loaded + 1 /\ prepared(loaded + 1)
    /\ temporary' = {}
    /\ call' = [c \in Calls |-> IF call[c].op \in {"dialog", "write"} THEN Answered ELSE call[c]]
    /\ UNCHANGED <<store, overtaken, mixed, held, files>>

\* The user removes a file; who has it open goes on writing into what is gone.
RemoveFile ==
    /\ \E p \in exists :
        /\ exists' = exists \ {p}
        /\ call' = [c \in Calls |-> IF Busy(c, "write") /\ call[c].path = p
                                    THEN [call[c] EXCEPT !.attached = FALSE, !.alone = FALSE] ELSE call[c]]
    /\ Spend("fault")
    /\ UNCHANGED <<current, granting, held, file>>

-----------------------------------------------------------------------------
GrantsNext ==
    \/ \E c \in Calls :
        \/ dialog(c) \/ show_dialog(c) \/ DialogLost(c) \/ grant_path(c) \/ persist_grants(c)
        \/ WriteTemporary(c) \/ Publish(c) \/ DialogDone(c) \/ drag_drop(c)
        \/ open_write(c) \/ filesystem_write_stream(c) \/ WriteDone(c)
    \/ prepare \/ Replace \/ Restart \/ RemoveFile

GrantsSpec == GrantsInit /\ [][GrantsNext]_grants_vars

-----------------------------------------------------------------------------
(* Properties. *)

Grants == [call : Calls, nth : 1..2, path : Paths, access : {"Read", "ReadWrite"}]

\* The type of the state, with the bounds of the code: the numbers of the
\* generations, and no stream that writes more than it may
\* (filesystem_write_stream, MAX_STREAM_BYTES).
GrantsTypeOK ==
    /\ current \in Gens /\ loaded \in {current, current + 1}
    /\ \A g \in Gens : grants[g] \subseteq Grants /\ kept[g] \subseteq Grants /\ skipped[g] \subseteq kept[g]
    /\ store.ok \in BOOLEAN /\ store.grants \subseteq Grants
    /\ temporary \subseteq {c \in Calls : Busy(c, "dialog")}
    /\ held \subseteq [grant : Grants, persistent : BOOLEAN]
    /\ exists \subseteq Paths /\ \A p \in Paths : file[p] \in Seq({User} \cup Calls)
    /\ \A c \in Calls : Busy(c, "write") => call[c].at \in 0..MaxStream

\* A reference kept for a page is not lost by a reload or a restart: unless a
\* replaced generation wrote the store after the next one had read it, or two
\* generations wrote it at once, every persistent reference a page was given is in the store, and the services in
\* use accept it or could not open its file (grant_path_with_persistence,
\* prepare).
KeptUnlessOvertaken ==
    ~overtaken /\ ~mixed => \A h \in held : h.persistent =>
        /\ h.grant \in store.grants
        /\ h.grant \in grants[current] \cup skipped[current]

\* The store can always be read again, so that no start and no reload fails
\* because of it, unless two generations had its temporary file open at once
\* (persist_grants, load_persistent_grants).
StoreAlwaysLoads == mixed \/ Loads(store)

\* A write that is answered as done, and had the file for itself, left exactly
\* its own bytes: nothing of an earlier and longer content remains behind them
\* (open_write_stream, filesystem_write_stream).
WrittenIsWhole ==
    [][\A c \in Calls : WriteDone(c) /\ call[c].alone
          => Whole(file[call[c].path], c, call[c].at)]_grants_vars

==============================================================================
