--------------------------- MODULE DocumentStore ---------------------------
(***************************************************************************)
(* The knowledge base of the platform: document rows in PostgreSQL, chunk  *)
(* vectors in Qdrant and the cache epoch of each tenant in Redis, written  *)
(* one after the other by ingestions, deletions and clears that run        *)
(* concurrently (API handlers of any replica, ingestion workers).          *)
(*                                                                         *)
(* One action per await: what lies between two awaits of a handler is      *)
(* atomic on the event loop, and every store call is one atomic step of    *)
(* that store.  A call that raises is an action of its own: it may or may  *)
(* not have taken effect, because the reply is what was lost.              *)
(***************************************************************************)
EXTENDS Integers, FiniteSets, FiniteSetsExt

CONSTANTS
    Requests,      \* requests; a request's id doubles as the uuid4 of its document
    Tenants,
    Filenames,
    Sizes,         \* upload sizes in bytes (> 0: empty uploads yield no chunk)
    MaxDocuments,  \* settings.MAX_DOCUMENTS_PER_TENANT
    MaxStorage,    \* settings.MAX_STORAGE_BYTES_PER_TENANT
    MaxFailures,   \* bound: store calls that raise and crashes, over a behaviour
    None           \* no document, no request

ASSUME RequestsAssumption == IsFiniteSet(Requests) /\ None \notin Requests
ASSUME QuotaAssumption == MaxDocuments \in Nat \ {0} /\ MaxStorage \in Nat \ {0}
ASSUME SizesAssumption == Sizes \subseteq Nat \ {0}
ASSUME FailuresAssumption == MaxFailures \in Nat
\* extract_text refuses a name without one of its extensions, and a uuid4 has none.
ASSUME NamesAssumption == Filenames \cap Requests = {}

VARIABLES
    rows,       \* table documents: committed rows
    vectors,    \* Qdrant: one element stands for all the points of a document
    tenantVer,  \* tenant_ver:<tenant>; 0 is the missing key
    lock,       \* pg_advisory_xact_lock(hashtext(tenant)): holder or None
    pc,         \* where each request is
    args,       \* what each request was asked to do
    prev,       \* previous_doc_id, read before the vectors are written
    victims,    \* rows that a DELETE in progress has found
    failures    \* failures so far

vars == <<rows, vectors, tenantVer, lock, pc, args, prev, victims, failures>>

DocIds == Requests

Row == [id : DocIds, tenant : Tenants, filename : Filenames, size : Sizes]
Point == [doc : DocIds, tenant : Tenants, filename : Filenames]

\* A clear names no file: its filename and size are None.  "alone" is an observer's
\* mark: no other write to its files was running when the request began.
Args == [kind : {"ingest", "delete", "clear"}, tenant : Tenants,
         filename : Filenames \cup {None}, size : Sizes \cup {None}, alone : BOOLEAN]
NoArgs == [kind |-> None, tenant |-> None, filename |-> None, size |-> None,
           alone |-> TRUE]

\* How a request has ended, by what it leaves behind.  "rejected": refused (400 or 404)
\* with no effect.  "unclean": refused over quota, its vectors perhaps not taken back.
\* "missed": a 404 after an error, the rows perhaps deleted.  "undone": an error, its
\* vectors taken back and no row of it committed.  "saved": an error, its row is there,
\* the cleanup of the document it replaced failed.  "failed": any other error.
Ended == {"done", "rejected", "unclean", "missed", "undone", "saved", "failed", "crashed"}
Working == {"prechecked", "upsert", "record", "commit", "undoQuota", "undoFailure",
            "undoCommitted", "cleanup", "delRows", "delVectors", "clearRows",
            "clearVectors", "bump"}
Labels == {"idle"} \cup Working \cup Ended

TypeOK ==
    /\ rows \subseteq Row
    /\ vectors \subseteq Point
    /\ tenantVer \in [Tenants -> Nat]
    /\ lock \in [Tenants -> Requests \cup {None}]
    /\ pc \in [Requests -> Labels]
    /\ args \in [Requests -> Args \cup {NoArgs}]
    /\ prev \in [Requests -> DocIds \cup {None}]
    /\ victims \in [Requests -> SUBSET Row]
    /\ failures \in 0..MaxFailures

-----------------------------------------------------------------------------
(* What the queries read.                                                  *)

TenantRows(t) == {row \in rows : row.tenant = t}
FileRows(t, f) == {row \in TenantRows(t) : row.filename = f}
Bytes(S) == MapThenSumSet(LAMBDA row : row.size, S)

\* Mutant: the query's row instead of its id.
CurrentIdRow(t, f) ==
    IF FileRows(t, f) = {} THEN None ELSE CHOOSE row \in FileRows(t, f) : TRUE

\* get_tenant_document_id: ORDER BY created_at DESC LIMIT 1 over at most one row.
CurrentId(t, f) ==
    IF FileRows(t, f) = {} THEN None ELSE (CHOOSE row \in FileRows(t, f) : TRUE).id

\* Mutant: the new document is not counted.
WithinQuotaUncounted(t, f, size) ==
    /\ Cardinality(TenantRows(t)) <= MaxDocuments
    /\ Bytes(TenantRows(t)) - Bytes(FileRows(t, f)) + size <= MaxStorage

\* Mutant: a replacement is not charged.
WithinQuotaReplacementFree(t, f, size) ==
    /\ Cardinality(TenantRows(t)) + (IF FileRows(t, f) = {} THEN 1 ELSE 0) <= MaxDocuments
    /\ FileRows(t, f) = {} => Bytes(TenantRows(t)) + size <= MaxStorage

\* The in-transaction check of record_document.  replaced_size is > 0 exactly
\* when a row of that name exists.
WithinQuota(t, f, size) ==
    /\ Cardinality(TenantRows(t)) + (IF FileRows(t, f) = {} THEN 1 ELSE 0) <= MaxDocuments
    /\ Bytes(TenantRows(t)) - Bytes(FileRows(t, f)) + size <= MaxStorage

\* The check before the embeddings: a replacement is charged in full.
WithinUsage(t, size) ==
    /\ Cardinality(TenantRows(t)) < MaxDocuments
    /\ Bytes(TenantRows(t)) + size <= MaxStorage

\* Mutant: the tenant condition of the filter is forgotten.
VectorsWithoutFileAnyTenant(t, f) == {v \in vectors : v.filename # f}

\* delete_documents_from_qdrant with a doc_id, or with a filename.
VectorsWithoutDoc(t, d) == {v \in vectors : ~(v.tenant = t /\ v.doc = d)}
VectorsWithoutFile(t, f) == {v \in vectors : ~(v.tenant = t /\ v.filename = f)}

-----------------------------------------------------------------------------
Init ==
    /\ rows = {}
    /\ vectors = {}
    /\ tenantVer = [t \in Tenants |-> 0]
    /\ lock = [t \in Tenants |-> None]
    /\ pc = [r \in Requests |-> "idle"]
    /\ args = [r \in Requests |-> NoArgs]
    /\ prev = [r \in Requests |-> None]
    /\ victims = [r \in Requests |-> {}]
    /\ failures = 0

Touches(r, t, f) ==
    /\ args[r].tenant = t
    /\ args[r].kind = "clear" \/ args[r].filename = f

Alone(t, files) ==
    \A r \in Requests, f \in files : pc[r] \in Working => ~Touches(r, t, f)

Goto(r, from, to) == pc[r] = from /\ pc' = [pc EXCEPT ![r] = to]
Fail == failures < MaxFailures /\ failures' = failures + 1

\* A row deleted by an open transaction blocks another DELETE of it.
Waiting(r) == \E q \in Requests : pc[q] = "commit" /\ victims[q] \cap victims[r] # {}

-----------------------------------------------------------------------------
(* Ingestion: _process_document_ingestion                                  *)

\* Parsing, then the quota check on the usage of the moment.
BeginIngest(r, t, f, size) ==
    /\ Goto(r, "idle", IF WithinUsage(t, size) THEN "prechecked" ELSE "rejected")
    /\ args' = [args EXCEPT ![r] = [kind |-> "ingest", tenant |-> t, filename |-> f,
                                    size |-> size, alone |-> Alone(t, {f})]]
    /\ UNCHANGED <<rows, vectors, tenantVer, lock, prev, victims, failures>>

\* After the embeddings: which document is this one replacing?
ReadPrevious(r) ==
    /\ Goto(r, "prechecked", "upsert")
    /\ prev' = [prev EXCEPT ![r] = CurrentId(args[r].tenant, args[r].filename)]
    /\ UNCHANGED <<rows, vectors, tenantVer, lock, args, victims, failures>>

\* Nothing is written yet.
ReadPreviousFails(r) ==
    /\ Goto(r, "prechecked", "undone")
    /\ Fail
    /\ UNCHANGED <<rows, vectors, tenantVer, lock, args, prev, victims>>

NewPoint(r) == [doc |-> r, tenant |-> args[r].tenant, filename |-> args[r].filename]
NewRow(r) == [id |-> r, tenant |-> args[r].tenant,
              filename |-> args[r].filename, size |-> args[r].size]

Upsert(r) ==
    /\ Goto(r, "upsert", "record")
    /\ vectors' = vectors \cup {NewPoint(r)}
    /\ UNCHANGED <<rows, tenantVer, lock, args, prev, victims, failures>>

\* A failed upsert is not compensated, even when Qdrant applied it.
UpsertFails(r) ==
    /\ Goto(r, "upsert", "failed")
    /\ Fail
    /\ vectors' \in {vectors, vectors \cup {NewPoint(r)}}
    /\ UNCHANGED <<rows, tenantVer, lock, args, prev, victims>>

\* Mutant: no advisory lock.
RecordBeginUnlocked(r) ==
    LET t == args[r].tenant
        f == args[r].filename
    IN  /\ pc[r] = "record"
        /\ IF WithinQuota(t, f, args[r].size)
           THEN /\ Goto(r, "record", "commit")
                /\ victims' = [victims EXCEPT ![r] = FileRows(t, f)]
           ELSE /\ Goto(r, "record", "undoQuota")
                /\ UNCHANGED victims
        /\ UNCHANGED <<rows, vectors, tenantVer, lock, args, prev, failures>>

\* record_document opens its transaction: advisory lock, usage, quota, and the
\* DELETE of the rows of that name.  Over quota the transaction rolls back.
RecordBegin(r) ==
    LET t == args[r].tenant
        f == args[r].filename
    IN  /\ pc[r] = "record"
        /\ lock[t] = None
        /\ IF WithinQuota(t, f, args[r].size)
           THEN /\ Goto(r, "record", "commit")
                /\ lock' = [lock EXCEPT ![t] = r]
                /\ victims' = [victims EXCEPT ![r] = FileRows(t, f)]
           ELSE /\ Goto(r, "record", "undoQuota")
                /\ UNCHANGED <<lock, victims>>
        /\ UNCHANGED <<rows, vectors, tenantVer, args, prev, failures>>

\* Mutant: a session lock, which the end of a transaction does not release.
UnlockSession(r) ==
    /\ lock' = lock
    /\ victims' = [victims EXCEPT ![r] = {}]

Unlock(r) ==
    /\ lock' = [t \in Tenants |-> IF lock[t] = r THEN None ELSE lock[t]]
    /\ victims' = [victims EXCEPT ![r] = {}]

\* Mutant: the previous document is looked up after the INSERT, and is the new one.
RecordCommitThenReread(r) ==
    /\ Goto(r, "commit", "cleanup")
    /\ rows' = (rows \ victims[r]) \cup {NewRow(r)}
    /\ prev' = [prev EXCEPT ![r] = r]
    /\ Unlock(r)
    /\ UNCHANGED <<vectors, tenantVer, args, failures>>

\* The INSERT and the COMMIT, which releases the lock.
RecordCommit(r) ==
    /\ Goto(r, "commit", IF prev[r] = None THEN "bump" ELSE "cleanup")
    /\ rows' = (rows \ victims[r]) \cup {NewRow(r)}
    /\ Unlock(r)
    /\ UNCHANGED <<vectors, tenantVer, args, prev, failures>>

\* The connection breaks before the COMMIT.
RecordFails(r) ==
    /\ Goto(r, "record", "undoFailure") \/ Goto(r, "commit", "undoFailure")
    /\ Fail
    /\ Unlock(r)
    /\ UNCHANGED <<rows, vectors, tenantVer, args, prev>>

\* The connection breaks with the COMMIT applied: the code cannot tell it from
\* RecordFails and compensates just the same.
CommitReplyLost(r) ==
    /\ Goto(r, "commit", "undoCommitted")
    /\ Fail
    /\ rows' = (rows \ victims[r]) \cup {NewRow(r)}
    /\ Unlock(r)
    /\ UNCHANGED <<vectors, tenantVer, args, prev>>

\* Mutant: an upload over quota keeps its vectors.
CompensateErrorsOnly(r) ==
    /\ \/ Goto(r, "undoQuota", "rejected") \/ Goto(r, "undoFailure", "undone")
       \/ Goto(r, "undoCommitted", "failed")
    /\ vectors' = IF pc[r] = "undoQuota" THEN vectors
                  ELSE VectorsWithoutDoc(args[r].tenant, r)
    /\ UNCHANGED <<rows, tenantVer, lock, args, prev, victims, failures>>

\* The compensating deletion of the new document's own vectors; then the error is
\* raised on, over quota as the client's own (400).
Compensate(r) ==
    /\ \/ Goto(r, "undoQuota", "rejected") \/ Goto(r, "undoFailure", "undone")
       \/ Goto(r, "undoCommitted", "failed")
    /\ vectors' = VectorsWithoutDoc(args[r].tenant, r)
    /\ UNCHANGED <<rows, tenantVer, lock, args, prev, victims, failures>>

\* It fails, and that is only logged: the answer is the same.
CompensateFails(r) ==
    /\ \/ Goto(r, "undoQuota", "unclean") \/ Goto(r, "undoFailure", "failed")
       \/ Goto(r, "undoCommitted", "failed")
    /\ Fail
    /\ vectors' \in {vectors, VectorsWithoutDoc(args[r].tenant, r)}
    /\ UNCHANGED <<rows, tenantVer, lock, args, prev, victims>>

\* Mutant: cleanup by filename, as delete_document does it.
CleanupByFilename(r) ==
    /\ Goto(r, "cleanup", "bump")
    /\ vectors' = VectorsWithoutFile(args[r].tenant, args[r].filename)
    /\ UNCHANGED <<rows, tenantVer, lock, args, prev, victims, failures>>

\* The replaced document's vectors, by the id read before the upsert.
CleanupPrevious(r) ==
    /\ Goto(r, "cleanup", "bump")
    /\ vectors' = VectorsWithoutDoc(args[r].tenant, prev[r])
    /\ UNCHANGED <<rows, tenantVer, lock, args, prev, victims, failures>>

\* The row is committed; neither the cleanup nor the bump is retried.
CleanupFails(r) ==
    /\ Goto(r, "cleanup", "saved")
    /\ Fail
    /\ vectors' \in {vectors, VectorsWithoutDoc(args[r].tenant, prev[r])}
    /\ UNCHANGED <<rows, tenantVer, lock, args, prev, victims>>

-----------------------------------------------------------------------------
(* Deletion: delete_document with a document id or a filename.             *)

Matching(t, target) ==
    {row \in TenantRows(t) : row.id = target \/ row.filename = target}

\* DELETE ... RETURNING takes its snapshot: a row committed later is not among
\* its victims.  Nothing matched is a 404.
BeginDelete(r, t, target) ==
    LET hit == Matching(t, target)
        names == {row.filename : row \in hit}
    IN  /\ Goto(r, "idle", IF hit = {} THEN "rejected" ELSE "delRows")
        /\ victims' = [victims EXCEPT ![r] = hit]
        /\ \E f \in IF hit = {} THEN {None} ELSE names :
              args' = [args EXCEPT ![r] = [kind |-> "delete", tenant |-> t, filename |-> f,
                                           size |-> None, alone |-> Alone(t, names)]]
        /\ UNCHANGED <<rows, vectors, tenantVer, lock, prev, failures>>

\* Mutant: what RETURNING answers is not looked at.
DeleteRowsUncounted(r) ==
    /\ ~Waiting(r)
    /\ Goto(r, "delRows", "delVectors")
    /\ rows' = rows \ victims[r]
    /\ Unlock(r)
    /\ UNCHANGED <<vectors, tenantVer, args, prev, failures>>

\* Then it deletes, once no transaction is about to replace a victim, what is
\* left of them.  When all are gone, that too is a 404.
DeleteRows(r) ==
    /\ ~Waiting(r)
    /\ Goto(r, "delRows", IF victims[r] \cap rows = {} THEN "rejected" ELSE "delVectors")
    /\ rows' = rows \ victims[r]
    /\ Unlock(r)
    /\ UNCHANGED <<vectors, tenantVer, args, prev, failures>>

\* delete_tenant_document swallows the error and the client gets the 404, even
\* when the rows were deleted.
DeleteRowsFails(r) ==
    /\ ~Waiting(r)
    /\ Goto(r, "delRows", "missed")
    /\ Fail
    /\ rows' \in {rows, rows \ victims[r]}
    /\ Unlock(r)
    /\ UNCHANGED <<vectors, tenantVer, args, prev>>

\* Whatever carries that filename now, a newer document's vectors included.
DeleteVectors(r) ==
    /\ Goto(r, "delVectors", "bump")
    /\ vectors' = VectorsWithoutFile(args[r].tenant, args[r].filename)
    /\ UNCHANGED <<rows, tenantVer, lock, args, prev, victims, failures>>

DeleteVectorsFails(r) ==
    /\ Goto(r, "delVectors", "failed")
    /\ Fail
    /\ vectors' \in {vectors, VectorsWithoutFile(args[r].tenant, args[r].filename)}
    /\ UNCHANGED <<rows, tenantVer, lock, args, prev, victims>>

-----------------------------------------------------------------------------
(* Clearing: clear_all_documents                                           *)

BeginClear(r, t) ==
    /\ Goto(r, "idle", "clearRows")
    /\ victims' = [victims EXCEPT ![r] = TenantRows(t)]
    /\ args' = [args EXCEPT ![r] = [kind |-> "clear", tenant |-> t, filename |-> None,
                                    size |-> None, alone |-> Alone(t, Filenames)]]
    /\ UNCHANGED <<rows, vectors, tenantVer, lock, prev, failures>>

ClearRows(r) ==
    /\ ~Waiting(r)
    /\ Goto(r, "clearRows", "clearVectors")
    /\ rows' = rows \ victims[r]
    /\ Unlock(r)
    /\ UNCHANGED <<vectors, tenantVer, args, prev, failures>>

\* delete_all_tenant_documents answers 0 on an error: the vectors are cleared
\* all the same.
ClearRowsFails(r) ==
    /\ ~Waiting(r)
    /\ Goto(r, "clearRows", "clearVectors")
    /\ Fail
    /\ rows' \in {rows, rows \ victims[r]}
    /\ Unlock(r)
    /\ UNCHANGED <<vectors, tenantVer, args, prev>>

VectorsWithoutTenant(t) == {v \in vectors : v.tenant # t}

ClearVectors(r) ==
    /\ Goto(r, "clearVectors", "bump")
    /\ vectors' = VectorsWithoutTenant(args[r].tenant)
    /\ UNCHANGED <<rows, tenantVer, lock, args, prev, victims, failures>>

ClearVectorsFails(r) ==
    /\ Goto(r, "clearVectors", "failed")
    /\ Fail
    /\ vectors' \in {vectors, VectorsWithoutTenant(args[r].tenant)}
    /\ UNCHANGED <<rows, tenantVer, lock, args, prev, victims>>

-----------------------------------------------------------------------------
(* The end of all three: bump_tenant_cache_version, whose failure is       *)
(* swallowed; and a crash or a cancellation, which no handler catches.     *)

Bump(r) ==
    /\ Goto(r, "bump", "done")
    /\ tenantVer' = [tenantVer EXCEPT ![args[r].tenant] = @ + 1]
    /\ UNCHANGED <<rows, vectors, lock, args, prev, victims, failures>>

BumpFails(r) ==
    /\ Goto(r, "bump", "done")
    /\ Fail
    /\ UNCHANGED <<rows, vectors, tenantVer, lock, args, prev, victims>>

\* PostgreSQL rolls back the open transaction and frees its lock.
Crash(r) ==
    /\ pc[r] \in Working
    /\ pc' = [pc EXCEPT ![r] = "crashed"]
    /\ Fail
    /\ Unlock(r)
    /\ UNCHANGED <<rows, vectors, tenantVer, args, prev>>

Begin(r) ==
    \E t \in Tenants :
        \/ \E f \in Filenames, size \in Sizes : BeginIngest(r, t, f, size)
        \/ \E target \in Filenames \cup DocIds :
              BeginDelete(r, t, target)
        \/ BeginClear(r, t)

Step(r) ==
    \/ ReadPrevious(r) \/ Upsert(r) \/ RecordBegin(r) \/ RecordCommit(r)
    \/ Compensate(r) \/ CleanupPrevious(r)
    \/ DeleteRows(r) \/ DeleteVectors(r) \/ ClearRows(r) \/ ClearVectors(r) \/ Bump(r)

StepFails(r) ==
    \/ ReadPreviousFails(r) \/ UpsertFails(r) \/ RecordFails(r) \/ CommitReplyLost(r)
    \/ CompensateFails(r) \/ CleanupFails(r) \/ DeleteRowsFails(r) \/ ClearRowsFails(r)
    \/ DeleteVectorsFails(r) \/ ClearVectorsFails(r) \/ BumpFails(r) \/ Crash(r)

Next == \E r \in Requests : Begin(r) \/ Step(r) \/ StepFails(r)

\* The store calls return or raise; nobody has to send a request.
Spec == Init /\ [][Next]_vars /\ \A r \in Requests : WF_vars(Step(r))

-----------------------------------------------------------------------------
(* Properties                                                              *)

Ids(t, f) == {row.id : row \in FileRows(t, f)}
Docs(t, f) == {v.doc : v \in {p \in vectors : p.tenant = t /\ p.filename = f}}

\* No tenant ever has two rows of one filename.  The schema has no unique
\* constraint: only the advisory lock of record_document keeps two concurrent
\* replacements from both inserting.
OneRowPerFile == \A t \in Tenants, f \in Filenames : Cardinality(FileRows(t, f)) <= 1

\* The committed rows of a tenant never exceed its document quota, although every
\* ingestion checks it long before it writes and replacements and deletions run
\* in between.
DocumentQuota == \A t \in Tenants : Cardinality(TenantRows(t)) <= MaxDocuments

\* Nor its storage quota, although a replacement is charged the difference of two
\* sizes, one of which may have been deleted since it was read.
StorageQuota == \A t \in Tenants : Bytes(TenantRows(t)) <= MaxStorage

\* The vectors of a document whose row stays are taken away only by a deletion
\* or a clear that somebody asked for, or by the compensation of an ingestion
\* whose COMMIT went through though its reply was lost.  In particular the
\* cleanup of a replacement, which deletes by an id read long before, never
\* hits a live document.
MayLoseVectors(row) ==
    \/ \E r \in Requests :
          /\ pc[r] \in {"delVectors", "clearVectors"} /\ pc'[r] # pc[r]
          /\ Touches(r, row.tenant, row.filename)
    \/ pc[row.id] = "undoCommitted"

LiveVectorsStep ==
    \A row \in rows \cap rows' :
        (\E v \in vectors \ vectors' : v.doc = row.id) => MayLoseVectors(row)

LiveVectorsStay == [][LiveVectorsStep]_vars

\* A step of a request changes the rows, the vectors and the cache epoch of the
\* request's own tenant only.
Changed(old, new) == (old \ new) \cup (new \ old)

IsolatedStep ==
    \A t \in Tenants :
        \/ /\ \A x \in Changed(rows, rows') \cup Changed(vectors, vectors') : x.tenant # t
           /\ tenantVer'[t] = tenantVer[t]
        \/ \E r \in Requests : pc'[r] # pc[r] /\ args'[r].tenant = t

TenantIsolation == [][IsolatedStep]_vars

\* The requests that touched a file came one after the other, and each ended in
\* one of the given ways.
Settled(t, f, endings) ==
    \A r \in Requests : Touches(r, t, f) => pc[r] \in endings /\ args[r].alone

\* With clients that write a file one request at a time: when no request on the
\* file is running and none was cut short, every vector that a search can return
\* belongs to the document listed under that name (no ghosts of replaced,
\* rejected or deleted uploads), compensated failures included.
NoGhosts ==
    \A t \in Tenants, f \in Filenames :
        Settled(t, f, {"done", "rejected", "undone"}) => Docs(t, f) \subseteq Ids(t, f)

\* Under the same conditions, when no clear went through a failure (ClearRowsFails wipes
\* the vectors of rows that stay), the document listed is searchable.
ListedIsSearchable ==
    \A t \in Tenants, f \in Filenames :
        /\ Settled(t, f, {"done", "rejected", "undone"})
        /\ failures > 0 => \A r \in Requests : args[r].kind # "clear"
        => Ids(t, f) \subseteq Docs(t, f)

\* After an ingestion whose cleanup failed ("Document metadata was saved, but
\* obsolete vector cleanup failed; retry cleanup."), a successful ingestion of the
\* file, the only retry the API has, leaves only its own vectors under the name.
RetryCleansUp ==
    \A t \in Tenants, f \in Filenames :
        Settled(t, f, {"done", "saved"})
        => \A id \in Ids(t, f) : pc[id] = "done" => Docs(t, f) \subseteq {id}

\* Every request that starts ends, and its tenant's lock is free again: nobody
\* waits for ever behind an advisory lock.
EveryRequestEnds ==
    /\ \A r \in Requests : pc[r] # "idle" ~> pc[r] \in Ended
    /\ \A t \in Tenants : lock[t] # None ~> lock[t] = None

-----------------------------------------------------------------------------
(* The list of documents as its clients see it.                            *)

\* What the client of a request can tell: that it is under way, before or after the step
\* that takes effect, or which answer it got.  An upload over quota is answered 400, a
\* deletion that has found nothing or met an error in the database 404, every other
\* error 500; a request that crashed has no answer, which tells as little as a 500.
StatusAt(kind, label) ==
    CASE label = "idle" -> "none"
      [] label \in {"prechecked", "upsert", "record", "commit", "undoQuota",
                    "undoFailure", "delRows", "clearRows"} -> "open"
      [] label \in {"undoCommitted", "cleanup", "bump", "delVectors", "clearVectors"} ->
            "past"
      [] label = "done" -> "ok"
      [] label \in {"rejected", "unclean"} /\ kind = "ingest" -> "refused"
      [] label \in {"rejected", "missed"} /\ kind = "delete" -> "missing"
      [] OTHER -> "failed"

Status == [r \in Requests |-> StatusAt(args[r].kind, pc[r])]
Seen == [r \in Requests |-> IF pc[r] \in {"delRows", "clearRows"} THEN victims[r] ELSE {}]

\* The step that takes effect on the list is the COMMIT of an ingestion and the
\* DELETE of a deletion or a clear.
Promise == INSTANCE Catalogue
    WITH Asks <- Args, listed <- rows, asked <- args, seen <- Seen, status <- Status

\* The three stores behind the API implement its catalogue: every request changes
\* the list of documents in a single step or not at all, and a replacement takes the
\* place of whatever has its name at that instant, within the quota.  A client that is
\* answered success by an ingestion or a deletion can rely on it, and so can one whose
\* ingestion is refused with a 400; a 404 and "cleared" promise nothing, since an error
\* of the database ends in the same answer.
ImplementsCatalogue == Promise!Spec

-----------------------------------------------------------------------------
(* The inductive invariant behind OneRowPerFile, DocumentQuota and         *)
(* LiveVectorsStay.                                                        *)

IngestArgs == [kind : {"ingest"}, tenant : Tenants, filename : Filenames,
               size : Sizes, alone : BOOLEAN]
Ingesting == {"prechecked", "upsert", "record", "commit", "undoQuota", "undoFailure",
              "undoCommitted", "cleanup"}
\* Where a request may be whose document has, or had, a row.
Recorded == {"undoCommitted", "cleanup", "bump", "done", "saved", "failed", "crashed"}

\* What a request was asked to do fits where it is.
ArgsFit ==
    \A r \in Requests :
        /\ pc[r] \in Working => args[r].tenant \in Tenants
        /\ pc[r] \in Ingesting => args[r] \in IngestArgs
        /\ pc[r] = "delRows" => args[r].kind = "delete"
        /\ pc[r] \in {"clearRows", "clearVectors"} => args[r].kind = "clear"

\* Rows and points are those of the request whose id they carry.
RowOwner ==
    \A row \in rows : row = NewRow(row.id) /\ pc[row.id] \in Recorded
PointOwner ==
    \A v \in vectors :
        v = NewPoint(v.doc) /\ pc[v.doc] \notin {"idle", "prechecked", "upsert"}

\* A DELETE finds rows of its own tenant.  An open transaction holds its tenant's
\* lock, and its DELETE found every row of its name: none can have been added since.
LockHeld ==
    \A r \in Requests :
        /\ victims[r] # {} => pc[r] \in {"commit", "delRows", "clearRows"}
        /\ \A row \in victims[r] : row.tenant = args[r].tenant
        /\ pc[r] = "commit" =>
              /\ lock[args[r].tenant] = r
              /\ FileRows(args[r].tenant, args[r].filename) \subseteq victims[r]
              /\ \A row \in victims[r] : row.filename = args[r].filename

\* The previous document is an older one of the same file, and is listed no
\* longer when its vectors are about to be deleted.
PrevGone ==
    \A r \in Requests :
        /\ prev[r] # None =>
              /\ prev[r] # r
              /\ pc[prev[r]] \in Recorded
              /\ args[prev[r]].tenant = args[r].tenant
              /\ args[prev[r]].filename = args[r].filename
        /\ pc[r] = "idle" => prev[r] = None
        /\ pc[r] = "cleanup" =>
              /\ prev[r] # None
              /\ \A row \in rows : row.id # prev[r]

UniqueNames ==
    \A x, y \in rows : x.tenant = y.tenant /\ x.filename = y.filename => x = y

IInv == TypeOK /\ ArgsFit /\ RowOwner /\ PointOwner /\ LockHeld /\ PrevGone /\ UniqueNames

\* What the quota check of an open transaction has established stays true.
RoomReserved ==
    \A r \in Requests :
        pc[r] = "commit" =>
            Cardinality(TenantRows(args[r].tenant) \ victims[r]) + 1 <= MaxDocuments

QInv == IInv /\ IsFiniteSet(rows) /\ RoomReserved /\ DocumentQuota
=============================================================================
