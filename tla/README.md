# Verification of the multi-tenant agentic RAG platform

TLA+ models of the platform's backend (`src/app`), model-checked with TLC and, all but
their liveness, proved with TLAPS.  The backend is a FastAPI service that runs in several
replicas over three stores: PostgreSQL (document rows, users, chat checkpoints), Qdrant
(chunk vectors of all tenants in one collection) and Redis (response cache, ingestion
queue, rate limits, revoked tokens).  No transaction spans two stores.  Every handler is a
coroutine that may be interleaved, cancelled or killed at each `await`; that is where the
interesting behaviour of this code is, and what the modules describe.

## The system

| Component | State | Operations | What makes it correct | Where |
|---|---|---|---|---|
| Document store | `documents` rows, Qdrant points, `tenant_ver:<tenant>`, advisory lock per tenant | ingest, delete, clear | one row per file, quotas, rows and vectors agree, tenants apart | `DocumentStore`, `Catalogue` |
| Ingestion queue | lists `ingestion_jobs` and `ingestion_jobs:processing`, set `ingestion_jobs:leases`, payloads, statuses | upload, claim, reclaim, run, acknowledge | no job lost, duplicated or run by two workers as one attempt; every task gets a final status | `IngestionQueue` |
| Response cache and chat stream | `cache:<scope>:<query>` with a one-hour TTL | read epoch, look up, retrieve, generate, store | own tenant, user and thread only; nothing older than the last acknowledged write | `ChatCache`, `Conversation` |
| Agent graph | `AgentState` of a running stream, its checkpoint per thread | retrieve, grade, rewrite, generate | bounded rewrites, no decision on another question's state | `Conversation` |
| Chat history | LangGraph's tables of checkpoints | delete a thread, delete all of a user's | whole exchanges; what was cleared stays cleared | `Conversation` |
| Stream filter | `inside_think`, `think_buffer` of a stream | one chunk at a time, flush | visible text = text without `<think>` blocks, however it is cut | `ThinkFilter` |
| Rate limiter | `rate:<scope>:<subject>` counters | INCR, EXPIRE | the window of every counter ends | `ChatRequests` |
| Telemetry | active spans, ring of 500 traces | start, span, finalize, clear | a trace has its own request's spans, all of them, and its tenant's clear removes it | `ChatRequests` |
| Connection pool | 20 connections | borrow, return, time out | none lost, nobody waits for ever | `ChatRequests` |
| Accounts and tokens | `tenant_users`, `revoked_token:*`, cached user pages | login, lock-out, logout, provision, delete, list | guesses are bounded; revoked access stays refused | `Accounts` |
| OIDC key cache | signing keys, 900 seconds | refresh | no older keys over newer ones | not modelled |
| Start-up and migrations | `schema_migrations` | migrate | each version once | not modelled |
| Parser, guardrails, reranking, LLM client, audit, evaluation, configuration, dashboard, deployment | none | conversions, calls, logging | | not modelled |

How they interact: an upload goes either straight to `_process_document_ingestion` or
through the queue to a worker that calls the same function.  That function, the deletions
and the clears write to all three stores in turn and end by incrementing the tenant's cache
epoch.  A chat passes the rate limiter, reads that epoch and looks its answer up under a
key that contains it.  On a miss it borrows a connection for its checkpointer, the agent
graph restores the thread's history from its checkpoint, lists the tenant's documents over
a second connection, searches Qdrant and answers; the filter lets the visible part
through, and the answer is cached under the epoch read at the start.  A user who clears
history deletes the same checkpoints and increments the same epoch.  So the document store
is the centre, the cache depends on the order of its steps, the queue decides when, how
often and on which replica an ingestion runs, and streams share checkpoints, cache, pool
and telemetry.

What is hard to test here: two writes to one file between whose awaits anything may
happen; ids remembered across awaits; compensation after a partial failure, and replies
that are lost after the effect; a process that dies between two Redis commands; a lease
that runs out under a live worker; the order of "bump" and "store" between a write and a
chat; two streams of one thread, and a clear in the middle of them; tasks that outlive
their request; a tag cut in two.  `PROJECT.json` lists these hazards one by one, at their
lines, with the properties that would notice.

## Modules

| Module | Extends | Contents |
|---|---|---|
| `DocumentStore` | | handlers of `api/routes.py` over `database.py`, `db/qdrant.py` |
| `Catalogue` | | abstract specification of the list of documents |
| `DocumentStoreProofs` | `DocumentStore` | proofs: one row per file, quotas, action properties, the refinement of `Catalogue` |
| `DocumentFilesProofs` | `DocumentStoreProofs` | proofs: rows and vectors agree |
| `ChatCache` | `DocumentStore` | `chat_stream` and the cache functions of `redis_client.py`, composed with the store |
| `Conversation` | | `agents/graph.py`, checkpointer and chat history of `database.py`, the streams and clears of `api/routes.py` |
| `ThinkFilter` | | the chunk loop of `event_generator` in `api/routes.py` |
| `ChatRequests` | | a chat request in its process: `is_rate_limit_exceeded`, `core/tracing.py`, the pool of `database.py` |
| `IngestionQueue` | | queue functions of `redis_client.py`, worker loop and upload endpoint of `api/routes.py` |
| `TaskDelivery` | | abstract specification of the queue: delivery at least once |
| `Accounts` | | `core/auth.py` with the account endpoints of `api/routes.py`, `database.py`, `tenant_user.py` |
| `ChatCacheProofs` | `ChatCache`, `DocumentStoreProofs` | proofs: fresh answers |
| `ConversationProofs`, `ThinkFilterProofs`, `ChatRequestsProofs`, `IngestionQueueProofs`, `AccountsProofs` | each its module | proofs of that module's invariants, and of the refinement of `TaskDelivery` |
| `MC...` | each model | symmetry sets, constants and a view for TLC |

Definitions preceded by "Mutant:" are not part of the models.  Each is a plausible mistake
in the definition that follows; putting it in that definition's place makes TLC find one of
the properties violated, which shows that the property depends on the code it is about.

### DocumentStore

A request is an ingestion, a deletion or a clear.  `pc[r]` says before which `await` it
stands; one action takes it to the next:

| Code | Actions |
|---|---|
| `_process_document_ingestion`, `routes.py` 297-420 | `BeginIngest` (quota on current usage), `ReadPrevious`, `Upsert`, `RecordBegin`, `RecordCommit`, `CleanupPrevious`, `Bump`; on errors `Compensate` |
| `record_document`, `database.py` 187-237 | `RecordBegin` (advisory lock, usage, quota, DELETE), `RecordCommit` (INSERT, COMMIT, lock released) |
| `delete_document`, 701-717 | `BeginDelete` (the statement's snapshot), `DeleteRows`, `DeleteVectors`, `Bump` |
| `clear_all_documents`, 720-733 | `BeginClear`, `ClearRows`, `ClearVectors`, `Bump` |

Each of these calls has a `...Fails` action in which it raises, applied or not, followed by
what the handler does with the exception (a compensation, a 404, nothing at all).
Where a request has ended is told apart by answer and by what is left behind: `done`; `rejected`,
the quota or a deletion that found nothing; `unclean`, a rejected upload whose vectors could
not be taken away; `missed`, a deletion whose error reads as a 404; and what an error leaves
behind, `undone`, `saved` or `failed`.
`CommitReplyLost` is the COMMIT that went through although the connection broke.  `Crash` is
a process that dies and also a cancelled request: `CancelledError` passes every
`except Exception`.

PostgreSQL runs at READ COMMITTED.  `victims[r]` holds the rows a DELETE has found.  A DELETE
waits while an open transaction is about to delete one of its victims (`Waiting`), then
deletes what is left of them and never sees the row that replaced them.  The usage query and
the DELETE of `record_document` are one step: a deletion by another request between them
only lowers the usage, and has the same outcome as one before or after both.

One element of `vectors` stands for all points of a document: an upsert is one call, and a
filter on `doc_id` or `filename` selects all of a document's points or none.  A request's id
doubles as the uuid of its document.  Sizes are small numbers; empty uploads, which produce
no chunk and are rejected, are left out.  A file name is never the id of a document
(`NamesAssumption`): `extract_text` refuses a name without one of its extensions, and a uuid
has none.  (`delete_document` takes either.)  Roles do not influence what is written.

Overlapping writes to one file can leave rows and vectors apart (see the hazards), and the
code has no means against it.  `NoGhosts` and `ListedIsSearchable` therefore speak of files
whose writes did not overlap.  The observer `args[r].alone` says so: it is set when a
request begins while no other working request touches its files, so that of two requests
that overlap the later one is not alone.

### Catalogue

What a client may rely on without knowing the stores: each request changes the list of
documents in one step between its start and its answer, or not at all.  A deletion or a clear
removes what is left of the documents it found when it started.  What the client may conclude
depends on the answer it got:

| `Catalogue` | Answer in the code | `DocumentStore` | Means |
|---|---|---|---|
| "ok" of an ingestion | success | `done` | the document was put on the list |
| "ok" of a deletion | `deleted` | `done` | something was removed |
| "ok" of a clear | `cleared` | `done` | nothing: the error of its DELETE is swallowed (`database.py` 372-374) |
| "refused" | 400, over quota | `rejected`, `unclean` | the ingestion had no effect |
| "missing" | 404 of a deletion | `rejected`, `missed` | nothing: there was nothing to delete, or somebody else was faster, or the DELETE raised, applied or not (`database.py` 350-352, `routes.py` 713-714) |
| "failed" | 500, or none after a crash | `undone`, `saved`, `failed`, `crashed` | nothing |

`StatusAt` is this table, with "open" for the places before the step that takes effect and
"past" for those behind it, where a success can still turn into a failure.  The rest of the
mapping (`Promise` in `DocumentStore`): `listed` is `rows`, `asked` is `args`, `seen` is
`Seen`, the `victims` of open deletions and clears.  Everything else, the vectors, locks,
remembered ids, quota checks, compensations and bumps, is a step that `Catalogue` does not
see.  Two of its actions are there because of the code: `Skip`, the clear that goes on to
answer "cleared" although its DELETE raised, and in `Miss` the deletion that removed
something and yet answers 404.

### ChatCache

Chats are repetitions of one question by one user in one thread of each tenant, so that the
cache key differs by tenant and epoch only.  An answer is represented by the set of
documents it was generated from: all those a search could return at that moment.  The
observer `owed[c]` remembers what the API had acknowledged when chat `c` began: documents
whose ingestion was answered and which are still there (`current`), or have been removed by
an acknowledged request (`retired`).  A tenant with a bump that was lost is owed nothing.
Generation, the conversation's history and the list of file names in the prompt are not part
of the answer here.

### Conversation

Streams and clears of several users.  A stream is `Begin` (epoch), `Hit` or `Miss`, `Load`
(checkpoint and inputs), the nodes `Retrieve`, `Grade` (with the edge `decide_to_generate`),
`Rewrite` and `Generate`, `Commit`, `Store` or `EndUnstored`; `StreamFails` is a call that
raises and a client that leaves.  A clear is `BeginClear`, `DeleteHistory` and `Bump`, each
of which may fail and is then logged and passed over.

The connections of the pool are not in autocommit mode.  So what a stream writes through
its checkpointer is one transaction, committed when `get_checkpointer` exits and rolled
back when anything raises; a COMMIT may go through although its reply is lost.  The latest
checkpoint of a thread is the one with the greatest id, and ids are ordered by time: of two
overlapping runs the one that *finished* later wins, whichever commits first (`finished`).
Of the state, a checkpoint keeps what the next question's inputs do not overwrite: the
messages, which are appended to, and `available_documents`.  (`is_relevant` comes back too,
but `grade` writes it before anything reads it.)

Questions are of five kinds, those that the comparisons in the nodes tell apart: "hi" is a
greeting to all of them, "how are you" to `retrieve` and `generate` but not to
`decide_to_generate`, "terms" has two words, "blank" is white space.  The outcome of a
search, of the grading heuristic or model and of a rewriting is a choice.  The observer
`read[s]` collects the streams whose messages `s` was shown, in its prompt or through a
cached answer; `fence` records what was cleared before a stream began.  The cache key's
digests are taken to be injective.

A tenant starts without an epoch key (`tenantVer` 0) or at epoch 1.  `CacheVersion` reads no
key as 1, and `Bumped` is INCR, which makes no key 1: a tenant's first bump changes nothing
that a stream could notice.  So what a tenant's first clear removed stays within reach in
the cache, for as long as nothing else has bumped the epoch.  `ClearedStaysCleared` exempts
exactly that: it speaks of every stream that has looked at the checkpoint, whatever the
epoch, and of answers from the cache under an epoch from the second on.

### ThinkFilter

Texts are sequences of characters, and one action is one turn of the `while think_buffer`
loop: `Within`, `Close`, `Open`, `Outside`.  The fragments of a chunk are yielded one by one
(`Show`), `Flush` shows what is left at the end, `Store` caches it, and `Fail` may happen at
every await and yield.  `received` is an observer of everything the model has sent;
`Visible`, a recursive function on texts, is what should be shown of a whole one.  Personal
data, which is redacted from each fragment, does not occur in the texts.

### ChatRequests

What a chat takes from the process it runs in.

* The rate limiter is a task of its own (`limiter[r]`): `Incr` and `SetExpiry` are two
  commands, and the task goes on when the request has been answered 400 for its text.
  `LimiterFails` raises before or after the effect; what `REQUIRE_REDIS` makes of that is
  left open.  `WindowEnd` is Redis dropping the key.
* Telemetry: `_active_spans` by trace id, which is the client's `X-Request-ID` when there is
  one, so that two requests may share it; the ring of finalized traces; `ClearTraces`.  A
  trace keeps whether its spans are exactly those of its request.  The span of `rerank` runs
  inside that of `retrieve` and is counted with it.
* Whether the text of a request is legal is part of what it comes with (`Ask`), since
  `sanitize_prompt` is a function of the text.  An illegal one is refused whatever the
  limiter says; a legal one waits for the limiter and is admitted (`Admit`) or turned away.
* The pool: a stream holds one connection for its checkpointer (`Connect` to `Disconnect`),
  and `retrieve` waits for a task (`listing[r]`) that borrows another.  That task outlives
  its stream, and returns its connection, when the stream fails before it awaits the task;
  when the stream is cancelled at the `await`, the task is cancelled with it (`ListingLeft`).
  A wait ends with `PoolTimeout` only while no connection is free.
* `Crash` takes the process with all its requests, spans and traces; the counters are
  Redis's and stay.

### IngestionQueue

One action per Redis command or MULTI block.  `wpc[w]` is the place of a worker in
`claim_ingestion_job` (`scan`, `reclaim`, `unlist`, `requeue`, `pop`, `lease`),
`run_ingestion_worker` and `_run_async_ingestion` (`load`, `mark`, `run`, `complete`,
`fail`, `missing`, `ack`).  The ingestion itself, `Run`, succeeds or raises; which of the two
is left open.  A lease has no clock: it may expire at any time when nobody works under it
(`LeaseExpires`), and under a live worker at the price of a fault (`LeaseOutstayed`).
`Faults` selects the kinds of faults of a run, `MaxFaults` bounds their number and with it
the attempt counter of a job.  `requireRedis` is the setting that decides whether an
exception of Redis is re-raised; it is chosen in `Init`.  A command that raises may have been
applied, the SETEX of a status included (`SetStatusFails`).  The observers `ingested` and
`reported` record what has ever happened to a task.

`TaskDelivery` is what the endpoint promises of a task, without lists, leases and workers: it
waits, is taken out, may be put back, and leaves with its payload once its client was told a
final status; "completed" is told of stored documents only.  The mapping (`Place`) has a task
"waiting" when it is in `ingestion_jobs`, "out" when it has a lease or is in the hands of a
worker between two commands of a hand-over, and otherwise "new" or "gone", as it was pushed
or not.  A worker that was overtaken is not part of the mapping: it still stores, tells and
acknowledges, and the abstract `Finish` lets its acknowledgement drop the payload of a
reported task but neither take a waiting retry away nor bring back a task that is gone.
`ImplementsDelivery` states the refinement.  It holds where workers crash with a lease or
outstay it; a shutdown, an error of Redis or a crash in the window between two commands each
violates it in a few steps, as the losses named below say.

### Accounts

The users of one tenant.  A call is a login (`select`, `verify`) or a request with a token,
which passes `get_current_tenant_user` (`token`: decoding and Redis, `row`: the row in
`tenant_users`) before its handler acts (`act`).  A login is one transaction that holds its
user's row (`rowLock`) from the SELECT ... FOR UPDATE to the COMMIT; other logins of that user
and its deletion wait for the row, `CheckRow` does not.  A provisioning that raises may have
inserted the user (`ProvisionFails`).  Time is three events: a lock runs
out (`LockExpires`), a token reaches its last two seconds (`TokenWanes`), it expires.  A
revocation is stored for `max(1, int(expires_at - time.time()))` seconds, while the token is
accepted until the whole second after `exp`: `RevocationEnds` may therefore precede
`TokenExpires`, by less than two seconds.  `wrong`, `loggedOut`, `gone` and `fence` are
observers: the wrong passwords answered since the last reset, what was acknowledged, and what
of it held when a request began.  `is_active` is always TRUE, because nothing clears it.  Of
the three roles two are kept: the code tells administrators from the others only.  The
cached page of users, self-registration and OIDC are not modelled.

## What TLC checks

| Run | Bounds | Distinct states | Shows |
|---|---|---|---|
| `docstore_race` | 3 requests, 2 tenants, 3 files, sizes 1 and 2, quota 2 documents and 3 bytes, 1 failure | 251,425 (up to symmetry) | `OneRowPerFile`, `DocumentQuota`, `StorageQuota`, `NoGhosts`, `ListedIsSearchable`, `LiveVectorsStay`, `TenantIsolation`, the refinement `ImplementsCatalogue`, types |
| `docstore_ends` | 3 requests on one file, 1 failure | 131,291 | `EveryRequestEnds` |
| `queue_all` | 2 tasks, 2 workers, 3 faults of any kind, both settings of `REQUIRE_REDIS` | 1.40 million (up to symmetry) | `OneEntryPerTask`, `AttemptExclusive`, types |
| `queue_crash` | 2 tasks, 2 workers, 2 crashes or outstayed leases | 158,619 | `AccountedFor`, `EveryTaskReported`, `QueueDrains`, the refinement `ImplementsDelivery` |
| `cache_fresh` | 3 writes, 2 chats, 1 tenant, 1 failure | 1.16 million (up to symmetry) | `FreshFromSecondEpoch`, types |
| `accounts_access` | 4 calls, 2 users, 2 attempts, 1 failure, both settings of `REQUIRE_REDIS` | 1.19 million (up to symmetry) | `GuessesBounded`, `LockOutlasts`, `RefusedAfterLogout`, `RefusedAfterDeletion`, types |
| `conversation_chats` | 2 streams, 1 clear, 2 tenants with 2 users and 2 threads each, questions "how are you" and "question", 1 failure; tenants without an epoch key, or at epoch 1 | 2.45 million (up to symmetry) | `OwnScopeOnly`, `RewriteBounded`, `WholeExchanges`, `ClearedStaysCleared`, types |
| `think_filter` | answers of up to 5 chunks out of 10: whole tags, tags cut at four places, text | 871,357 | `ShownIsVisible`, `PromptlyShown`, `CachedIsWhole`, the size of the buffer |
| `chat_requests` | 3 requests: two of one tenant and a refused one of another, pool of 2, ring of 2, limit 1, 1 failure or crash, 1 clear of telemetry | 702,970 | `ConnectionsKept`, `OwnSpans`, `SpansReleased`, `RecentTraces`, `WindowsEnd`, `EveryRequestEnds`, types |

Why these bounds.  A replacement race needs two ingestions and a document to replace, or an
ingestion, a replacement and a deletion, hence three requests; the quotas of 2 documents and
3 bytes are reached by two uploads, so that the third one meets the limit, which takes a
third file name, or replaces something.  A stale answer at an epoch of 2 or more needs two
writes to get there and a third one to become stale, and two chats, one that stores and one
that is served.  A lease is fought over by two workers, with a second task to interleave;
three faults allow a crash, a second crash of the reclaiming worker and an error of Redis.
One failure per behaviour of the store is enough for every error path, a failing
compensation included (it may follow a quota rejection, which is no failure), but not for
two in a row.  Three logins at a time exceed a lock-out of two attempts unless they wait for
each other, and the deletion of a user takes four calls: its login, an administrator's, the
deletion, and the request that must be refused.

One stream makes a history and the other one reads it, or they overlap in one thread; the
clear may come before, between and within them.  Two names that exist in both tenants and
two threads that exist for each user make all confusions of scope possible.  "how are you"
is the greeting on which the nodes disagree, "question" the only kind that can be
rewritten, and the other kinds differ in fewer decisions.  The longest tag has eight
characters: it is in at most four of the pieces at hand, and the fifth chunk is text
before, after or within.  `MCSpec` meets each setting of
`ENABLE_QUERY_REWRITE` with one of the two starts of a tenant: the setting has no part in the
cache, nor the epoch in the graph.

Two streams on a pool of two are the smallest case of everybody holding one connection and
waiting for another.  A ring of two holds two traces, in their order, and is full at the
third, which a third request makes; a clear of either tenant leaves one of them at most, so
that the order a clear keeps among several is the proof's (`NewestAreKept`).  A limit of one
is exceeded by the second request of a tenant; the third request is of another tenant and
has an illegal text, so that its limiter outlives it, and the trace id of the first (`MCAsks`).

Symmetry is used in runs of safety and action properties only.  `cache_fresh` uses a view
that ignores the observer `alone`, on which neither the chats nor the properties of that run
depend.  Deadlock is checked in the queue, whose workers never stop.  It is not in the other
modules, where every request may have ended.

Fairness.  `EveryRequestEnds` of `DocumentStore` assumes weak fairness of the successful step
of each request (`Step`): store calls return or raise, and the event loop resumes whoever
waits.  That of `ChatRequests` assumes the same of each request with its two tasks,
including the pool's timeout for one who waits.  Starting a request, failing, crashing,
leaving and clearing are not assumed.  The queue assumes weak fairness of each worker's own
steps, that is, of the loop `while True` in `run_ingestion_worker` including the restart of
a stopped process by the platform, and that an abandoned lease runs out in time.  Nobody has
to upload anything.

### Disagreements between the code and what it says of itself

Three runs end in a violation, each of a sentence in the repository:

* `docstore_retry` (`RetryCleansUp`): after "Document metadata was saved, but obsolete vector
  cleanup failed; retry cleanup." nothing can be retried.  A repeated upload remembers the
  new document as the previous one, and the vectors of the old one stay searchable.
* `queue_shutdown` (`AckedIsFinished`): a worker cancelled at shutdown acknowledges, in its
  `finally` block, the job it was working on; the upload is lost.
* `cache_first` (`FreshAlways`): a tenant without an epoch key is at epoch 1, and its first
  increment makes it 1.  Answers cached before the first write survive it.  The first clear of
  a tenant is no better off, against "invalidate cache for a specific thread"
  (`routes.py` 907): `ClearedStaysCleared` exempts epoch 1.

Further observations, which the properties make exceptions of or leave alone:

* a worker that dies between BRPOPLPUSH and ZADD leaves its job in the processing list
  without a lease, where no reclaim pass looks (the fault "window" of `IngestionQueue`;
  `AccountedFor` holds without it only);
* the queue is last-in first-out, and a failing write of "completed" turns it into "failed";
* overlapping writes to one file can leave a listed document without vectors, and a clear
  whose DELETE raises wipes the vectors, keeps the rows and answers "cleared";
* a stream that is running while its history is deleted brings the whole old conversation
  back with its own commit, and of two overlapping streams of one thread the one that
  finishes first is lost from the history;
* a lost EXPIRE, or a crash before it, leaves a rate counter that never runs out;
* a rate-limited chat, and one whose client leaves before its stream begins, keeps its entry
  in `_active_spans` for the life of the process; requests with the same `X-Request-ID` mix
  their spans;
* the list of users is cached for 60 seconds, its docstring says 30.

## What is proved

All theorems hold for any number of requests, tenants, users, files, workers, chats and
failures, that is, for every value of the constants that the `ASSUME`s of the models allow.
These say that requests and calls are finitely many, that quotas, sizes, limits and pools
are numbers, that `None` and its like are none of the values beside which they occur, and
that file names and document ids are distinct.  Two theorems have a hypothesis on the faults;
it is stated with them.

Each proof follows the next-state relation: one step per action, and under it one per
conjunct where an action can disturb several.  What a handler leaves alone is stated once per
module (`RequestFrame` and its like), what it does to one piece of state in lemmas such as
`RowsChange`, `PoolMoves` or `TelemetryMoves`.  The rest of this section says which
inductive invariant each module needs, and why.

### DocumentStoreProofs

`TypeCorrect`, `OneRow` (`OneRowPerFile`), `QuotaTheorem` (`DocumentQuota`), `StorageTheorem`
(`StorageQuota`), `LiveVectors` (`LiveVectorsStay`), `Isolation` (`TenantIsolation`).

`OneRowPerFile` is not inductive.  An insertion keeps it only because the DELETE of the same
transaction has found every row of that name, and still has when the INSERT runs: nobody
else can insert meanwhile.  That is `LockHeld`: an open transaction holds its tenant's lock
and its `victims` contain all rows of its name.  `RowOwner` and `PointOwner` tie rows and
points to the request whose id they carry.  `PrevGone` is the heart of `LiveVectorsStay`: the
id a replacement remembers is that of an older document of the same file, and when the
cleanup is about to delete its vectors no row has that id any more, because the transaction's
victims included it or somebody had removed it before, and an id never comes back.

For the quotas, `RoomReserved` says what the check establishes: without the victims there is
room for one more document, and while the lock is held rows of that tenant only disappear.
`StorageReserved` says the same of bytes.  Those are a sum over a set, defined by a fold.
That the fold's recursion has a solution, does not depend on where it began, and counts each
row once (`SumsExist`, `SumsAgree`, `BytesAdd`, `BytesUnion`, `BytesMonotone`) would be
inductions on the size of the set.  They are proved from the least-number principle instead:
a smallest counterexample contains a smaller one.  `LeastNatural` derives it from the
library's theorem that `<` on the naturals is well-founded.

`CatalogueTheorem` (`ImplementsCatalogue`): the document store implements `Catalogue`.  Every
step is mapped to a step of `Catalogue` or a stutter.  `QInv` is what makes the difficult one, the commit of an
ingestion, a `Put`: by `LockHeld` the rows it replaces are exactly those of its name, and by
`RoomReserved` the list stays within the quota.  `Moved` and `Hidden` treat the steps that
change at most a status, `BeginCatalogue` the ways a request can start, `CommitCatalogue` the
commits and `RemoveCatalogue` the deletions and clears; `StepCatalogue` puts them together.

### DocumentFilesProofs

`NoGhostsAreLeft` (`NoGhosts`) and `ListedIsFound` (`ListedIsSearchable`), which speak of files
written one request at a time.  By `OneWriter` at most one request that found a file alone is
writing to it.  So the rows and the vectors of a file can be compared by looking at that
request only: `SweptBy` says for each of its places which vectors may lack a row (its own
before the commit, the replaced document's after it), `FoundBy` which rows may lack vectors
(those it is about to delete or replace).  When it ends, nothing of the difference is left.
A request that does not touch a file changes neither its rows nor its vectors (`Untouched`).
This needs `DeletesFit`, that a deletion found rows of one name only, the one whose vectors it
then deletes.

### ChatCacheProofs

`ChatTypeCorrect` (`ChatTypeOK`) and `CachedAnswersAreFresh` (`FreshFromSecondEpoch`).  An answer
is stored under the epoch that its chat read before its search, so the argument is about
what may happen to the vectors within one epoch.  `Counted`: an epoch is at most the number of
requests of its tenant that are done.  Hence, when a write is acknowledged and its bump was
not lost, the epoch has moved on.  `Epochs`: nothing is cached, or on its way there, under an
epoch to come.  `Faithful`: as long as its epoch lasts, an answer agrees with the vectors on
every finished document, except for documents that an unfinished request has taken away,
which therefore has its own bump before it.  `Settlement` and `Agrees` relate this to what was
acknowledged when another chat began: what it is owed is finished, what was retired does not
come back, and every answer it could find has the one and not the other.  At epoch 1 the
argument fails, as the code does (`cache_first`).

### ConversationProofs

`TypeCorrect`, `ConversationsAreApart` (`OwnScopeOnly`), `LoopIsBounded` (`RewriteBounded`),
`HistoryIsWhole` (`WholeExchanges`), `ClearIsFinal` (`ClearedStaysCleared`).  `Scopes`: what a
stream reads, holds, or has left in a checkpoint was said by streams of its own user and
thread, and `Stored`: a cache entry is the one its stream has stored, under its own key.
`Exchanges`: a running stream holds whole exchanges and one open question, its own.
`Rewrites` follows `rewrite_count` through the loop; the counter alone does not bound it for a
greeting, whose case needs `available_documents` and the query.  `Clean` is the invariant of
clears: after the deletion nothing of the streams behind the fence is in the thread's
checkpoint or in a stream that will commit (`Free`), and after the bump nothing of them is
cached under the current epoch or will be (`Fresh`), if that is the second or a later one.
The theorem is about every tenant, without an epoch key or with one; what it does not
promise is the cache at epoch 1.

### ThinkFilterProofs

`TypeCorrect`, `VisibleIsShown` (`ShownIsVisible`), `ShownPromptly` (`PromptlyShown`) and
`WholeIsCached` (`CachedIsWhole`), for streams of any length, in chunks of any content.
That what was shown is a prefix of what is visible of what came in is not inductive: whether
"<thi" is visible depends on what follows.  The invariant therefore speaks of every text that
may still follow (`Continues`): what is visible of the whole stream is what was shown, then
the fragments, then what is visible of the buffer with that text after it (`Rest`, which is
`Visible` outside of the reasoning and `Hidden` within).  Each turn of the loop keeps this by
one equation, for all texts: `ClosingTag`, `OpeningTag`, `StillHidden` and `StillVisible`.  In
the last two are the numbers of the code: a tag that is not in the buffer starts, at the
earliest, seven characters (`</think>`) or six (`<think>`) before its end (`LateTag`).  Hence
`Short`, and at the end of the stream a buffer too short for a tag is visible as it is
(`Waiting`).  `Adds` says what the fragments not yet yielded add to what was shown.

That the recursion of `Visible` has a solution (`SolvesExists`, `SolvesAgree`,
`VisibleSolves`), and that it yields texts (`VisibleText`), would again be inductions, on the
length of a text, and are proved from the least-number principle: a shortest text at which
they fail refers to shorter ones only.

### ChatRequestsProofs

`TypeCorrect`, `PoolIsKept` (`ConnectionsKept`), `SpansAreApart` (`OwnSpans`), `SpansAreReleased`
(`SpansReleased`), `LimitsRunOut` (`WindowsEnd`), `NewestAreKept` (`RecentTraces`).
`ConnectionsKept` is a sum of a number and two cardinalities; `PoolMoves` lists the five ways a
step may change it, `OneComesOrGoes` what that does to a cardinality.  `Alike` makes `OwnSpans`
inductive: the active spans under an id that a request shares with nobody are those it has
made.  For `RecentTraces`, `RingIInv` adds that who finalized a trace has ended and cannot do
so again, that a trace is of its request's tenant (the clear goes by one, the observer by the
other), and that a trace's place in the log is not nearer to its head than its place in the
ring; otherwise the trace that falls off a full ring might still be one of the newest.
`OthersAreLeft` says what clearing leaves of the ring; it is an induction along the ring, by
the least-number principle.

### IngestionQueueProofs

`TypeCorrect`, `NeverDuplicated` (`OneEntryPerTask`) and `NeverShared` (`AttemptExclusive`), whatever
fails; `PayloadKept` (`AckedIsFinished`) when the only faults are crashes, the window between
two commands and slow workers; `NeverLost` (`AccountedFor`) when they are crashes and slow
workers.  These two hypotheses are the finding: a shutdown falsifies the first (`queue_shutdown`) and a
crash in the window the second.  A job is identified by its attempt, and `OneLive` says that of a
task one attempt at most can still get back into the queue; `WaitingAlone`, `Handover` and
`Holders` say where that one is, between any two commands of a reclaim; `Older` that a worker
that was overtaken holds an older attempt, so that its acknowledgement removes nothing of the
new one; `Counted` that each attempt follows a fault.

`DeliveryTheorem` (`ImplementsDelivery`), under the hypothesis of `NeverLost`, maps each step of
the queue to a step of `TaskDelivery` or to none: a pop is `Take`, the RPUSH of a reclaim
`Retry`, an acknowledgement `Finish`, and ZREM, LREM and ZADD are none, since the task stays
"out" from its lease to a worker's hands and back.  `PlaceIs` says what the mapping is in terms
of the invariant, `OutIsNotWaiting` that its cases exclude each other (from `OneLive` and
`WaitingAlone`), `OneMoves` and `NoneMoves` which tasks a step moves.  Two additions to the
invariant are needed: `Acked`, that who acknowledges has reported, and `Stored`, that who is
about to report "completed" has stored the document.

### AccountsProofs

`TypeCorrect`, `GuessesAreBounded` (`GuessesBounded`), `LocksOutlastLogins` (`LockOutlasts`),
`LogoutIsEffective` (`RefusedAfterLogout`), `DeletionIsEffective` (`RefusedAfterDeletion`).  `Rows`: a
login between its SELECT ... FOR UPDATE and its COMMIT holds its user's row, which was not
locked out.  With it, `Guesses`: the counter of an account is ahead of the answers given, so
that the account is locked in time.  `Revocations`: a token that was logged out stays revoked
until it is about to expire, as long as revocations are written and read.  `Deletions`: who is
gone has no row until he is provisioned again, and a request that began after his deletion
does not find one.

### Only model-checked

* `EveryRequestEnds` (of the store and of the requests), `EveryTaskReported`, `QueueDrains`:
  liveness, which rests on fairness and ENABLED.
* `RetryCleansUp`, `FreshAlways`, and `AckedIsFinished` under shutdown, which are false.

## Not modelled

* OIDC signing keys: a cache with a lifetime of 900 seconds.  Concurrent refreshes may
  overwrite newer keys by older ones, and tokens of a new key are refused until the lifetime
  is over; no sentence of the repository promises otherwise.
* Start-up and migrations: each statement can be repeated without harm, so an interrupted
  migration is completed by the next start.  Of two replicas that start at once the second
  one's INSERT into `schema_migrations` fails and that replica does not start; what the
  concurrent CREATE and ALTER statements do is PostgreSQL's.
* Of the accounts: the cached page of users (only what is displayed is stale),
  self-registration (off in production) and OIDC logins.
* Of telemetry: the export to Langfuse and the metrics computed from the ring.
* Of the pool: its other users, who hold one connection for one statement.
* The 24-hour lifetime of payloads and statuses, and the limits of uploads and logins, which
  call the function that `ChatRequests` models for chats.
* Parser, guardrails, reranking and LLM client, audit log, evaluation, configuration:
  conversions, external calls with a fallback, logging; no state that changes over time.
  What they answer is a choice where a model needs it.
* The dashboard and the deployment files: clients of the API.

## Plan

The cached page of users in `Accounts`: what is left of the parts modelled only partly that
keeps state of its own.
