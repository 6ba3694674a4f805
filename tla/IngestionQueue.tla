--------------------------- MODULE IngestionQueue ---------------------------
(***************************************************************************)
(* The durable ingestion queue of app/redis_client.py and the worker loop  *)
(* of app/api/routes.py.  A job travels from the list ingestion_jobs to    *)
(* the list ingestion_jobs:processing; the sorted set                      *)
(* ingestion_jobs:leases says until when its worker may keep it.  Every    *)
(* backend process runs one worker and serves the API.                     *)
(*                                                                         *)
(* One action per Redis command (or MULTI block) and per run of the        *)
(* ingestion pipeline.  What can go wrong is budgeted by MaxFaults and     *)
(* selected by Faults:                                                     *)
(*   "crash"     a worker dies with a lease in its hands, or idle          *)
(*   "window"    a worker dies between two commands of a hand-over         *)
(*   "shutdown"  the lifespan handler cancels the worker                   *)
(*   "slow"      a live worker outstays its lease                          *)
(*   "error"     a Redis call raises, applied or not                       *)
(***************************************************************************)
EXTENDS Integers, Sequences, FiniteSets, SequencesExt

CONSTANTS
    Tasks,            \* task ids (uuid4 of an upload)
    Workers,          \* backend processes
    Faults,           \* kinds of faults to consider
    MaxFaults,        \* bound: faults over a behaviour
    RedisSettings,    \* values of settings.REQUIRE_REDIS to consider
    NoJob             \* a worker with empty hands

ASSUME FaultsAssumption ==
    Faults \subseteq {"crash", "window", "shutdown", "slow", "error"} /\ MaxFaults \in Nat
ASSUME SettingsAssumption == RedisSettings \subseteq BOOLEAN
ASSUME NoJobAssumption == NoJob \notin [task : Tasks, attempt : 0..MaxFaults]

VARIABLES
    requireRedis,     \* settings.REQUIRE_REDIS of this deployment
    api,              \* how far the upload request of each task is
    status,           \* ingestion_task:<task>: the status a client polls
    payload,          \* tasks whose ingestion_payload:<task> exists
    queue,            \* ingestion_jobs, head to tail
    processing,       \* ingestion_jobs:processing
    leases,           \* ingestion_jobs:leases
    expired,          \* leases whose score has passed
    wpc,              \* where each worker is in its loop
    job,              \* the job in each worker's hands
    stale,            \* the expired leases its reclaim pass has yet to visit
    ingested,         \* observer: tasks whose document the pipeline stored
    reported,         \* observer: tasks that ever had a final status
    faults

vars == <<requireRedis, api, status, payload, queue, processing, leases, expired,
          wpc, job, stale, ingested, reported, faults>>
redis == <<status, payload, queue, processing, leases, expired>>
worker == <<wpc, job, stale>>
observers == <<ingested, reported>>

\* A reclaimed job is pushed with attempt + 1; each reclaim follows a fault.
Job == [task : Tasks, attempt : 0..MaxFaults]

ApiLabels == {"none", "accepted", "queued", "refusing", "cleaning", "refused"}
\* Labels at which a worker owns its job through a lease, and the others.
Leased == {"load", "mark", "run", "complete", "fail", "missing", "ack", "ackStop"}
Unleased == {"lease", "unlist", "requeue"}
Labels == {"scan", "reclaim", "pop", "down"} \cup Unleased \cup Leased
Final == {"completed", "failed"}

TypeOK ==
    /\ requireRedis \in RedisSettings
    /\ api \in [Tasks -> ApiLabels]
    /\ status \in [Tasks -> {"none", "processing"} \cup Final]
    /\ payload \subseteq Tasks
    /\ queue \in Seq(Job)
    /\ processing \subseteq Job
    /\ leases \subseteq Job
    /\ expired \subseteq leases
    /\ wpc \in [Workers -> Labels]
    /\ job \in [Workers -> Job \cup {NoJob}]
    /\ \A w \in Workers : job[w] = NoJob <=> wpc[w] \in {"scan", "reclaim", "pop", "down"}
    /\ stale \in [Workers -> SUBSET Job]
    /\ ingested \subseteq Tasks
    /\ reported \subseteq Tasks
    /\ faults \in 0..MaxFaults

Init ==
    /\ requireRedis \in RedisSettings
    /\ api = [t \in Tasks |-> "none"]
    /\ status = [t \in Tasks |-> "none"]
    /\ payload = {}
    /\ queue = <<>>
    /\ processing = {}
    /\ leases = {}
    /\ expired = {}
    /\ wpc = [w \in Workers |-> "scan"]
    /\ job = [w \in Workers |-> NoJob]
    /\ stale = [w \in Workers |-> {}]
    /\ ingested = {}
    /\ reported = {}
    /\ faults = 0

Fault(kind) ==
    /\ kind \in Faults
    /\ faults < MaxFaults
    /\ faults' = faults + 1

First(t) == [task |-> t, attempt |-> 0]

SetStatus(t, s) ==
    /\ status' = [status EXCEPT ![t] = s]
    /\ reported' = IF s \in Final THEN reported \cup {t} ELSE reported

\* The SETEX raises, applied or not.
SetStatusFails(t, s) ==
    /\ Fault("error")
    /\ SetStatus(t, s) \/ UNCHANGED <<status, reported>>

\* Mutant: json.dumps encodes the job differently and LREM finds nothing.
AcknowledgeReencoded(j) ==
    /\ processing' = processing
    /\ leases' = leases \ {j}
    /\ expired' = expired \ {j}
    /\ payload' = payload \ {j.task}

\* acknowledge_ingestion_job: LREM, ZREM and DELETE in one MULTI block.
Acknowledge(j) ==
    /\ processing' = processing \ {j}
    /\ leases' = leases \ {j}
    /\ expired' = expired \ {j}
    /\ payload' = payload \ {j.task}

-----------------------------------------------------------------------------
(* The upload request: ingest_document_async.                              *)

ApiGoto(t, from, to) == api[t] = from /\ api' = [api EXCEPT ![t] = to]

Submit(t) ==
    /\ ApiGoto(t, "none", "accepted")
    /\ SetStatus(t, "processing")
    /\ UNCHANGED <<requireRedis, payload, queue, processing, leases, expired,
                   worker, ingested, faults>>

\* set_ingestion_task raises only where Redis is required.
SubmitFails(t) ==
    /\ ApiGoto(t, "none", IF requireRedis THEN "refused" ELSE "accepted")
    /\ SetStatusFails(t, "processing")
    /\ UNCHANGED <<requireRedis, payload, queue, processing, leases, expired,
                   worker, ingested>>

\* enqueue_ingestion_job: SETEX payload and RPUSH in one MULTI block.
Push(t) ==
    /\ payload' = payload \cup {t}
    /\ queue' = Append(queue, First(t))

Enqueue(t) ==
    /\ ApiGoto(t, "accepted", "queued")
    /\ Push(t)
    /\ UNCHANGED <<requireRedis, status, processing, leases, expired, worker,
                   observers, faults>>

EnqueueFails(t) ==
    /\ ApiGoto(t, "accepted", "refusing")
    /\ Fault("error")
    /\ Push(t) \/ UNCHANGED <<payload, queue>>
    /\ UNCHANGED <<requireRedis, status, processing, leases, expired, worker, observers>>

\* The client is told 503: the status becomes "failed" ...
RefuseStatus(t) ==
    /\ ApiGoto(t, "refusing", "cleaning")
    /\ SetStatus(t, "failed")
    /\ UNCHANGED <<requireRedis, payload, queue, processing, leases, expired,
                   worker, ingested, faults>>

RefuseStatusFails(t) ==
    /\ ApiGoto(t, "refusing", IF requireRedis THEN "refused" ELSE "cleaning")
    /\ SetStatusFails(t, "failed")
    /\ UNCHANGED <<requireRedis, payload, queue, processing, leases, expired,
                   worker, ingested>>

\* ... and the job is acknowledged, which takes nothing out of ingestion_jobs.
RefuseCleanup(t) ==
    /\ ApiGoto(t, "cleaning", "refused")
    /\ Acknowledge(First(t))
    /\ UNCHANGED <<requireRedis, status, queue, worker, observers, faults>>

RefuseCleanupFails(t) ==
    /\ ApiGoto(t, "cleaning", "refused")
    /\ Fault("error")
    /\ Acknowledge(First(t)) \/ UNCHANGED <<payload, processing, leases, expired>>
    /\ UNCHANGED <<requireRedis, status, queue, worker, observers>>

Request(t) ==
    \/ Submit(t) \/ Enqueue(t) \/ RefuseStatus(t) \/ RefuseCleanup(t)
    \/ SubmitFails(t) \/ EnqueueFails(t) \/ RefuseStatusFails(t) \/ RefuseCleanupFails(t)

-----------------------------------------------------------------------------
(* claim_ingestion_job, first half: reclaim_stale_ingestion_jobs.          *)

Goto(w, from, to) == wpc[w] = from /\ wpc' = [wpc EXCEPT ![w] = to]
Hold(w, j) == job' = [job EXCEPT ![w] = j]

\* Mutant: the scores are compared with the wrong bound.
ScanNothing(w) ==
    /\ Goto(w, "scan", "reclaim")
    /\ stale' = [stale EXCEPT ![w] = {}]
    /\ UNCHANGED <<requireRedis, api, redis, job, observers, faults>>

\* ZRANGEBYSCORE -inf now
Scan(w) ==
    /\ Goto(w, "scan", "reclaim")
    /\ stale' = [stale EXCEPT ![w] = expired]
    /\ UNCHANGED <<requireRedis, api, redis, job, observers, faults>>

\* Mutant: the result of ZREM is ignored.
TakeLeaseUnchecked(w) ==
    \E j \in stale[w] :
        /\ Goto(w, "reclaim", "unlist")
        /\ Hold(w, j)
        /\ stale' = [stale EXCEPT ![w] = @ \ {j}]
        /\ leases' = leases \ {j}
        /\ expired' = expired \ {j}
        /\ UNCHANGED <<requireRedis, api, status, payload, queue, processing,
                       observers, faults>>

\* ZREM: only one of several reclaiming workers gets a 1 back.
TakeLease(w) ==
    \E j \in stale[w] :
        /\ Goto(w, "reclaim", IF j \in leases THEN "unlist" ELSE "reclaim")
        /\ Hold(w, IF j \in leases THEN j ELSE NoJob)
        /\ stale' = [stale EXCEPT ![w] = @ \ {j}]
        /\ leases' = leases \ {j}
        /\ expired' = expired \ {j}
        /\ UNCHANGED <<requireRedis, api, status, payload, queue, processing,
                       observers, faults>>

Unlist(w) ==
    /\ Goto(w, "unlist", "requeue")
    /\ processing' = processing \ {job[w]}
    /\ UNCHANGED <<requireRedis, api, status, payload, queue, leases, expired,
                   job, stale, observers, faults>>

\* Mutant: the attempt is not counted.
RequeueUncounted(w) ==
    /\ Goto(w, "requeue", "reclaim")
    /\ queue' = Append(queue, job[w])
    /\ Hold(w, NoJob)
    /\ UNCHANGED <<requireRedis, api, status, payload, processing, leases, expired,
                   stale, observers, faults>>

Requeue(w) ==
    /\ Goto(w, "requeue", "reclaim")
    /\ queue' = Append(queue, [job[w] EXCEPT !.attempt = @ + 1])
    /\ Hold(w, NoJob)
    /\ UNCHANGED <<requireRedis, api, status, payload, processing, leases, expired,
                   stale, observers, faults>>

Reclaimed(w) ==
    /\ stale[w] = {}
    /\ Goto(w, "reclaim", "pop")
    /\ UNCHANGED <<requireRedis, api, redis, job, stale, observers, faults>>

\* A call of the pass raises; the hand-over in progress is forgotten.
ReclaimFails(w) ==
    /\ wpc[w] \in {"scan", "reclaim", "unlist", "requeue"}
    /\ Fault("error")
    /\ wpc' = [wpc EXCEPT ![w] = IF requireRedis THEN "scan" ELSE "pop"]
    /\ Hold(w, NoJob)
    /\ stale' = [stale EXCEPT ![w] = {}]
    /\ \/ UNCHANGED redis
       \/ /\ wpc[w] = "requeue"
          /\ queue' = Append(queue, [job[w] EXCEPT !.attempt = @ + 1])
          /\ UNCHANGED <<status, payload, processing, leases, expired>>
       \/ /\ wpc[w] = "unlist"
          /\ processing' = processing \ {job[w]}
          /\ UNCHANGED <<status, payload, queue, leases, expired>>
       \/ \E j \in stale[w] :
             /\ wpc[w] = "reclaim"
             /\ leases' = leases \ {j}
             /\ expired' = expired \ {j}
             /\ UNCHANGED <<status, payload, queue, processing>>
    /\ UNCHANGED <<requireRedis, api, observers>>

-----------------------------------------------------------------------------
(* claim_ingestion_job, second half: BRPOPLPUSH, then ZADD.                *)

\* RPUSH and BRPOPLPUSH work on the same end of the list.
Move(j) ==
    /\ queue # <<>> /\ j = Last(queue)
    /\ queue' = Front(queue)
    /\ processing' = processing \cup {j}

Pop(w) ==
    \E j \in Job :
        /\ Move(j)
        /\ Goto(w, "pop", "lease")
        /\ Hold(w, j)
        /\ UNCHANGED <<requireRedis, api, status, payload, leases, expired, stale,
                       observers, faults>>

PopTimesOut(w) ==
    /\ queue = <<>>
    /\ Goto(w, "pop", "scan")
    /\ UNCHANGED <<requireRedis, api, redis, job, stale, observers, faults>>

\* Any exception of the pop reads as "no job".
PopFails(w) ==
    /\ Goto(w, "pop", "scan")
    /\ Fault("error")
    /\ (\E j \in Job : Move(j)) \/ UNCHANGED <<queue, processing>>
    /\ UNCHANGED <<requireRedis, api, status, payload, leases, expired, job, stale,
                   observers>>

\* Mutant: no lease is taken.
LeaseOmitted(w) ==
    /\ Goto(w, "lease", "load")
    /\ UNCHANGED <<requireRedis, api, redis, job, stale, observers, faults>>

Lease(w) ==
    /\ Goto(w, "lease", "load")
    /\ leases' = leases \cup {job[w]}
    /\ UNCHANGED <<requireRedis, api, status, payload, queue, processing, expired,
                   job, stale, observers, faults>>

LeaseFails(w) ==
    /\ Goto(w, "lease", IF requireRedis THEN "scan" ELSE "load")
    /\ Fault("error")
    /\ Hold(w, IF requireRedis THEN NoJob ELSE job[w])
    /\ leases' \in {leases, leases \cup {job[w]}}
    /\ UNCHANGED <<requireRedis, api, status, payload, queue, processing, expired,
                   stale, observers>>

-----------------------------------------------------------------------------
(* run_ingestion_worker and _run_async_ingestion.                          *)

Load(w) ==
    /\ Goto(w, "load", IF job[w].task \in payload THEN "mark" ELSE "missing")
    /\ UNCHANGED <<requireRedis, api, redis, job, stale, observers, faults>>

Mark(w) ==
    /\ Goto(w, "mark", "run")
    /\ SetStatus(job[w].task, "processing")
    /\ UNCHANGED <<requireRedis, api, payload, queue, processing, leases, expired,
                   job, stale, ingested, faults>>

\* _process_document_ingestion stores the document or raises.
Run(w) ==
    /\ \/ Goto(w, "run", "complete") /\ ingested' = ingested \cup {job[w].task}
       \/ Goto(w, "run", "fail") /\ UNCHANGED ingested
    /\ UNCHANGED <<requireRedis, api, redis, job, stale, reported, faults>>

Complete(w) ==
    /\ Goto(w, "complete", "ack")
    /\ SetStatus(job[w].task, "completed")
    /\ UNCHANGED <<requireRedis, api, payload, queue, processing, leases, expired,
                   job, stale, ingested, faults>>

ReportFailure(w) ==
    /\ Goto(w, "fail", "ack") \/ Goto(w, "missing", "ack")
    /\ SetStatus(job[w].task, "failed")
    /\ UNCHANGED <<requireRedis, api, payload, queue, processing, leases, expired,
                   job, stale, ingested, faults>>

\* finally: acknowledge_ingestion_job(job)
Ack(w) ==
    /\ Goto(w, "ack", "scan") \/ Goto(w, "ackStop", "down")
    /\ Acknowledge(job[w])
    /\ Hold(w, NoJob)
    /\ UNCHANGED <<requireRedis, api, status, queue, stale, observers, faults>>

\* What an exception of each call leads to.  All of them end in the finally
\* block, with one detour: where Redis is required, an error of "completed", which may
\* have been set, is caught by _run_async_ingestion, which then reports "failed".
LoadFails(w) ==
    /\ Goto(w, "load", "ack")
    /\ Fault("error")
    /\ UNCHANGED <<requireRedis, api, redis, job, stale, observers>>

WorkFails(w) ==
    /\ \/ /\ Goto(w, "mark", IF requireRedis THEN "ack" ELSE "run")
          /\ SetStatusFails(job[w].task, "processing")
       \/ /\ Goto(w, "complete", IF requireRedis THEN "fail" ELSE "ack")
          /\ SetStatusFails(job[w].task, "completed")
       \/ /\ Goto(w, "fail", "ack") \/ Goto(w, "missing", "ack")
          /\ SetStatusFails(job[w].task, "failed")
    /\ UNCHANGED <<requireRedis, api, payload, queue, processing, leases, expired,
                   job, stale, ingested>>

AckFails(w) ==
    /\ Goto(w, "ack", "scan") \/ Goto(w, "ackStop", "down")
    /\ Fault("error")
    /\ Acknowledge(job[w]) \/ UNCHANGED <<payload, processing, leases, expired>>
    /\ Hold(w, NoJob)
    /\ UNCHANGED <<requireRedis, api, status, queue, stale, observers>>

-----------------------------------------------------------------------------
(* Time, crashes and shutdowns.                                            *)

Held(j) == \E w \in Workers : job[w] = j /\ wpc[w] \in Leased

\* The 900 seconds of an abandoned lease pass.
LeaseExpires(j) ==
    /\ j \in leases \ expired
    /\ ~Held(j)
    /\ expired' = expired \cup {j}
    /\ UNCHANGED <<requireRedis, api, status, payload, queue, processing, leases,
                   worker, observers, faults>>

\* They pass while a worker is still at it: a lease is never renewed.
LeaseOutstayed(j) ==
    /\ j \in leases \ expired
    /\ Held(j)
    /\ Fault("slow")
    /\ expired' = expired \cup {j}
    /\ UNCHANGED <<requireRedis, api, status, payload, queue, processing, leases,
                   worker, observers>>

\* Mutant: a restarted worker still believes it has its job.
HaltHolding(w) ==
    /\ wpc' = [wpc EXCEPT ![w] = "down"]
    /\ stale' = [stale EXCEPT ![w] = {}]
    /\ UNCHANGED <<requireRedis, api, redis, job, observers>>

Halt(w) ==
    /\ wpc' = [wpc EXCEPT ![w] = "down"]
    /\ Hold(w, NoJob)
    /\ stale' = [stale EXCEPT ![w] = {}]
    /\ UNCHANGED <<requireRedis, api, redis, observers>>

Crash(w) ==
    /\ wpc[w] # "down"
    /\ Fault(IF wpc[w] \in Unleased THEN "window" ELSE "crash")
    /\ Halt(w)

\* The lifespan handler cancels the worker at an await.  CancelledError passes
\* every "except Exception", but the finally block still acknowledges the job.
Shutdown(w) ==
    /\ Fault("shutdown")
    /\ \/ /\ wpc[w] \in Leased \ {"ack", "ackStop"}
          /\ wpc' = [wpc EXCEPT ![w] = "ackStop"]
          /\ UNCHANGED <<requireRedis, api, redis, job, stale, observers>>
       \/ /\ wpc[w] \in Labels \ (Leased \cup {"down"})
          /\ Halt(w)
       \/ /\ wpc[w] = "ack"
          /\ wpc' = [wpc EXCEPT ![w] = "down"]
          /\ Hold(w, NoJob)
          /\ Acknowledge(job[w]) \/ UNCHANGED <<payload, processing, leases, expired>>
          /\ UNCHANGED <<requireRedis, api, status, queue, stale, observers>>

\* The platform restarts a stopped process.
Restart(w) ==
    /\ Goto(w, "down", "scan")
    /\ UNCHANGED <<requireRedis, api, redis, job, stale, observers, faults>>

WorkerStep(w) ==
    \/ Scan(w) \/ TakeLease(w) \/ Unlist(w) \/ Requeue(w) \/ Reclaimed(w)
    \/ Pop(w) \/ PopTimesOut(w) \/ Lease(w)
    \/ Load(w) \/ Mark(w) \/ Run(w) \/ Complete(w) \/ ReportFailure(w) \/ Ack(w)
    \/ Restart(w)

WorkerFault(w) ==
    \/ ReclaimFails(w) \/ PopFails(w) \/ LeaseFails(w) \/ LoadFails(w) \/ WorkFails(w) \/ AckFails(w)
    \/ Crash(w) \/ Shutdown(w)

Next ==
    \/ \E t \in Tasks : Request(t)
    \/ \E w \in Workers : WorkerStep(w) \/ WorkerFault(w)
    \/ \E j \in Job : LeaseExpires(j) \/ LeaseOutstayed(j)

\* The loop of a worker runs on, a stopped process comes back, and the clock
\* passes every lease nobody holds.  Nobody has to upload anything.
Fairness ==
    /\ \A w \in Workers : WF_vars(WorkerStep(w))
    /\ \A j \in Job : WF_vars(LeaseExpires(j))

Spec == Init /\ [][Next]_vars /\ Fairness

-----------------------------------------------------------------------------
(* Properties                                                              *)

Queued(t) == {i \in DOMAIN queue : queue[i].task = t}
Listed(t) == {j \in processing : j.task = t}

\* Whatever fails, a task is never twice in the two lists together: racing
\* reclaim passes, late acknowledgements and lost replies never duplicate a job.
OneEntryPerTask ==
    \A t \in Tasks : Cardinality(Queued(t)) + Cardinality(Listed(t)) <= 1

\* Whatever fails, no two workers ever work on the same attempt of a task, so an
\* acknowledgement never takes away the entry and lease of another worker.
AttemptExclusive ==
    \A v, w \in Workers :
        /\ v # w
        /\ {wpc[v], wpc[w]} \subseteq Leased \cup {"lease"}
        => job[v] # job[w]

\* A task the API took in ("Claim one ingestion job and create a lease that can be
\* reclaimed after a crash") is never lost before it has a final status: it is
\* queued, or leased, or in the hands of a live worker.
AccountedFor ==
    \A t \in Tasks :
        api[t] = "queued" /\ t \notin reported =>
            \/ Queued(t) # {}
            \/ \E j \in leases : j.task = t
            \/ \E w \in Workers : job[w] # NoJob /\ job[w].task = t

\* A payload is dropped only when its job is finished ("Remove a completed
\* ingestion job and its payload from Redis"): a later attempt of an unfinished
\* task always finds it.
AckedIsFinished ==
    \A t \in Tasks : api[t] = "queued" /\ t \notin payload => t \in reported

\* Every task the API took in gets a final status, whichever workers crash with a
\* lease in their hands or outstay it.
EveryTaskReported == \A t \in Tasks : api[t] = "queued" ~> t \in reported

\* Duplicate attempts included, the lists become empty again.
QueueDrains == <>[](queue = <<>> /\ processing = {})

-----------------------------------------------------------------------------
(* A task as its client sees it.                                           *)

\* A worker has the task, under a lease or between two commands of a hand-over.  One
\* that was overtaken does not count.
Out(t) ==
    \/ \E j \in leases : j.task = t
    \/ \E w \in Workers : wpc[w] \in Unleased /\ job[w].task = t

PlaceOf(t) ==
    CASE Queued(t) # {}                    -> "waiting"
      [] Queued(t) = {} /\ Out(t)          -> "out"
      [] OTHER -> IF api[t] \in {"none", "accepted"} THEN "new" ELSE "gone"

Place == [t \in Tasks |-> PlaceOf(t)]

Delivery == INSTANCE TaskDelivery WITH place <- Place

\* Where workers only crash with a lease or outstay it, lists, leases and reclaim
\* passes together deliver every task at least once ("a lease that can be reclaimed
\* after a crash"): from its upload to its acknowledgement it is in one place from
\* which it can be tried again, it leaves that, and loses its payload, only after a
\* final status, and an attempt that was overtaken neither takes a waiting retry
\* away nor brings back a task that is gone.
ImplementsDelivery == Delivery!Spec
=============================================================================
