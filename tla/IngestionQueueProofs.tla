------------------------ MODULE IngestionQueueProofs ------------------------
(***************************************************************************)
(* Proofs about IngestionQueue: a job is in one place of the queue and in  *)
(* the hands of one worker, whatever fails; no job is lost to workers that *)
(* crash with a lease or outstay it, and with them the queue implements    *)
(* TaskDelivery.                                                           *)
(***************************************************************************)
EXTENDS IngestionQueue, SequenceTheorems, FiniteSetTheorems, TLAPS

-----------------------------------------------------------------------------
(* The inductive invariant.                                                *)

Waiting == {queue[i] : i \in 1..Len(queue)}

\* What can still bring a job back into the queue: a lease that will be reclaimed, or
\* a worker between two commands of a hand-over.
Live(j) ==
    \/ j \in Waiting \/ j \in processing \/ j \in leases
    \/ \E w \in Workers : job[w] = j /\ wpc[w] \in Unleased

\* All that is left of a task is one attempt of it.
OneLive == \A j, k \in Job : j.task = k.task /\ Live(j) /\ Live(k) => j = k

\* Nothing of a task is there before it was pushed.
NotYet ==
    \A t \in Tasks : api[t] \in {"none", "accepted"} =>
        \A j \in Job : j.task = t => ~Live(j) /\ \A w \in Workers : job[w] # j

WaitingOnce ==
    \A a, b \in 1..Len(queue) : queue[a].task = queue[b].task => a = b

\* A job that waits is nowhere else.
WaitingAlone ==
    \A j \in Waiting :
        j \notin processing /\ j \notin leases /\ \A w \in Workers : job[w] # j

\* A hand-over has taken the lease, then the entry; a new job has no lease yet.
Handover ==
    \A w \in Workers :
        /\ wpc[w] \in Unleased => job[w] \notin leases
        /\ wpc[w] = "requeue" => job[w] \notin processing

\* Two workers hold the same job only when one has taken it from the other.
Holders ==
    \A v, w \in Workers : v # w /\ job[v] = job[w] /\ job[v] # NoJob =>
        \/ wpc[v] \in Leased /\ wpc[w] \in {"unlist", "requeue"}
        \/ wpc[w] \in Leased /\ wpc[v] \in {"unlist", "requeue"}

\* A worker that was overtaken holds an older attempt.
Older ==
    \A w \in Workers, j \in Job :
        job[w] # NoJob /\ Live(j) /\ j.task = job[w].task => job[w].attempt <= j.attempt

\* Each attempt follows a fault, and so does a lease that nobody works under.
Counted ==
    /\ \A j \in Job : Live(j) => j.attempt <= faults
    /\ \A j \in leases : j \in expired \/ ~Held(j) => j.attempt < faults
    /\ \A w \in Workers : wpc[w] \in {"unlist", "requeue"} => job[w].attempt < faults
    /\ \A w \in Workers : \A j \in stale[w] : j.attempt < faults

IInv == /\ TypeOK /\ OneLive /\ NotYet /\ WaitingOnce /\ WaitingAlone
        /\ Handover /\ Holders /\ Older /\ Counted

-----------------------------------------------------------------------------
(* The list ingestion_jobs.                                                *)

LEMMA PushWaiting ==
    ASSUME queue \in Seq(Job), NEW j \in Job, queue' = Append(queue, j)
    PROVE  /\ queue' \in Seq(Job)
           /\ Waiting' = Waiting \cup {j}
           /\ WaitingOnce /\ (\A k \in Waiting : k.task # j.task) => WaitingOnce'
<1> USE DEF Waiting, WaitingOnce
<1>1. /\ queue' \in Seq(Job) /\ Len(queue') = Len(queue) + 1
      /\ \A i \in 1..Len(queue) : queue'[i] = queue[i]
      /\ queue'[Len(queue) + 1] = j
  BY AppendProperties
<1>2. Len(queue) \in Nat
  BY LenProperties
<1>3. 1..Len(queue') = 1..Len(queue) \cup {Len(queue) + 1}
  BY <1>1, <1>2
<1>4. Waiting' = {queue'[i] : i \in 1..Len(queue')}
  OBVIOUS
<1>5. Waiting' = Waiting \cup {j}
  BY <1>1, <1>2, <1>3, <1>4
<1>6. QED
  BY <1>1, <1>2, <1>3, <1>5

LEMMA FrontProperties ==
    ASSUME NEW S, NEW seq \in Seq(S), seq # <<>>
    PROVE  /\ Front(seq) \in Seq(S) /\ Len(Front(seq)) = Len(seq) - 1
           /\ \A i \in 1..(Len(seq) - 1) : Front(seq)[i] = seq[i]
<1>1. Len(seq) \in Nat \ {0}
  BY EmptySeq
<1>2. PICK n \in Nat : Len(seq) = n + 1
  BY <1>1
<1>3. \A i \in 1..n : seq[i] \in S
  BY <1>2, ElementOfSeq
<1>4. /\ SubSeq(seq, 1, n) \in Seq(S)
      /\ Len(SubSeq(seq, 1, n)) = IF 1 <= n THEN n - 1 + 1 ELSE 0
      /\ \A i \in 1..(n - 1 + 1) : SubSeq(seq, 1, n)[i] = seq[1 + i - 1]
  BY <1>3, SubSeqProperties
<1>5. QED
  BY <1>2, <1>4 DEF Front

LEMMA MoveWaiting ==
    ASSUME queue \in Seq(Job), NEW j \in Job, Move(j)
    PROVE  /\ queue' \in Seq(Job)
           /\ j \in Waiting /\ Waiting' \subseteq Waiting
           /\ WaitingOnce => WaitingOnce' /\ \A k \in Waiting' : k.task # j.task
<1> USE DEF Waiting, WaitingOnce, Move, Front, Last
<1>1. Len(queue) \in Nat \ {0}
  BY EmptySeq
<1>2. /\ queue' \in Seq(Job) /\ Len(queue') = Len(queue) - 1
      /\ \A i \in 1..(Len(queue) - 1) : queue'[i] = queue[i]
  BY FrontProperties
<1>3. QED
  BY <1>1, <1>2

LEMMA SameWaiting ==
    ASSUME queue' = queue
    PROVE  Waiting' = Waiting /\ (WaitingOnce => WaitingOnce')
BY DEF Waiting, WaitingOnce

-----------------------------------------------------------------------------
(* What the steps do to the places of a job.                               *)

\* A step in which workers go on with their jobs or drop them, and entries and leases
\* disappear: nothing new is alive.  A job is dropped with its lease, or by a fault.
LEMMA Dwindle ==
    ASSUME IInv, TypeOK',
           \A t \in Tasks : api'[t] \in {"none", "accepted"} => api[t] \in {"none", "accepted"},
           queue' = queue, processing' \subseteq processing, leases' \subseteq leases,
           \A w \in Workers :
               \/ job'[w] = NoJob
               \/ /\ job'[w] = job[w]
                  /\ \/ wpc'[w] = wpc[w]
                     \/ wpc[w] \in Leased \cup {"lease"} /\ wpc'[w] \in Leased
                     \/ wpc[w] = "unlist" /\ wpc'[w] = "requeue" /\ job[w] \notin processing',
           \/ faults' > faults
           \/ /\ faults' = faults
              /\ \A w \in Workers : job'[w] = job[w] \/ job[w] \notin leases'
              /\ \A j \in expired' \ expired : ~Held(j),
           \A w \in Workers : stale'[w] \subseteq stale[w] \cup expired
    PROVE  IInv'
<1> USE DEF IInv, TypeOK
<1>1. /\ Waiting' = Waiting
      /\ WaitingOnce'
  BY SameWaiting
<1>2. \A w \in Workers : job'[w] = NoJob <=> wpc'[w] \in {"scan", "reclaim", "pop", "down"}
  OBVIOUS
<1>3. \A j \in Job : Live(j)' => Live(j)
  <2>1. \A w \in Workers : job'[w] # NoJob /\ wpc'[w] \in Unleased =>
          job'[w] = job[w] /\ wpc[w] \in Unleased
    BY <1>2 DEF Unleased, Leased
  <2>2. QED
    BY <1>1, <2>1, NoJobAssumption DEF Live, Job
<1>4. OneLive'
  BY <1>3 DEF OneLive
<1>5. NotYet'
  BY <1>3, NoJobAssumption DEF NotYet, Job
<1>6. WaitingAlone'
  <2>1. Waiting \subseteq Job
    BY ElementOfSeq, LenProperties DEF Waiting
  <2>2. QED
    BY <1>1, <2>1, NoJobAssumption DEF WaitingAlone, Job
<1>7. Handover'
  BY <1>2 DEF Handover, Unleased, Leased
<1>8. Holders'
  BY <1>2 DEF Holders, Unleased, Leased, Labels
<1>9. Older'
  BY <1>3 DEF Older
<1>10. \A j \in Job : Live(j)' => j.attempt <= faults'
  BY <1>3 DEF Counted, Job
<1>11. \A j \in leases' : j \in expired' \/ ~Held(j)' => j.attempt < faults'
  BY <1>2, NoJobAssumption DEF Counted, Held, Live, Job, Unleased, Leased
<1>12. \A w \in Workers : wpc'[w] \in {"unlist", "requeue"} => job'[w].attempt < faults'
  <2>1. SUFFICES ASSUME NEW w \in Workers, wpc'[w] \in {"unlist", "requeue"}
                 PROVE  job'[w].attempt < faults'
    OBVIOUS
  <2>2. /\ job'[w] = job[w] /\ job[w] \in Job
        /\ wpc[w] \in {"unlist", "requeue"}
    BY <1>2, <2>1 DEF Leased
  <2>3. faults \in Int /\ faults' \in Int /\ faults' >= faults /\ job[w].attempt \in Int
    BY <2>2, FaultsAssumption DEF Job
  <2>4. QED
    BY <2>2, <2>3 DEF Counted
<1>13. \A w \in Workers : \A j \in stale'[w] : j.attempt < faults'
  <2>1. SUFFICES ASSUME NEW w \in Workers, NEW j \in stale'[w]
                 PROVE  j.attempt < faults'
    OBVIOUS
  <2>2. j \in Job /\ j.attempt < faults
    BY <2>1 DEF Counted
  <2>3. faults \in Int /\ faults' \in Int /\ faults' >= faults /\ j.attempt \in Int
    BY <2>2, FaultsAssumption DEF Job
  <2>4. QED
    BY <2>2, <2>3
<1>14. QED
  BY <1>1, <1>4, <1>5, <1>6, <1>7, <1>8, <1>9, <1>10, <1>11, <1>12, <1>13 DEF Counted

\* A push: nothing else of the task is alive, and what workers still hold is older.
LEMMA Pushed ==
    ASSUME IInv, TypeOK', NEW j \in Job, queue' = Append(queue, j),
           processing' = processing, leases' = leases, expired' = expired, faults' >= faults,
           \A w \in Workers : stale'[w] \subseteq stale[w],
           \A t \in Tasks : api'[t] \in {"none", "accepted"} =>
               api[t] \in {"none", "accepted"} /\ t # j.task,
           \A w \in Workers :
               \/ job'[w] = job[w] /\ wpc'[w] = wpc[w]
               \/ job'[w] = NoJob /\ wpc[w] \notin Leased,
           \A k \in Job : k.task = j.task =>
               /\ k \notin Waiting \cup processing \cup leases
               /\ \A w \in Workers : job'[w] = k => wpc[w] \notin Unleased /\ k.attempt < j.attempt,
           j.attempt <= faults'
    PROVE  IInv'
<1> USE DEF IInv, TypeOK
<1>1. Waiting \subseteq Job
  BY ElementOfSeq, LenProperties DEF Waiting
<1>2. Waiting' = Waiting \cup {j} /\ WaitingOnce'
  <2>1. \A k \in Waiting : k.task # j.task
    BY <1>1
  <2>2. WaitingOnce /\ queue \in Seq(Job)
    OBVIOUS
  <2>3. QED
    BY <2>1, <2>2, PushWaiting
<1>3. \A w \in Workers : job'[w] = NoJob <=> wpc'[w] \in {"scan", "reclaim", "pop", "down"}
  OBVIOUS
<1>4. \A k \in Job : Live(k)' => Live(k) \/ k = j
  BY <1>2, <1>3, NoJobAssumption DEF Live, Unleased, Leased, Job
<1>5. \A k \in Job : Live(k)' /\ k.task = j.task => k = j
  BY <1>2, <1>3, NoJobAssumption, SMTT(30) DEF Live, Unleased, Leased, Job
<1>6. OneLive'
  BY <1>4, <1>5 DEF OneLive
<1>7. NotYet'
  BY <1>4, NoJobAssumption DEF NotYet, Job
<1>8. WaitingAlone'
  BY <1>2, <1>1, NoJobAssumption DEF WaitingAlone, Job
<1>9. Handover'
  BY <1>3 DEF Handover, Unleased, Leased
<1>10. Holders'
  BY <1>3 DEF Holders, Unleased, Leased, Labels
<1>11. Older'
  <2>1. \A w \in Workers : job'[w] # NoJob => job'[w] = job[w] /\ job[w] \in Job
    OBVIOUS
  <2>2. \A k \in Job : k.attempt \in Int
    BY FaultsAssumption DEF Job
  <2>3. QED
    BY <1>4, <2>1, <2>2, SMTT(30) DEF Older
<1>12. \A k \in Job : Live(k)' => k.attempt <= faults'
  <2>1. \A k \in Job : k.attempt \in Int
    BY FaultsAssumption DEF Job
  <2>2. QED
    BY <1>4, <2>1, FaultsAssumption DEF Counted
<1>13. \A k \in leases' : k \in expired' \/ ~Held(k)' => k.attempt < faults'
  <2>1. \A k \in leases : Held(k) => Held(k)'
    BY NoJobAssumption, <1>3 DEF Held, Job
  <2>2. \A k \in leases : k.attempt \in Int
    BY FaultsAssumption DEF Job
  <2>3. QED
    BY <2>1, <2>2, FaultsAssumption DEF Counted
<1>14. \A w \in Workers : wpc'[w] \in {"unlist", "requeue"} => job'[w].attempt < faults'
  <2>1. \A w \in Workers : wpc'[w] \in {"unlist", "requeue"} =>
          job'[w] = job[w] /\ wpc'[w] = wpc[w] /\ job[w] \in Job
    BY <1>3
  <2>2. \A k \in Job : k.attempt \in Int
    BY FaultsAssumption DEF Job
  <2>3. QED
    BY <2>1, <2>2, FaultsAssumption DEF Counted
<1>15. Counted'
  <2>1. \A k \in Job : k.attempt \in Int
    BY FaultsAssumption DEF Job
  <2>2. \A w \in Workers : \A k \in stale'[w] : k.attempt < faults'
    BY <2>1, FaultsAssumption DEF Counted
  <2>3. QED
    BY <1>12, <1>13, <1>14, <2>2 DEF Counted
<1>16. QED
  BY <1>2, <1>6, <1>7, <1>8, <1>9, <1>10, <1>11, <1>15

\* A pop: the job is taken along, or lost with the reply.
LEMMA Popped ==
    ASSUME IInv, TypeOK', NEW j \in Job, Move(j), NEW w \in Workers, wpc[w] = "pop",
           leases' = leases, expired' = expired, stale' = stale, api' = api, faults' >= faults,
           \/ job' = [job EXCEPT ![w] = j] /\ wpc' = [wpc EXCEPT ![w] = "lease"]
           \/ job' = job /\ wpc' = [wpc EXCEPT ![w] = "scan"]
    PROVE  IInv'
<1> USE DEF IInv, TypeOK
<1>1. /\ j \in Waiting /\ Waiting' \subseteq Waiting /\ WaitingOnce'
      /\ j \notin Waiting' /\ processing' = processing \cup {j}
  BY MoveWaiting DEF Move
<1>2. /\ \A v \in Workers \ {w} : job'[v] = job[v] /\ wpc'[v] = wpc[v]
      /\ job[w] = NoJob
      /\ \/ job'[w] = j /\ wpc'[w] = "lease"
         \/ job'[w] = NoJob /\ wpc'[w] = "scan"
  BY Zenon
<1>3. j \notin processing /\ j \notin leases /\ \A v \in Workers : job[v] # j
  BY <1>1 DEF WaitingAlone
<1>4. Live(j)
  BY <1>1 DEF Live
<1>5. \A k \in Job : Live(k)' => Live(k)
  BY <1>1, <1>2, <1>4 DEF Live, Unleased
<1>6. OneLive' /\ NotYet'
  BY <1>2, <1>4, <1>5, NoJobAssumption DEF OneLive, NotYet, Job
<1>7. WaitingAlone'
  BY <1>1, <1>2, NoJobAssumption DEF WaitingAlone, Job
<1>8. Handover'
  BY <1>1, <1>2, <1>3 DEF Handover, Unleased
<1>9. Holders'
  BY <1>2, <1>3 DEF Holders, Unleased, Leased
<1>10. Older'
  <2>1. \A v \in Workers, k \in Job :
          job'[v] # NoJob /\ Live(k)' /\ k.task = job'[v].task => job'[v].attempt <= k.attempt
    <3>1. SUFFICES ASSUME NEW v \in Workers, NEW k \in Job, job'[v] # NoJob, Live(k)',
                          k.task = job'[v].task
                   PROVE  job'[v].attempt <= k.attempt
      OBVIOUS
    <3>2. CASE job'[v] = j
      <4>1. k = j
        BY <1>4, <1>5, <3>1, <3>2 DEF OneLive
      <4>2. j.attempt \in Int
        BY FaultsAssumption DEF Job
      <4>3. QED
        BY <3>2, <4>1, <4>2
    <3>3. CASE job'[v] # j
      BY <1>2, <1>5, <3>1, <3>3 DEF Older
    <3>4. QED
      BY <3>2, <3>3
  <2>2. QED
    BY <2>1 DEF Older
<1>11. \A k \in Job : k.attempt \in Int
  BY FaultsAssumption DEF Job
<1>12. \A k \in leases : Held(k) => Held(k)'
  BY <1>2, NoJobAssumption, SMTT(30) DEF Held, Job
<1>13. \A v \in Workers : wpc'[v] \in {"unlist", "requeue"} =>
         job'[v] = job[v] /\ wpc'[v] = wpc[v] /\ job[v] \in Job
  BY <1>2
<1>14. Counted'
  BY <1>5, <1>11, <1>12, <1>13, FaultsAssumption DEF Counted
<1>15. QED
  BY <1>1, <1>6, <1>7, <1>8, <1>9, <1>10, <1>14

\* The lease of a job that was popped is written, and the worker goes on or gives up.
LEMMA Leasing ==
    ASSUME IInv, TypeOK', NEW w \in Workers, wpc[w] = "lease",
           leases' = leases \cup {job[w]}, expired' = expired, processing' = processing,
           queue' = queue, stale' = stale, api' = api,
           \/ job' = job /\ wpc' = [wpc EXCEPT ![w] = "load"] /\ faults' >= faults
           \/ /\ job' = [job EXCEPT ![w] = NoJob] /\ wpc' = [wpc EXCEPT ![w] = "scan"]
              /\ faults' > faults
    PROVE  IInv'
<1> DEFINE j == job[w]
<1> USE DEF IInv, TypeOK
<1>1. Waiting' = Waiting /\ WaitingOnce'
  BY SameWaiting
<1>2. /\ \A v \in Workers \ {w} : job'[v] = job[v] /\ wpc'[v] = wpc[v]
      /\ j \in Job /\ j # NoJob
      /\ \/ job'[w] = j /\ wpc'[w] = "load" /\ faults' >= faults
         \/ job'[w] = NoJob /\ wpc'[w] = "scan" /\ faults' > faults
  BY Zenon
<1>3. /\ Live(j) /\ j \notin Waiting
      /\ \A v \in Workers \ {w} : job[v] # j
  BY <1>2 DEF Live, Unleased, Leased, WaitingAlone, Holders
<1>4. \A k \in Job : Live(k)' => Live(k)
  BY <1>1, <1>2, <1>3 DEF Live, Unleased
<1>5. OneLive' /\ NotYet'
  BY <1>2, <1>4, NoJobAssumption DEF OneLive, NotYet, Job
<1>6. WaitingAlone'
  <2>1. Waiting \subseteq Job
    BY ElementOfSeq, LenProperties DEF Waiting
  <2>2. QED
    BY <1>1, <1>2, <1>3, <2>1, NoJobAssumption DEF WaitingAlone, Job
<1>7. Handover'
  BY <1>2, <1>3 DEF Handover, Unleased
<1>8. Holders'
  BY <1>2, <1>3 DEF Holders
<1>9. Older'
  BY <1>2, <1>4 DEF Older
<1>10. Counted'
  <2>1. \A k \in Job : k.attempt \in Int
    BY FaultsAssumption DEF Job
  <2>2. \A k \in Job : Live(k)' => k.attempt <= faults'
    BY <1>2, <1>4, <2>1, FaultsAssumption DEF Counted
  <2>3. \A v \in Workers : wpc'[v] \in {"unlist", "requeue"} =>
          job'[v] = job[v] /\ wpc'[v] = wpc[v] /\ job[v] \in Job
    BY <1>2
  <2>4. \A v \in Workers : wpc'[v] \in {"unlist", "requeue"} => job'[v].attempt < faults'
    BY <1>2, <2>1, <2>3, FaultsAssumption DEF Counted
  <2>5. \A k \in leases : Held(k) => Held(k)'
    BY <1>2, NoJobAssumption DEF Held, Leased, Job
  <2>6. j \notin leases /\ j.attempt <= faults
    BY <1>2, <1>3 DEF Counted, Handover, Unleased
  <2>7. job'[w] = j => Held(j)'
    BY <1>2 DEF Held, Leased
  <2>8. \A k \in leases' : k \in expired' \/ ~Held(k)' => k.attempt < faults'
    BY <1>2, <2>1, <2>5, <2>6, <2>7, FaultsAssumption DEF Counted
  <2>9. \A v \in Workers : \A k \in stale'[v] : k.attempt < faults'
    BY <1>2, <2>1, FaultsAssumption DEF Counted
  <2>10. QED
    BY <2>2, <2>4, <2>8, <2>9 DEF Counted
<1>11. QED
  BY <1>1, <1>5, <1>6, <1>7, <1>8, <1>9, <1>10

\* A reclaiming worker gets a lease.
LEMMA Taken ==
    ASSUME IInv, TypeOK', NEW w \in Workers, NEW j \in leases,
           wpc[w] = "reclaim", j \in stale[w], stale' = [stale EXCEPT ![w] = @ \ {j}],
           job' = [job EXCEPT ![w] = j], wpc' = [wpc EXCEPT ![w] = "unlist"],
           leases' = leases \ {j}, expired' = expired \ {j}, processing' = processing,
           queue' = queue, api' = api, faults' = faults
    PROVE  IInv'
<1> USE DEF IInv, TypeOK
<1>1. Waiting' = Waiting /\ WaitingOnce'
  BY SameWaiting
<1>2. /\ \A v \in Workers \ {w} : job'[v] = job[v] /\ wpc'[v] = wpc[v]
      /\ job[w] = NoJob /\ job'[w] = j /\ wpc'[w] = "unlist"
      /\ j \in Job
  OBVIOUS
<1>3. /\ Live(j) /\ j \notin Waiting
      /\ \A v \in Workers : job[v] = j => wpc[v] \in Leased
  BY <1>2, NoJobAssumption DEF Live, WaitingAlone, Handover, Unleased, Leased, Labels, Job
<1>4. \A k \in Job : Live(k)' => Live(k)
  BY <1>1, <1>2, <1>3 DEF Live
<1>5. OneLive' /\ NotYet'
  BY <1>2, <1>3, <1>4, NoJobAssumption DEF OneLive, NotYet, Job
<1>6. WaitingAlone'
  BY <1>1, <1>2, <1>3 DEF WaitingAlone
<1>7. Handover'
  BY <1>2 DEF Handover
<1>8. Holders'
  BY <1>2, <1>3 DEF Holders
<1>9. Older'
  <2>1. SUFFICES ASSUME NEW v \in Workers, NEW k \in Job, job'[v] # NoJob, Live(k)',
                        k.task = job'[v].task
                 PROVE  job'[v].attempt <= k.attempt
    BY DEF Older
  <2>2. CASE v = w
    <3>1. k = j
      BY <1>2, <1>3, <1>4, <2>1, <2>2 DEF OneLive
    <3>2. j.attempt \in Int
      BY <1>2, FaultsAssumption DEF Job
    <3>3. QED
      BY <1>2, <2>2, <3>1, <3>2
  <2>3. CASE v # w
    BY <1>2, <1>4, <2>1, <2>3 DEF Older
  <2>4. QED
    BY <2>2, <2>3
<1>10. Counted'
  <2>1. \A k \in Job : Live(k)' => k.attempt <= faults'
    BY <1>4 DEF Counted
  <2>2. \A v \in Workers : wpc'[v] \in {"unlist", "requeue"} => job'[v].attempt < faults'
    BY <1>2 DEF Counted
  <2>3. \A k \in leases' : k \in expired' \/ ~Held(k)' => k.attempt < faults'
    BY <1>2 DEF Counted, Held, Leased
  <2>4. \A v \in Workers : \A k \in stale'[v] : k.attempt < faults'
    BY DEF Counted
  <2>5. QED
    BY <2>1, <2>2, <2>3, <2>4 DEF Counted
<1>11. QED
  BY <1>1, <1>5, <1>6, <1>7, <1>8, <1>9, <1>10

-----------------------------------------------------------------------------
(* The invariant is inductive.                                             *)

\* All workers are idle over empty lists.
LEMMA InitIInv == Init => IInv
<1> SUFFICES ASSUME Init PROVE IInv
  OBVIOUS
<1> USE DEF Init
<1>1. TypeOK
  BY NoJobAssumption, FaultsAssumption
  DEF TypeOK, ApiLabels, Labels, Final, Unleased, Leased
<1>2. Waiting = {} /\ WaitingOnce
  BY DEF Waiting, WaitingOnce
<1>3. \A j \in Job : ~Live(j)
  BY <1>2 DEF Live, Unleased
<1>4. OneLive /\ NotYet /\ WaitingAlone
  BY <1>2, <1>3, NoJobAssumption DEF OneLive, NotYet, WaitingAlone, Job
<1>5. Handover /\ Holders /\ Older
  BY DEF Handover, Holders, Older, Unleased
<1>6. Counted
  BY <1>3 DEF Counted
<1>7. QED
  BY <1>1, <1>2, <1>4, <1>5, <1>6 DEF IInv

\* What a request does.
LEMMA RequestTypeOK == ASSUME IInv, NEW t \in Tasks, Request(t) PROVE TypeOK'
<1> USE DEF IInv, TypeOK, ApiGoto, SetStatus, Fault, ApiLabels, Final, redis, worker, observers
<1>1. CASE Submit(t)
  BY <1>1 DEF Submit
<1>2. CASE SubmitFails(t)
  BY <1>2, FaultsAssumption DEF SubmitFails, SetStatusFails, SetStatus
<1>3. First(t) \in Job
  BY FaultsAssumption DEF First, Job
<1>4. Append(queue, First(t)) \in Seq(Job)
  BY <1>3, AppendProperties
<1>5. CASE Enqueue(t)
  BY <1>4, <1>5 DEF Enqueue, Push
<1>6. CASE EnqueueFails(t)
  <2>1. faults' \in 0..MaxFaults /\ api' \in [Tasks -> ApiLabels]
    BY <1>6, FaultsAssumption DEF EnqueueFails
  <2>2. queue' \in Seq(Job) /\ payload' \subseteq Tasks
    BY <1>4, <1>6 DEF EnqueueFails, Push
  <2>3. QED
    BY <1>6, <2>1, <2>2 DEF EnqueueFails
<1>7. CASE RefuseStatus(t)
  BY <1>7 DEF RefuseStatus
<1>8. CASE RefuseStatusFails(t)
  BY <1>8, FaultsAssumption DEF RefuseStatusFails, SetStatusFails, SetStatus
<1>9. CASE RefuseCleanup(t)
  BY <1>9 DEF RefuseCleanup, Acknowledge
<1>10. CASE RefuseCleanupFails(t)
  BY <1>10, FaultsAssumption DEF RefuseCleanupFails, Acknowledge
<1>11. QED
  BY <1>1, <1>2, <1>5, <1>6, <1>7, <1>8, <1>9, <1>10 DEF Request

\* The job a reclaiming worker pushes back.
Retried(j) == [j EXCEPT !.attempt = @ + 1]

LEMMA NextAttempt ==
    ASSUME IInv, NEW w \in Workers, wpc[w] = "requeue"
    PROVE  /\ job[w] \in Job
           /\ Retried(job[w]) \in Job
           /\ Retried(job[w]).task = job[w].task
           /\ Retried(job[w]).attempt = job[w].attempt + 1
           /\ job[w].attempt + 1 <= faults
           /\ Append(queue, Retried(job[w])) \in Seq(Job)
<1>1. job[w] \in Job /\ job[w].attempt < faults /\ faults \in 0..MaxFaults /\ queue \in Seq(Job)
  BY DEF IInv, TypeOK, Counted
<1>2. /\ Retried(job[w]) \in Job
      /\ Retried(job[w]).task = job[w].task
      /\ Retried(job[w]).attempt = job[w].attempt + 1
      /\ job[w].attempt + 1 <= faults
  BY <1>1, FaultsAssumption, SMTT(30) DEF Job, Retried
<1>3. QED
  BY <1>1, <1>2, AppendProperties

\* The steps of a worker without a fault.
LEMMA WorkerTypeOK == ASSUME IInv, NEW w \in Workers, WorkerStep(w) PROVE TypeOK'
<1> USE DEF IInv, TypeOK, Goto, Hold, SetStatus, Final, redis, worker, observers,
            Labels, Leased, Unleased
<1>1. CASE Scan(w) \/ Reclaimed(w) \/ Unlist(w)
  BY <1>1 DEF Scan, Reclaimed, Unlist
<1>2. CASE TakeLease(w)
  BY <1>2, NoJobAssumption DEF TakeLease, Job
<1>3. CASE Requeue(w)
  <2>1. queue' \in Seq(Job)
    BY <1>3, NextAttempt DEF Requeue, Retried
  <2>2. QED
    BY <1>3, <2>1 DEF Requeue
<1>4. CASE Pop(w)
  <2>1. PICK j \in Job : /\ Move(j) /\ Goto(w, "pop", "lease") /\ Hold(w, j)
                         /\ UNCHANGED <<requireRedis, api, status, payload, leases, expired,
                                        stale, observers, faults>>
    BY <1>4 DEF Pop
  <2>2. queue' \in Seq(Job) /\ processing' \subseteq Job
    BY <2>1, MoveWaiting DEF Move
  <2>3. QED
    BY <2>1, <2>2, NoJobAssumption DEF Job
<1>5. CASE PopTimesOut(w) \/ Lease(w)
  BY <1>5 DEF PopTimesOut, Lease
<1>6. CASE Load(w) \/ Mark(w) \/ Run(w)
  BY <1>6, NoJobAssumption, ZenonT(60) DEF Load, Mark, Run, Job
<1>7. CASE Complete(w) \/ ReportFailure(w)
  BY <1>7, NoJobAssumption, SMTT(30) DEF Complete, ReportFailure, Job
<1>8. CASE Ack(w) \/ Restart(w)
  BY <1>8 DEF Ack, Acknowledge, Restart
<1>9. QED
  BY <1>1, <1>2, <1>3, <1>4, <1>5, <1>6, <1>7, <1>8 DEF WorkerStep

\* The steps of a worker with one.
LEMMA FaultTypeOK == ASSUME IInv, NEW w \in Workers, WorkerFault(w) PROVE TypeOK'
<1> USE DEF IInv, TypeOK, Goto, Hold, SetStatus, Final, redis, worker, observers,
            Labels, Leased, Unleased
<1>1. \A kind : Fault(kind) => faults' \in 0..MaxFaults
  BY FaultsAssumption DEF Fault
<1>2. CASE ReclaimFails(w)
  <2>1. queue' \in Seq(Job)
    BY <1>2, NextAttempt DEF ReclaimFails, Retried
  <2>2. QED
    BY <1>1, <1>2, <2>1 DEF ReclaimFails
<1>3. CASE PopFails(w)
  <2>1. queue' \in Seq(Job) /\ processing' \subseteq Job
    BY <1>3, MoveWaiting DEF PopFails, Move
  <2>2. QED
    BY <1>1, <1>3, <2>1 DEF PopFails
<1>4. CASE LeaseFails(w)
  BY <1>1, <1>4 DEF LeaseFails
<1>5. CASE LoadFails(w)
  BY <1>1, <1>5 DEF LoadFails
<1>6. CASE AckFails(w)
  BY <1>1, <1>6 DEF AckFails, Acknowledge
<1>7. CASE Crash(w)
  BY <1>1, <1>7 DEF Crash, Halt
<1>8. CASE Shutdown(w)
  BY <1>1, <1>8 DEF Shutdown, Halt, Acknowledge
<1>9. CASE WorkFails(w)
  <2>1. /\ wpc[w] \in {"mark", "complete", "fail", "missing"}
        /\ \E to \in {"ack", "run", "fail"} : wpc' = [wpc EXCEPT ![w] = to]
    BY <1>9 DEF WorkFails
  <2>2. /\ UNCHANGED <<requireRedis, api, payload, queue, processing, leases, expired,
                       job, stale, ingested>>
        /\ \E s \in {"processing", "completed", "failed"} : SetStatusFails(job[w].task, s)
    BY <1>9 DEF WorkFails
  <2>3. job[w] \in Job /\ job[w].task \in Tasks
    BY <2>1 DEF Job
  <2>4. faults' \in 0..MaxFaults
    BY <1>1, <2>2 DEF SetStatusFails
  <2>5. /\ status' \in [Tasks -> {"none", "processing"} \cup Final]
        /\ reported' \subseteq Tasks
    BY <2>2, <2>3 DEF SetStatusFails
  <2>6. /\ wpc' \in [Workers -> Labels]
        /\ \A v \in Workers : job'[v] = NoJob <=> wpc'[v] \in {"scan", "reclaim", "pop", "down"}
    BY <2>1, <2>2
  <2>7. QED
    BY <2>2, <2>4, <2>5, <2>6
<1>10. QED
  BY <1>2, <1>3, <1>4, <1>5, <1>6, <1>7, <1>8, <1>9 DEF WorkerFault

LEMMA StepTypeOK == IInv /\ [Next]_vars => TypeOK'
<1> SUFFICES ASSUME IInv, [Next]_vars PROVE TypeOK'
  OBVIOUS
<1>1. CASE UNCHANGED vars
  BY <1>1 DEF IInv, TypeOK, vars
<1>2. CASE \E j \in Job : LeaseExpires(j) \/ LeaseOutstayed(j)
  BY <1>2, FaultsAssumption
  DEF IInv, TypeOK, LeaseExpires, LeaseOutstayed, Fault, worker, observers
<1>3. QED
  BY <1>1, <1>2, RequestTypeOK, WorkerTypeOK, FaultTypeOK DEF Next

LEMMA RequestIInv == ASSUME IInv, NEW t \in Tasks, Request(t) PROVE IInv'
<1>1. TypeOK'
  BY RequestTypeOK
<1> DEFINE j == First(t)
<1>2. j \in Job /\ j.task = t /\ j.attempt = 0
  BY FaultsAssumption DEF First, Job
<1>3. TypeOK /\ NotYet /\ faults \in Nat /\ \A k \in Job : k.attempt \in Nat
  BY FaultsAssumption DEF IInv, TypeOK, Job
<1> HIDE DEF j
<1>4. ASSUME api[t] = "accepted", api'[t] \in {"queued", "refusing"},
             \A u \in Tasks \ {t} : api'[u] = api[u],
             queue' = Append(queue, j), UNCHANGED <<processing, leases, expired, worker>>,
             faults' >= faults
      PROVE  IInv'
  <2>1. \A k \in Job : k.task = j.task =>
          /\ k \notin Waiting \cup processing \cup leases
          /\ \A w \in Workers : job'[w] # k
    BY <1>2, <1>3, <1>4 DEF NotYet, Live, worker
  <2>2. j.attempt <= faults'
    BY <1>1, <1>2, FaultsAssumption DEF TypeOK
  <2>3. \A u \in Tasks : api'[u] \in {"none", "accepted"} =>
          api[u] \in {"none", "accepted"} /\ u # j.task
    BY <1>2, <1>4
  <2>4. QED
    BY <1>1, <1>2, <1>4, <2>1, <2>2, <2>3, Pushed DEF worker
<1>5. ASSUME api[t] = "none" \/ api'[t] \notin {"none", "accepted"},
             \A u \in Tasks \ {t} : api'[u] = api[u],
             queue' = queue, processing' \subseteq processing, leases' \subseteq leases,
             expired' \subseteq expired, UNCHANGED worker, faults' = faults \/ faults' > faults
      PROVE  IInv'
  BY <1>1, <1>5, Dwindle DEF worker
<1> USE DEF ApiGoto, Fault, redis, worker
<1>6. ASSUME NEW from, NEW to, ApiGoto(t, from, to)
      PROVE  api[t] = from /\ api'[t] = to /\ \A u \in Tasks \ {t} : api'[u] = api[u]
  BY <1>3, <1>6 DEF TypeOK
<1>7. CASE Submit(t) \/ SubmitFails(t)
  BY <1>3, <1>5, <1>6, <1>7 DEF Submit, SubmitFails, SetStatusFails
<1>8. CASE Enqueue(t)
  <2>1. api[t] = "accepted" /\ api'[t] = "queued" /\ \A u \in Tasks \ {t} : api'[u] = api[u]
    BY <1>6, <1>8 DEF Enqueue
  <2>2. UNCHANGED <<processing, leases, expired, worker>> /\ faults' >= faults
    BY <1>3, <1>8 DEF Enqueue
  <2>3. queue' = Append(queue, j)
    BY <1>8 DEF Enqueue, Push, j
  <2>4. QED
    BY <1>4, <2>1, <2>2, <2>3
<1>9. CASE EnqueueFails(t)
  <2>1. api[t] = "accepted" /\ api'[t] = "refusing" /\ \A u \in Tasks \ {t} : api'[u] = api[u]
    BY <1>6, <1>9 DEF EnqueueFails
  <2>2. UNCHANGED <<processing, leases, expired, worker>> /\ faults' > faults
    BY <1>3, <1>9 DEF EnqueueFails
  <2>3. queue' = Append(queue, j) \/ queue' = queue
    BY <1>9 DEF EnqueueFails, Push, j
  <2>4. CASE queue' = Append(queue, j)
    <3>1. faults' >= faults
      BY <1>3, <2>2, <1>9 DEF EnqueueFails
    <3>2. QED
      BY <1>4, <2>1, <2>2, <2>4, <3>1
  <2>5. CASE queue' = queue
    <3>1. /\ processing' \subseteq processing /\ leases' \subseteq leases
          /\ expired' \subseteq expired /\ UNCHANGED worker
      BY <2>2
    <3>2. api[t] = "none" \/ api'[t] \notin {"none", "accepted"}
      BY <2>1
    <3>3. QED
      BY <1>5, <2>1, <2>2, <2>5, <3>1, <3>2
  <2>6. QED
    BY <2>3, <2>4, <2>5
<1>10. CASE RefuseStatus(t) \/ RefuseStatusFails(t)
  BY <1>3, <1>5, <1>6, <1>10 DEF RefuseStatus, RefuseStatusFails, SetStatusFails
<1>11. CASE RefuseCleanup(t) \/ RefuseCleanupFails(t)
  BY <1>3, <1>5, <1>6, <1>11 DEF RefuseCleanup, RefuseCleanupFails, Acknowledge
<1>12. QED
  BY <1>7, <1>8, <1>9, <1>10, <1>11 DEF Request

\* A worker moves on, keeps or drops its job; nothing is added anywhere.
LEMMA Moves ==
    ASSUME IInv, TypeOK', NEW w \in Workers, api' = api, queue' = queue,
           processing' \subseteq processing, leases' \subseteq leases, expired' \subseteq expired,
           \A v \in Workers \ {w} : job'[v] = job[v] /\ wpc'[v] = wpc[v] /\ stale'[v] = stale[v],
           \/ job'[w] = NoJob
           \/ /\ job'[w] = job[w]
              /\ \/ wpc'[w] = wpc[w]
                 \/ wpc[w] \in Leased \cup {"lease"} /\ wpc'[w] \in Leased
                 \/ wpc[w] = "unlist" /\ wpc'[w] = "requeue" /\ job[w] \notin processing',
           \/ faults' > faults
           \/ faults' = faults /\ (job'[w] = job[w] \/ job[w] \notin leases'),
           stale'[w] \subseteq stale[w] \cup expired
    PROVE  IInv'
BY Dwindle

LEMMA RequeueIInv ==
    ASSUME IInv, TypeOK', NEW w \in Workers, wpc[w] = "requeue",
           queue' = Append(queue, Retried(job[w])),
           UNCHANGED <<api, processing, leases, expired>>,
           \A v \in Workers \ {w} : job'[v] = job[v] /\ wpc'[v] = wpc[v] /\ stale'[v] = stale[v],
           job'[w] = NoJob, stale'[w] \subseteq stale[w], faults' >= faults
    PROVE  IInv'
<1> DEFINE j == Retried(job[w])
<1>1. /\ job[w] \in Job /\ j \in Job /\ j.task = job[w].task
      /\ j.attempt = job[w].attempt + 1 /\ j.attempt <= faults
  BY NextAttempt
<1> HIDE DEF j
<1>2. Live(job[w]) /\ job[w] \notin Waiting /\ job[w] \notin processing /\ job[w] \notin leases
  BY <1>1 DEF IInv, Live, WaitingAlone, Handover, Unleased
<1>3. ASSUME NEW k \in Job, k.task = j.task
      PROVE  /\ k \notin Waiting \cup processing \cup leases
             /\ \A v \in Workers : job'[v] = k => wpc[v] \notin Unleased /\ k.attempt < j.attempt
  <2>1. Live(k) => k = job[w]
    BY <1>1, <1>2, <1>3 DEF IInv, OneLive
  <2>2. k \notin Waiting \cup processing \cup leases
    BY <1>2, <2>1 DEF Live
  <2>3. ASSUME NEW v \in Workers, job'[v] = k PROVE wpc[v] \notin Unleased
    <3>1. v # w /\ job[v] = k /\ k # NoJob
      BY <2>3, NoJobAssumption DEF Job
    <3>2. wpc[v] \in Unleased => Live(k)
      BY <3>1 DEF Live
    <3>3. wpc[v] \in Unleased => job[v] = job[w]
      BY <2>1, <3>1, <3>2
    <3>4. wpc[v] \in Unleased => FALSE
      BY <3>1, <3>3 DEF IInv, Holders, Unleased, Leased
    <3>5. QED
      BY <3>4
  <2>4. ASSUME NEW v \in Workers, job'[v] = k PROVE k.attempt < j.attempt
    <3>1. job[v] = k /\ k # NoJob
      BY <2>4, NoJobAssumption DEF Job
    <3>2. k.attempt <= job[w].attempt
      BY <1>1, <1>2, <1>3, <3>1 DEF IInv, Older
    <3>3. k.attempt \in Int /\ job[w].attempt \in Int
      BY <1>1, FaultsAssumption DEF Job
    <3>4. QED
      BY <1>1, <3>2, <3>3
  <2>5. QED
    BY <2>2, <2>3, <2>4
<1>4. \A u \in Tasks : api'[u] \in {"none", "accepted"} =>
        api[u] \in {"none", "accepted"} /\ u # j.task
  <2>1. api[job[w].task] \notin {"none", "accepted"}
    BY <1>1, <1>2 DEF IInv, NotYet, Job
  <2>2. QED
    BY <1>1, <2>1
<1>5. j.attempt <= faults'
  <2>1. faults \in Int /\ faults' \in Int /\ j.attempt \in Int
    BY <1>1, FaultsAssumption DEF IInv, TypeOK, Job
  <2>2. QED
    BY <1>1, <2>1
<1>6. \A v \in Workers :
        \/ job'[v] = job[v] /\ wpc'[v] = wpc[v]
        \/ job'[v] = NoJob /\ wpc[v] \notin Leased
  BY DEF Leased
<1>7. queue' = Append(queue, j) /\ \A v \in Workers : stale'[v] \subseteq stale[v]
  BY DEF j
<1>8. QED
  BY <1>1, <1>3, <1>4, <1>5, <1>6, <1>7, Pushed

LEMMA WorkerIInv == ASSUME IInv, NEW w \in Workers, WorkerStep(w) PROVE IInv'
<1>1. TypeOK /\ TypeOK'
  BY WorkerTypeOK DEF IInv
<1> USE DEF TypeOK, Goto, Hold, SetStatus, redis, observers
<1>2. CASE Scan(w)
  BY <1>1, <1>2, Moves DEF Scan
<1>3. CASE TakeLease(w)
  <2>1. PICK j \in stale[w] :
          /\ Goto(w, "reclaim", IF j \in leases THEN "unlist" ELSE "reclaim")
          /\ Hold(w, IF j \in leases THEN j ELSE NoJob)
          /\ stale' = [stale EXCEPT ![w] = @ \ {j}]
          /\ leases' = leases \ {j}
          /\ expired' = expired \ {j}
          /\ UNCHANGED <<requireRedis, api, status, payload, queue, processing,
                         observers, faults>>
    BY <1>3 DEF TakeLease
  <2>2. CASE j \in leases
    BY <1>1, <2>1, <2>2, Taken
  <2>3. CASE j \notin leases
    <3>1. job[w] = NoJob /\ job'[w] = NoJob
      BY <1>1, <2>1, <2>3
    <3>2. \A v \in Workers \ {w} : job'[v] = job[v] /\ wpc'[v] = wpc[v] /\ stale'[v] = stale[v]
      BY <1>1, <2>1
    <3>3. stale'[w] \subseteq stale[w] \cup expired
      BY <1>1, <2>1
    <3>4. QED
      BY <1>1, <2>1, <3>1, <3>2, <3>3, Moves
  <2>4. QED
    BY <2>2, <2>3
<1>4. CASE Unlist(w)
  BY <1>1, <1>4, Moves DEF Unlist
<1>5. CASE Requeue(w)
  BY <1>1, <1>5, RequeueIInv, FaultsAssumption DEF Requeue, Retried
<1>6. CASE Reclaimed(w)
  BY <1>1, <1>6, Moves DEF Reclaimed
<1>7. CASE Pop(w)
  <2>1. PICK j \in Job : /\ Move(j) /\ Goto(w, "pop", "lease") /\ Hold(w, j)
                         /\ UNCHANGED <<requireRedis, api, status, payload, leases, expired,
                                        stale, observers, faults>>
    BY <1>7 DEF Pop
  <2>2. faults' >= faults
    BY <1>1, <2>1, FaultsAssumption
  <2>3. QED
    BY <1>1, <2>1, <2>2, Popped
<1>8. CASE PopTimesOut(w)
  BY <1>1, <1>8, Moves DEF PopTimesOut
<1>9. CASE Lease(w)
  <2>1. faults' >= faults
    BY <1>1, <1>9, FaultsAssumption DEF Lease
  <2>2. QED
    BY <1>1, <1>9, <2>1, Leasing DEF Lease
<1>10. CASE Load(w) \/ Mark(w) \/ Run(w)
  BY <1>1, <1>10, Moves DEF Load, Mark, Run, Leased
<1>11. CASE Complete(w) \/ ReportFailure(w)
  BY <1>1, <1>11, Moves DEF Complete, ReportFailure, Leased
<1>12. CASE Ack(w)
  BY <1>1, <1>12, Moves DEF Ack, Acknowledge
<1>13. CASE Restart(w)
  BY <1>1, <1>13, Moves DEF Restart
<1>14. QED
  BY <1>2, <1>3, <1>4, <1>5, <1>6, <1>7, <1>8, <1>9, <1>10, <1>11, <1>12, <1>13 DEF WorkerStep

LEMMA FaultIInv == ASSUME IInv, NEW w \in Workers, WorkerFault(w) PROVE IInv'
<1>1. TypeOK /\ TypeOK'
  BY FaultTypeOK DEF IInv
<1>2. ASSUME NEW kind, Fault(kind) PROVE faults' > faults /\ faults' >= faults
  BY <1>1, <1>2, FaultsAssumption DEF Fault, TypeOK
<1> USE DEF TypeOK, Goto, Hold, redis, observers
<1>3. CASE ReclaimFails(w)
  <2>1. faults' > faults /\ faults' >= faults
    BY <1>2, <1>3 DEF ReclaimFails
  <2>2. /\ \A v \in Workers \ {w} : job'[v] = job[v] /\ wpc'[v] = wpc[v] /\ stale'[v] = stale[v]
        /\ job'[w] = NoJob /\ stale'[w] = {} /\ api' = api
    BY <1>1, <1>3 DEF ReclaimFails
  <2>3. CASE /\ wpc[w] = "requeue" /\ queue' = Append(queue, [job[w] EXCEPT !.attempt = @ + 1])
             /\ UNCHANGED <<status, payload, processing, leases, expired>>
    BY <1>1, <2>1, <2>2, <2>3, RequeueIInv DEF Retried
  <2>4. CASE queue' = queue /\ processing' \subseteq processing /\ leases' \subseteq leases
             /\ expired' \subseteq expired
    BY <1>1, <2>1, <2>2, <2>4, Moves
  <2>5. QED
    BY <1>3, <2>3, <2>4 DEF ReclaimFails
<1>4. CASE PopFails(w)
  <2>1. faults' > faults /\ faults' >= faults /\ wpc[w] = "pop"
    BY <1>2, <1>4 DEF PopFails
  <2>2. CASE \E j \in Job : Move(j)
    BY <1>1, <1>4, <2>1, <2>2, Popped DEF PopFails
  <2>3. CASE UNCHANGED <<queue, processing>>
    BY <1>1, <1>4, <2>1, <2>3, Moves DEF PopFails
  <2>4. QED
    BY <1>4, <2>2, <2>3 DEF PopFails
<1>5. CASE LeaseFails(w)
  <2>1. faults' > faults /\ faults' >= faults /\ wpc[w] = "lease"
    BY <1>2, <1>5 DEF LeaseFails
  <2>2. \/ job' = job /\ wpc' = [wpc EXCEPT ![w] = "load"]
        \/ job' = [job EXCEPT ![w] = NoJob] /\ wpc' = [wpc EXCEPT ![w] = "scan"]
    BY <1>1, <1>5 DEF LeaseFails
  <2>3. CASE leases' = leases \cup {job[w]}
    BY <1>1, <1>5, <2>1, <2>2, <2>3, Leasing DEF LeaseFails
  <2>4. CASE leases' = leases
    BY <1>1, <1>5, <2>1, <2>2, <2>4, Moves DEF LeaseFails, Leased
  <2>5. QED
    BY <1>5, <2>3, <2>4 DEF LeaseFails
<1>6. CASE LoadFails(w) \/ WorkFails(w)
  <2>1. faults' > faults
    BY <1>2, <1>6 DEF LoadFails, WorkFails, SetStatusFails, SetStatus
  <2>2. QED
    BY <1>1, <1>6, <2>1, Moves DEF LoadFails, WorkFails, SetStatusFails, SetStatus, Leased
<1>7. CASE AckFails(w)
  <2>1. faults' > faults
    BY <1>2, <1>7 DEF AckFails
  <2>2. QED
    BY <1>1, <1>7, <2>1, Moves DEF AckFails, Acknowledge
<1>8. CASE Crash(w)
  <2>1. faults' > faults
    BY <1>2, <1>8 DEF Crash
  <2>2. QED
    BY <1>1, <1>8, <2>1, Moves DEF Crash, Halt
<1>9. CASE Shutdown(w)
  <2>1. faults' > faults
    BY <1>2, <1>9 DEF Shutdown
  <2>2. QED
    BY <1>1, <1>9, <2>1, Moves DEF Shutdown, Halt, Acknowledge, Leased
<1>10. QED
  BY <1>3, <1>4, <1>5, <1>6, <1>7, <1>8, <1>9 DEF WorkerFault

LEMMA StepIInv == IInv /\ [Next]_vars => IInv'
<1> SUFFICES ASSUME IInv, [Next]_vars PROVE IInv'
  OBVIOUS
<1>1. TypeOK /\ TypeOK'
  BY StepTypeOK DEF IInv
<1>2. CASE UNCHANGED vars
  BY <1>1, <1>2, Dwindle DEF vars, TypeOK
<1>3. ASSUME NEW j \in Job, LeaseExpires(j) \/ LeaseOutstayed(j) PROVE IInv'
  <2>1. UNCHANGED <<api, queue, processing, leases, worker>> /\ expired' = expired \cup {j}
    BY <1>3 DEF LeaseExpires, LeaseOutstayed
  <2>2. faults' > faults \/ (faults' = faults /\ ~Held(j))
    BY <1>1, <1>3, FaultsAssumption DEF LeaseExpires, LeaseOutstayed, Fault, TypeOK
  <2>3. QED
    BY <1>1, <2>1, <2>2, Dwindle DEF worker
<1>4. QED
  BY <1>2, <1>3, RequestIInv, WorkerIInv, FaultIInv DEF Next

\* The inductive invariant holds always.
THEOREM Invariance == Spec => []IInv
<1>1. Init => IInv
  BY InitIInv
<1>2. IInv /\ [Next]_vars => IInv'
  BY StepIInv
<1>3. QED
  BY <1>1, <1>2, PTL DEF Spec

-----------------------------------------------------------------------------
(* One job, one place, one worker.                                         *)

\* Every variable keeps its type; attempts stay within the faults there were.
THEOREM TypeCorrect == Spec => []TypeOK
<1>1. IInv => TypeOK
  BY DEF IInv
<1>2. QED
  BY <1>1, Invariance, PTL

\* Whatever fails, a task is never twice in ingestion_jobs and its processing list.
THEOREM NeverDuplicated == Spec => []OneEntryPerTask
<1>1. IInv => OneEntryPerTask
  <2>1. SUFFICES ASSUME IInv, NEW t \in Tasks
                 PROVE  Cardinality(Queued(t)) + Cardinality(Listed(t)) <= 1
    BY DEF OneEntryPerTask
  <2>2. /\ queue \in Seq(Job) /\ processing \subseteq Job /\ Len(queue) \in Nat
        /\ DOMAIN queue = 1..Len(queue)
    BY <2>1, LenProperties DEF IInv, TypeOK
  <2>3. Waiting \subseteq Job
    BY <2>2, ElementOfSeq DEF Waiting
  <2>4. Queued(t) = {} \/ \E i : Queued(t) = {i}
    <3>1. \A a, b \in Queued(t) : a = b
      BY <2>1, <2>2 DEF Queued, IInv, WaitingOnce
    <3>2. QED
      BY <3>1
  <2>5. Listed(t) = {} \/ \E j : Listed(t) = {j}
    <3>1. \A a, b \in Listed(t) : a = b
      BY <2>1, <2>2 DEF Listed, IInv, OneLive, Live
    <3>2. QED
      BY <3>1
  <2>6. Queued(t) = {} \/ Listed(t) = {}
    <3>1. SUFFICES ASSUME NEW i \in Queued(t), NEW j \in Listed(t) PROVE FALSE
      OBVIOUS
    <3>2. /\ queue[i] \in Waiting /\ queue[i].task = t
          /\ j \in processing /\ j.task = t /\ j \in Job
      BY <2>2, <3>1 DEF Queued, Listed, Waiting
    <3>3. queue[i] = j
      BY <2>1, <2>3, <3>2 DEF IInv, OneLive, Live
    <3>4. QED
      BY <2>1, <3>2, <3>3 DEF IInv, WaitingAlone
  <2>7. /\ Cardinality(Queued(t)) = 0 \/ Cardinality(Queued(t)) = 1
        /\ Cardinality(Listed(t)) = 0 \/ Cardinality(Listed(t)) = 1
        /\ Cardinality(Queued(t)) = 0 \/ Cardinality(Listed(t)) = 0
    BY <2>4, <2>5, <2>6, FS_EmptySet, FS_Singleton
  <2>8. QED
    BY <2>7
<1>2. QED
  BY <1>1, Invariance, PTL

\* Whatever fails, no two workers work on the same attempt, so an acknowledgement
\* takes away no other worker's entry and lease.
THEOREM NeverShared == Spec => []AttemptExclusive
<1>1. IInv => AttemptExclusive
  BY DEF IInv, TypeOK, Holders, AttemptExclusive, Leased
<1>2. QED
  BY <1>1, Invariance, PTL

-----------------------------------------------------------------------------
(* No job is lost to workers that crash with a lease or outstay it.  The   *)
(* other faults do lose jobs: an exception or a cancellation ends in the   *)
(* acknowledgement of an unfinished job, and a crash between two commands  *)
(* of a hand-over leaves it without a lease.                               *)

\* A worker acknowledges what it has reported.
Acked ==
    /\ \A t \in Tasks : api[t] \in {"none", "accepted", "queued"}
    /\ \A w \in Workers : wpc[w] # "ackStop"
    /\ \A w \in Workers : wpc[w] = "ack" => job[w].task \in reported
    /\ AckedIsFinished

LEMMA StepAcked ==
    ASSUME Faults \subseteq {"crash", "window", "slow"},
           IInv, Acked, [Next]_vars
    PROVE  Acked'
<1>1. TypeOK /\ TypeOK'
  BY StepTypeOK DEF IInv
<1>2. ~Fault("error") /\ ~Fault("shutdown")
  BY DEF Fault
<1> USE DEF TypeOK, Acked, AckedIsFinished, Goto, Hold, SetStatus, redis, worker, observers
<1>3. CASE UNCHANGED vars
  BY <1>1, <1>3 DEF vars
<1>4. ASSUME NEW j \in Job, LeaseExpires(j) \/ LeaseOutstayed(j) PROVE Acked'
  BY <1>1, <1>4 DEF LeaseExpires, LeaseOutstayed
<1>5. ASSUME NEW t \in Tasks, Request(t) PROVE Acked'
  <2> USE DEF ApiGoto
  <2>1. CASE Submit(t)
    BY <1>1, <2>1 DEF Submit, Final
  <2>2. CASE Enqueue(t)
    BY <1>1, <2>2 DEF Enqueue, Push
  <2>3. QED
    BY <1>1, <1>2, <1>5, <2>1, <2>2
    DEF Request, SetStatusFails, SubmitFails, EnqueueFails, RefuseStatus, RefuseStatusFails,
        RefuseCleanup, RefuseCleanupFails
<1>6. ASSUME NEW w \in Workers, WorkerStep(w) PROVE Acked'
  <2>1. CASE Scan(w) \/ TakeLease(w) \/ Unlist(w) \/ Requeue(w) \/ Reclaimed(w)
    BY <1>1, <2>1 DEF Scan, TakeLease, Unlist, Requeue, Reclaimed
  <2>2. CASE Pop(w) \/ PopTimesOut(w) \/ Lease(w) \/ Load(w) \/ Run(w) \/ Restart(w)
    BY <1>1, <2>2 DEF Pop, PopTimesOut, Lease, Load, Run, Restart
  <2>3. CASE Mark(w)
    BY <1>1, <2>3 DEF Mark, Final
  <2>4. CASE Complete(w) \/ ReportFailure(w)
    BY <1>1, <2>4 DEF Complete, ReportFailure, Final
  <2>5. CASE Ack(w)
    BY <1>1, <2>5 DEF Ack, Acknowledge
  <2>6. QED
    BY <1>6, <2>1, <2>2, <2>3, <2>4, <2>5 DEF WorkerStep
<1>7. ASSUME NEW w \in Workers, WorkerFault(w) PROVE Acked'
  <2>1. Crash(w)
    BY <1>2, <1>7
    DEF WorkerFault, ReclaimFails, PopFails, LeaseFails, LoadFails, WorkFails, SetStatusFails,
        SetStatus, AckFails, Shutdown
  <2>2. QED
    BY <1>1, <2>1 DEF Crash, Halt
<1>8. QED
  BY <1>3, <1>4, <1>5, <1>6, <1>7 DEF Next

\* Where workers only crash or outstay their leases, the payload of an unfinished
\* task is kept: the next attempt finds it.
THEOREM PayloadKept ==
    ASSUME Faults \subseteq {"crash", "window", "slow"} PROVE Spec => []AckedIsFinished
<1>1. Init => Acked
  BY DEF Init, Acked, AckedIsFinished
<1>2. IInv /\ Acked /\ [Next]_vars => Acked'
  BY StepAcked
<1>3. Acked => AckedIsFinished
  BY DEF Acked
<1>4. QED
  BY <1>1, <1>2, <1>3, Invariance, PTL DEF Spec

\* Where a job is that still has to be worked on.  A worker that was overtaken may hold
\* a job too, but acknowledging it must not be the end of the task.
Kept(t) ==
    \/ \E j \in Waiting : j.task = t
    \/ \E j \in leases : j.task = t
    \/ \E w \in Workers : wpc[w] \in Unleased /\ job[w].task = t

AllKept == \A t \in Tasks : api[t] = "queued" /\ t \notin reported => Kept(t)

LEMMA StepAllKept ==
    ASSUME Faults \subseteq {"crash", "slow"},
           IInv, Acked, AllKept, [Next]_vars
    PROVE  AllKept'
<1>1. TypeOK /\ TypeOK'
  BY StepTypeOK DEF IInv
<1>2. ~Fault("error") /\ ~Fault("shutdown") /\ ~Fault("window")
  BY DEF Fault
<1>3. (queue' = queue) => Waiting' = Waiting
  BY DEF Waiting
\* Most steps leave all three places alone.
<1>4. ASSUME queue' = queue, leases' = leases, reported \subseteq reported',
             \A t \in Tasks : api'[t] = "queued" => api[t] = "queued",
             \A w \in Workers : wpc[w] \in Unleased => job'[w] = job[w] /\ wpc'[w] \in Unleased
      PROVE  AllKept'
  BY <1>3, <1>4 DEF AllKept, Kept
<1> USE DEF Goto, Hold, SetStatus, redis, worker, observers, TypeOK
<1>5. CASE UNCHANGED vars
  BY <1>1, <1>4, <1>5 DEF vars
<1>6. ASSUME NEW j \in Job, LeaseExpires(j) \/ LeaseOutstayed(j) PROVE AllKept'
  BY <1>1, <1>4, <1>6 DEF LeaseExpires, LeaseOutstayed
<1>7. ASSUME NEW t \in Tasks, Request(t) PROVE AllKept'
  <2> USE DEF ApiGoto
  <2>1. CASE Submit(t)
    BY <1>1, <1>4, <2>1 DEF Submit, Final
  <2>2. CASE Enqueue(t)
    <3>1. First(t) \in Job /\ First(t).task = t
      BY FaultsAssumption DEF First, Job
    <3>2. Waiting' = Waiting \cup {First(t)}
      BY <1>1, <2>2, <3>1, PushWaiting DEF Enqueue, Push
    <3>3. UNCHANGED <<leases, reported, wpc, job>> /\ \A u \in Tasks \ {t} : api'[u] = api[u]
      BY <1>1, <2>2 DEF Enqueue
    <3>4. QED
      BY <3>1, <3>2, <3>3 DEF AllKept, Kept
  <2>3. QED
    BY <1>1, <1>2, <1>7, <2>1, <2>2
    DEF Request, SetStatusFails, SubmitFails, EnqueueFails, RefuseStatus, RefuseStatusFails,
        RefuseCleanup, RefuseCleanupFails, Acked
<1>8. ASSUME NEW w \in Workers, WorkerStep(w) PROVE AllKept'
  <2>1. CASE Scan(w) \/ Unlist(w) \/ Reclaimed(w) \/ PopTimesOut(w)
    BY <1>1, <1>4, <2>1 DEF Scan, Unlist, Reclaimed, PopTimesOut, Unleased
  <2>2. CASE TakeLease(w)
    <3>1. PICK j \in stale[w] :
            /\ Goto(w, "reclaim", IF j \in leases THEN "unlist" ELSE "reclaim")
            /\ Hold(w, IF j \in leases THEN j ELSE NoJob)
            /\ leases' = leases \ {j}
            /\ UNCHANGED <<api, queue, reported>>
      BY <2>2 DEF TakeLease
    <3>2. \A v \in Workers : wpc[v] \in Unleased => job'[v] = job[v] /\ wpc'[v] = wpc[v]
      BY <1>1, <3>1 DEF Unleased
    <3>3. j \in leases => job'[w] = j /\ wpc'[w] \in Unleased
      BY <1>1, <3>1 DEF Unleased
    <3>4. \A t \in Tasks : Kept(t) => Kept(t)'
      BY <1>3, <3>1, <3>2, <3>3 DEF Kept
    <3>5. QED
      BY <3>1, <3>4 DEF AllKept
  <2>3. CASE Requeue(w)
    <3>1. Retried(job[w]) \in Job /\ Retried(job[w]).task = job[w].task
      BY <2>3, NextAttempt DEF Requeue
    <3>2. Waiting' = Waiting \cup {Retried(job[w])}
      BY <1>1, <2>3, <3>1, PushWaiting DEF Requeue, Retried
    <3>3. \A v \in Workers \ {w} : job'[v] = job[v] /\ wpc'[v] = wpc[v]
      BY <1>1, <2>3 DEF Requeue
    <3>4. \A t \in Tasks : Kept(t) => Kept(t)'
      BY <2>3, <3>1, <3>2, <3>3 DEF Kept, Requeue
    <3>5. QED
      BY <2>3, <3>4 DEF AllKept, Requeue
  <2>4. CASE Pop(w)
    <3>1. PICK j \in Job : /\ Move(j) /\ Goto(w, "pop", "lease") /\ Hold(w, j)
                           /\ UNCHANGED <<api, leases, reported>>
      BY <2>4 DEF Pop
    <3>2. \A k \in Waiting : k \in Waiting' \/ k = j
      <4>1. /\ Len(queue) \in Nat \ {0} /\ j = queue[Len(queue)]
            /\ Len(queue') = Len(queue) - 1 /\ \A i \in 1..(Len(queue) - 1) : queue'[i] = queue[i]
        BY <1>1, <3>1, EmptySeq, FrontProperties DEF Move, Last
      <4>2. QED
        BY <4>1 DEF Waiting
    <3>3. /\ \A v \in Workers \ {w} : job'[v] = job[v] /\ wpc'[v] = wpc[v]
          /\ job'[w] = j /\ wpc'[w] \in Unleased /\ wpc[w] \notin Unleased
      BY <1>1, <3>1 DEF Unleased
    <3>4. \A t \in Tasks : Kept(t) => Kept(t)'
      BY <3>1, <3>2, <3>3 DEF Kept
    <3>5. QED
      BY <3>1, <3>4 DEF AllKept
  <2>5. CASE Lease(w)
    <3>1. /\ \A v \in Workers \ {w} : wpc'[v] = wpc[v]
          /\ job' = job /\ leases' = leases \cup {job[w]}
      BY <1>1, <2>5 DEF Lease
    <3>2. \A t \in Tasks : Kept(t) => Kept(t)'
      BY <1>3, <2>5, <3>1 DEF Kept, Lease
    <3>3. QED
      BY <2>5, <3>2 DEF AllKept, Lease
  <2>6. CASE Load(w) \/ Run(w) \/ Mark(w)
    BY <1>1, <1>4, <2>6 DEF Load, Run, Mark, Final, Unleased
  <2>7. CASE Complete(w) \/ ReportFailure(w)
    BY <1>1, <1>4, <2>7 DEF Complete, ReportFailure, Final, Unleased
  <2>8. CASE Ack(w)
    <3>1. job[w].task \in reported /\ wpc[w] \notin Unleased
      BY <2>8 DEF Acked, Ack, Unleased
    <3>2. /\ leases' = leases \ {job[w]} /\ UNCHANGED <<api, queue, reported>>
          /\ \A v \in Workers \ {w} : job'[v] = job[v] /\ wpc'[v] = wpc[v]
      BY <1>1, <2>8 DEF Ack, Acknowledge
    <3>3. \A t \in Tasks : Kept(t) /\ t \notin reported => Kept(t)'
      BY <1>3, <3>1, <3>2 DEF Kept
    <3>4. QED
      BY <3>2, <3>3 DEF AllKept
  <2>9. CASE Restart(w)
    BY <1>1, <1>4, <2>9 DEF Restart, Unleased
  <2>10. QED
    BY <1>8, <2>1, <2>2, <2>3, <2>4, <2>5, <2>6, <2>7, <2>8, <2>9 DEF WorkerStep
<1>9. ASSUME NEW w \in Workers, WorkerFault(w) PROVE AllKept'
  <2>1. Crash(w) /\ wpc[w] \notin Unleased
    BY <1>2, <1>9
    DEF WorkerFault, Crash, ReclaimFails, PopFails, LeaseFails, LoadFails, WorkFails, SetStatusFails,
        SetStatus, AckFails, Shutdown
  <2>2. QED
    BY <1>1, <1>4, <2>1 DEF Crash, Halt
<1>10. QED
  BY <1>5, <1>6, <1>7, <1>8, <1>9 DEF Next

\* Where workers only crash with a lease in their hands or outstay it, every task the
\* API took in and nobody reported is queued, leased or in the hands of a worker.
THEOREM NeverLost ==
    ASSUME Faults \subseteq {"crash", "slow"} PROVE Spec => []AccountedFor
<1>1. Init => Acked /\ AllKept
  BY DEF Init, Acked, AckedIsFinished, AllKept
<1>2. IInv /\ Acked /\ [Next]_vars => Acked'
  BY StepAcked
<1>3. IInv /\ Acked /\ AllKept /\ [Next]_vars => AllKept'
  BY StepAllKept
<1>4. IInv /\ AllKept => AccountedFor
  <2>1. SUFFICES ASSUME IInv, NEW t \in Tasks, Kept(t)
                 PROVE  \/ Queued(t) # {}
                        \/ \E j \in leases : j.task = t
                        \/ \E w \in Workers : job[w] # NoJob /\ job[w].task = t
    BY DEF AllKept, AccountedFor
  <2>2. DOMAIN queue = 1..Len(queue)
    BY <2>1, LenProperties DEF IInv, TypeOK
  <2>3. (\E j \in Waiting : j.task = t) => Queued(t) # {}
    BY <2>2 DEF Waiting, Queued
  <2>4. \A w \in Workers : wpc[w] \in Unleased => job[w] # NoJob
    BY <2>1 DEF IInv, TypeOK, Unleased
  <2>5. QED
    BY <2>1, <2>3, <2>4 DEF Kept
<1>5. QED
  BY <1>1, <1>2, <1>3, <1>4, Invariance, PTL DEF Spec

-----------------------------------------------------------------------------
(* The queue implements TaskDelivery where workers only crash with a lease *)
(* or outstay it.                                                          *)

InQueue(t) == \E j \in Waiting : j.task = t
NotPushed(t) == api[t] \in {"none", "accepted"}

\* Whoever is about to report "completed" has stored the document.
Stored == \A w \in Workers : wpc[w] = "complete" => job[w].task \in ingested

LEMMA StepStored ==
    ASSUME TypeOK, TypeOK', Stored, [Next]_vars PROVE Stored'
<1> USE DEF TypeOK, Stored, Goto, Hold, SetStatus, redis, worker, observers
<1>1. CASE UNCHANGED vars
  BY <1>1 DEF vars
<1>2. ASSUME NEW j \in Job, LeaseExpires(j) \/ LeaseOutstayed(j) PROVE Stored'
  BY <1>2 DEF LeaseExpires, LeaseOutstayed
<1>3. ASSUME NEW t \in Tasks, Request(t) PROVE Stored'
  BY <1>3 DEF Request, Submit, Enqueue, RefuseStatus, RefuseCleanup, SubmitFails,
              EnqueueFails, RefuseStatusFails, RefuseCleanupFails
<1>4. ASSUME NEW w \in Workers, WorkerStep(w) PROVE Stored'
  <2>1. CASE Scan(w) \/ TakeLease(w) \/ Unlist(w) \/ Requeue(w) \/ Reclaimed(w)
    BY <2>1 DEF Scan, TakeLease, Unlist, Requeue, Reclaimed
  <2>2. CASE Pop(w) \/ PopTimesOut(w) \/ Lease(w) \/ Load(w) \/ Restart(w)
    BY <2>2 DEF Pop, PopTimesOut, Lease, Load, Restart
  <2>3. CASE Mark(w) \/ Complete(w) \/ ReportFailure(w) \/ Ack(w)
    BY <2>3 DEF Mark, Complete, ReportFailure, Ack
  <2>4. CASE Run(w)
    BY <2>4 DEF Run
  <2>5. QED
    BY <1>4, <2>1, <2>2, <2>3, <2>4 DEF WorkerStep
<1>5. ASSUME NEW w \in Workers, WorkerFault(w) PROVE Stored'
  <2>1. CASE ReclaimFails(w) \/ PopFails(w) \/ LeaseFails(w)
    BY <2>1 DEF ReclaimFails, PopFails, LeaseFails
  <2>2. CASE LoadFails(w) \/ WorkFails(w) \/ AckFails(w)
    BY <2>2 DEF LoadFails, WorkFails, SetStatusFails, SetStatus, AckFails
  <2>3. CASE Crash(w) \/ Shutdown(w)
    BY <2>3 DEF Crash, Shutdown, Halt
  <2>4. QED
    BY <1>5, <2>1, <2>2, <2>3 DEF WorkerFault
<1>6. QED
  BY <1>1, <1>2, <1>3, <1>4, <1>5 DEF Next

\* Where a task is, by what is left of it in the queue.
LEMMA PlaceIs ==
    ASSUME IInv, NEW t \in Tasks
    PROVE  PlaceOf(t) = IF InQueue(t) THEN "waiting"
                        ELSE IF Out(t) THEN "out"
                        ELSE IF NotPushed(t) THEN "new" ELSE "gone"
<1>1. DOMAIN queue = 1..Len(queue)
  BY LenProperties DEF IInv, TypeOK
<1>2. Queued(t) # {} <=> InQueue(t)
  BY <1>1 DEF Queued, InQueue, Waiting
<1>3. QED
  BY <1>2 DEF PlaceOf, NotPushed

LEMMA PlaceIsNext ==
    ASSUME IInv', NEW t \in Tasks
    PROVE  PlaceOf(t)' = IF InQueue(t)' THEN "waiting"
                         ELSE IF Out(t)' THEN "out"
                         ELSE IF NotPushed(t)' THEN "new" ELSE "gone"
<1>1. DOMAIN queue' = 1..Len(queue')
  BY LenProperties DEF IInv, TypeOK
<1>2. Queued(t)' # {} <=> InQueue(t)'
  BY <1>1 DEF Queued, InQueue, Waiting
<1>3. QED
  BY <1>2 DEF PlaceOf, NotPushed

\* What a worker has, or has lost under a lease, does not wait.
LEMMA OutIsNotWaiting ==
    ASSUME IInv, NEW t \in Tasks, Out(t)
    PROVE  ~InQueue(t)
<1> USE DEF IInv, TypeOK
<1>1. SUFFICES ASSUME NEW j \in Waiting, j.task = t PROVE FALSE
  BY DEF InQueue
<1>2. j \in Job /\ Live(j)
  BY <1>1, ElementOfSeq, LenProperties DEF Waiting, Live
<1>3. CASE \E k \in leases : k.task = t
  BY <1>1, <1>2, <1>3 DEF Live, OneLive, WaitingAlone
<1>4. CASE \E w \in Workers : wpc[w] \in Unleased /\ job[w].task = t
  <2>1. PICK w \in Workers : wpc[w] \in Unleased /\ job[w].task = t
    BY <1>4
  <2>2. job[w] \in Job /\ Live(job[w])
    BY <2>1 DEF Unleased, Live
  <2>3. QED
    BY <1>1, <1>2, <2>1, <2>2 DEF OneLive, WaitingAlone
<1>5. QED
  BY <1>3, <1>4 DEF Out

\* A step that concerns one task moves no other.
LEMMA OneMoves ==
    ASSUME IInv, IInv', NEW t \in Tasks,
           \A u \in Tasks \ {t} :
               /\ InQueue(u)' <=> InQueue(u)
               /\ Out(u)' <=> Out(u)
               /\ NotPushed(u)' <=> NotPushed(u)
    PROVE  Place' = [Place EXCEPT ![t] = PlaceOf(t)']
<1>1. \A u \in Tasks \ {t} : PlaceOf(u)' = PlaceOf(u)
  BY PlaceIs, PlaceIsNext
<1>2. Place' = [u \in Tasks |-> PlaceOf(u)']
  BY DEF Place
<1>3. QED
  BY <1>1, <1>2 DEF Place

LEMMA NoneMoves ==
    ASSUME IInv, IInv', queue' = queue, \A u \in Tasks : Out(u)' <=> Out(u),
           \A u \in Tasks : NotPushed(u)' <=> NotPushed(u)
    PROVE  Place' = Place
<1>1. \A u \in Tasks : InQueue(u)' <=> InQueue(u)
  BY DEF InQueue, Waiting
<1>2. \A u \in Tasks : PlaceOf(u)' = PlaceOf(u)
  BY <1>1, PlaceIs, PlaceIsNext
<1>3. Place' = [u \in Tasks |-> PlaceOf(u)']
  BY DEF Place
<1>4. QED
  BY <1>2, <1>3 DEF Place

\* Nor does a step that leaves the leases and the hand-overs alone.
LEMMA SameOut ==
    ASSUME leases' = leases, NEW t \in Tasks,
           \A w \in Workers :
               \/ wpc[w] \notin Unleased /\ wpc'[w] \notin Unleased
               \/ wpc[w] \in Unleased /\ wpc'[w] \in Unleased /\ job'[w] = job[w]
    PROVE  Out(t)' <=> Out(t)
BY DEF Out

LEMMA StillThere ==
    ASSUME IInv, IInv', queue' = queue, leases' = leases,
           \A u \in Tasks : NotPushed(u)' <=> NotPushed(u),
           \A w \in Workers :
               \/ wpc[w] \notin Unleased /\ wpc'[w] \notin Unleased
               \/ wpc[w] \in Unleased /\ wpc'[w] \in Unleased /\ job'[w] = job[w]
    PROVE  Place' = Place
BY NoneMoves, SameOut

\* The task of a job that a worker holds was pushed.
LEMMA HeldIsPushed ==
    ASSUME IInv, NEW w \in Workers, job[w] # NoJob
    PROVE  job[w].task \in Tasks /\ Place[job[w].task] # "new"
<1>1. job[w] \in Job /\ job[w].task \in Tasks
  BY DEF IInv, TypeOK, Job
<1>2. ~NotPushed(job[w].task)
  BY <1>1 DEF IInv, NotYet, NotPushed
<1>3. PlaceOf(job[w].task) # "new"
  BY <1>1, <1>2, PlaceIs
<1>4. QED
  BY <1>1, <1>3 DEF Place

LEMMA DeliveryStep ==
    ASSUME NEW t \in Tasks,
           \/ Delivery!Announce(t) \/ Delivery!Offer(t) \/ Delivery!Take(t)
           \/ Delivery!Retry(t) \/ Delivery!Store(t) \/ Delivery!Finish(t)
           \/ \E s \in {"processing", "completed", "failed"} : Delivery!Tell(t, s)
    PROVE  Delivery!Next
BY DEF Delivery!Next

\* The upload request announces its task, then offers it.
LEMMA RequestDelivery ==
    ASSUME Faults \subseteq {"crash", "slow"},
           IInv, IInv', Acked, NEW t \in Tasks, Request(t)
    PROVE  Delivery!Next
<1> USE DEF IInv, TypeOK, ApiGoto, worker, observers
<1>1. ~Fault("error")
  BY DEF Fault
<1>2. CASE Submit(t)
  <2>1. NotPushed(t) /\ \A u \in Tasks : NotPushed(u)' <=> NotPushed(u)
    BY <1>2 DEF Submit, NotPushed
  <2>2. UNCHANGED <<payload, queue, leases, wpc, job, reported, ingested>>
    BY <1>2 DEF Submit, SetStatus, Final
  <2>3. Place' = Place
    BY <2>1, <2>2, StillThere
  <2>4. ~InQueue(t) /\ ~Out(t)
    <3>1. \A j \in Job : j.task = t => ~Live(j)
      BY <2>1 DEF NotPushed, NotYet
    <3>2. Waiting \subseteq Job
      BY ElementOfSeq, LenProperties DEF Waiting
    <3>3. \A w \in Workers : wpc[w] \in Unleased => job[w] \in Job
      BY DEF Unleased
    <3>4. QED
      BY <3>1, <3>2, <3>3 DEF InQueue, Out, Live
  <2>5. Place[t] = "new"
    BY <2>1, <2>4, PlaceIs DEF Place
  <2>6. status' = [status EXCEPT ![t] = "processing"]
    BY <1>2 DEF Submit, SetStatus
  <2>7. Delivery!Announce(t)
    BY <2>2, <2>3, <2>5, <2>6 DEF Delivery!Announce
  <2>8. QED
    BY <2>7, DeliveryStep
<1>3. CASE Enqueue(t)
  <2>1. /\ NotPushed(t)
        /\ \A u \in Tasks \ {t} : NotPushed(u)' <=> NotPushed(u)
    BY <1>3 DEF Enqueue, NotPushed
  <2>2. UNCHANGED <<status, leases, wpc, job, reported, ingested>>
    BY <1>3 DEF Enqueue
  <2>3. First(t) \in Job /\ First(t).task = t
    BY FaultsAssumption DEF First, Job
  <2>4. Waiting' = Waiting \cup {First(t)}
    BY <1>3, <2>3, PushWaiting DEF Enqueue, Push
  <2>5. ~InQueue(t) /\ ~Out(t)
    <3>1. \A j \in Job : j.task = t => ~Live(j)
      BY <2>1 DEF NotPushed, NotYet
    <3>2. Waiting \subseteq Job
      BY ElementOfSeq, LenProperties DEF Waiting
    <3>3. \A w \in Workers : wpc[w] \in Unleased => job[w] \in Job
      BY DEF Unleased
    <3>4. QED
      BY <3>1, <3>2, <3>3 DEF InQueue, Out, Live
  <2>6. Place[t] = "new"
    BY <2>1, <2>5, PlaceIs DEF Place
  <2>7. /\ InQueue(t)'
        /\ \A u \in Tasks \ {t} : InQueue(u)' <=> InQueue(u)
    BY <2>3, <2>4 DEF InQueue
  <2>8. \A u \in Tasks : Out(u)' <=> Out(u)
    BY <2>2 DEF Out
  <2>9. Place' = [Place EXCEPT ![t] = PlaceOf(t)']
    BY <2>1, <2>7, <2>8, OneMoves
  <2>10. PlaceOf(t)' = "waiting"
    BY <2>7, PlaceIsNext
  <2>11. payload' = payload \cup {t}
    BY <1>3 DEF Enqueue, Push
  <2>12. Delivery!Offer(t)
    BY <2>2, <2>6, <2>9, <2>10, <2>11 DEF Delivery!Offer, Delivery!Goto
  <2>13. QED
    BY <2>12, DeliveryStep
<1>4. QED
  BY <1>1, <1>2, <1>3
  DEF Request, SetStatusFails, SubmitFails, EnqueueFails, RefuseStatus, RefuseStatusFails,
      RefuseCleanup, RefuseCleanupFails, Acked

\* A pop takes the task out of the queue.
LEMMA PopDelivery ==
    ASSUME IInv, IInv', NEW w \in Workers, Pop(w)
    PROVE  Delivery!Next
<1> USE DEF IInv, TypeOK
<1>1. PICK j \in Job :
        /\ Move(j) /\ Goto(w, "pop", "lease") /\ Hold(w, j)
        /\ UNCHANGED <<api, status, payload, leases, observers>>
  BY DEF Pop
<1>2. j.task \in Tasks
  BY DEF Job
<1>3. /\ j \in Waiting /\ Waiting' \subseteq Waiting
      /\ \A k \in Waiting' : k.task # j.task
  BY <1>1, MoveWaiting
<1>4. \A k \in Waiting : k \in Waiting' \/ k = j
  <2>1. /\ Len(queue) \in Nat \ {0} /\ j = queue[Len(queue)]
        /\ Len(queue') = Len(queue) - 1
        /\ \A i \in 1..(Len(queue) - 1) : queue'[i] = queue[i]
    BY <1>1, EmptySeq, FrontProperties DEF Move, Last
  <2>2. QED
    BY <2>1 DEF Waiting
<1>5. /\ InQueue(j.task) /\ ~InQueue(j.task)'
      /\ \A u \in Tasks \ {j.task} : InQueue(u)' <=> InQueue(u)
  BY <1>3, <1>4 DEF InQueue
<1>6. /\ \A v \in Workers \ {w} : job'[v] = job[v] /\ wpc'[v] = wpc[v]
      /\ job'[w] = j /\ wpc'[w] \in Unleased /\ wpc[w] \notin Unleased
  BY <1>1 DEF Goto, Hold, Unleased
<1>7. /\ Out(j.task)'
      /\ \A u \in Tasks \ {j.task} : Out(u)' <=> Out(u)
  BY <1>1, <1>6 DEF Out
<1>8. Place' = [Place EXCEPT ![j.task] = PlaceOf(j.task)']
  BY <1>1, <1>2, <1>5, <1>7, OneMoves DEF NotPushed
<1>9. PlaceOf(j.task)' = "out"
  BY <1>2, <1>5, <1>7, PlaceIsNext
<1>10. Place[j.task] = "waiting"
  BY <1>2, <1>5, PlaceIs DEF Place
<1>11. Delivery!Take(j.task)
  BY <1>1, <1>8, <1>9, <1>10 DEF Delivery!Take, Delivery!Goto, observers
<1>12. QED
  BY <1>2, <1>11, DeliveryStep

\* A reclaim puts it back.
LEMMA RequeueDelivery ==
    ASSUME IInv, IInv', NEW w \in Workers, Requeue(w)
    PROVE  Delivery!Next
<1> USE DEF IInv, TypeOK
<1>1. PICK t : t = job[w].task
  OBVIOUS
<1>2. job[w] \in Job /\ t \in Tasks
  BY <1>1 DEF Requeue, Goto, Job
<1>3. Retried(job[w]) \in Job /\ Retried(job[w]).task = t
  BY <1>1, NextAttempt DEF Requeue, Goto
<1>4. Waiting' = Waiting \cup {Retried(job[w])}
  BY <1>3, PushWaiting DEF Requeue, Retried
<1>5. /\ InQueue(t)'
      /\ \A u \in Tasks \ {t} : InQueue(u)' <=> InQueue(u)
  BY <1>3, <1>4 DEF InQueue
<1>6. /\ wpc[w] \in Unleased /\ wpc'[w] \notin Unleased
      /\ \A v \in Workers \ {w} : job'[v] = job[v] /\ wpc'[v] = wpc[v]
      /\ UNCHANGED <<api, status, payload, leases, observers>>
  BY DEF Requeue, Goto, Hold, Unleased
<1>7. /\ Out(t)
      /\ \A u \in Tasks \ {t} : Out(u)' <=> Out(u)
  BY <1>1, <1>6 DEF Out
<1>8. Place' = [Place EXCEPT ![t] = PlaceOf(t)']
  BY <1>2, <1>5, <1>6, <1>7, OneMoves DEF NotPushed
<1>9. PlaceOf(t)' = "waiting"
  BY <1>2, <1>5, PlaceIsNext
<1>10. Place[t] = "out"
  BY <1>2, <1>7, OutIsNotWaiting, PlaceIs DEF Place
<1>11. Delivery!Retry(t)
  BY <1>6, <1>8, <1>9, <1>10 DEF Delivery!Retry, Delivery!Goto, observers
<1>12. QED
  BY <1>2, <1>11, DeliveryStep

\* An acknowledgement follows a report.  That of an attempt that was overtaken leaves
\* the task where it is.
LEMMA AckDelivery ==
    ASSUME IInv, IInv', Acked, NEW w \in Workers, Ack(w)
    PROVE  Delivery!Next
<1> USE DEF IInv, TypeOK
<1>1. PICK t : t = job[w].task
  OBVIOUS
<1>2. wpc[w] = "ack" /\ wpc[w] \notin Unleased /\ wpc'[w] \notin Unleased
  BY DEF Ack, Goto, Acked, Unleased
<1>3. job[w] # NoJob /\ job[w] \in Job /\ t \in Tasks
  BY <1>1, <1>2 DEF Job
<1>4. t \in reported
  BY <1>1, <1>2 DEF Acked
<1>5. /\ leases' = leases \ {job[w]} /\ payload' = payload \ {t}
      /\ UNCHANGED <<api, status, queue, observers>>
      /\ \A v \in Workers \ {w} : job'[v] = job[v] /\ wpc'[v] = wpc[v]
  BY <1>1 DEF Ack, Acknowledge, Goto, Hold
<1>6. /\ Out(t)' => Out(t)
      /\ \A u \in Tasks \ {t} : Out(u)' <=> Out(u)
  BY <1>1, <1>2, <1>5 DEF Out
<1>7. \A u \in Tasks : NotPushed(u)' <=> NotPushed(u)
  BY <1>5 DEF NotPushed
<1>8. Delivery!Goto(t, "out", "gone") \/ Place' = Place
  <2>1. CASE Out(t)'
    <3>1. \A u \in Tasks : Out(u)' <=> Out(u)
      BY <1>6, <2>1
    <3>2. QED
      BY <1>5, <1>7, <3>1, NoneMoves
  <2>2. CASE ~Out(t)
    <3>1. \A u \in Tasks : Out(u)' <=> Out(u)
      BY <1>6, <2>2
    <3>2. QED
      BY <1>5, <1>7, <3>1, NoneMoves
  <2>3. CASE Out(t) /\ ~Out(t)'
    <3>1. \A u \in Tasks : InQueue(u)' <=> InQueue(u)
      BY <1>5 DEF InQueue, Waiting
    <3>2. ~InQueue(t) /\ ~InQueue(t)'
      BY <1>3, <2>3, <3>1, OutIsNotWaiting
    <3>3. ~NotPushed(t)'
      BY <1>1, <1>3, <1>7 DEF NotYet, NotPushed
    <3>4. PlaceOf(t)' = "gone"
      BY <1>3, <2>3, <3>2, <3>3, PlaceIsNext
    <3>5. Place[t] = "out"
      BY <1>3, <2>3, <3>2, PlaceIs DEF Place
    <3>6. Place' = [Place EXCEPT ![t] = PlaceOf(t)']
      BY <1>3, <1>6, <1>7, <3>1, OneMoves
    <3>7. QED
      BY <3>4, <3>5, <3>6 DEF Delivery!Goto
  <2>4. QED
    BY <2>1, <2>2, <2>3
<1>9. Delivery!Finish(t)
  BY <1>4, <1>5, <1>8 DEF Delivery!Finish, observers
<1>10. QED
  BY <1>3, <1>9, DeliveryStep

\* The steps of a worker that has its job store the document and tell the client.
LEMMA WorkDelivery ==
    ASSUME IInv, IInv', Stored, NEW w \in Workers,
           Load(w) \/ Mark(w) \/ Run(w) \/ Complete(w) \/ ReportFailure(w)
    PROVE  [Delivery!Next]_(Delivery!vars)
<1> USE DEF IInv, TypeOK
<1>1. PICK t : t = job[w].task
  OBVIOUS
<1>2. /\ wpc[w] \in {"load", "mark", "run", "complete", "fail", "missing"}
      /\ UNCHANGED <<api, queue, leases, payload, job>>
      /\ \A v \in Workers \ {w} : wpc'[v] = wpc[v]
      /\ wpc[w] \notin Unleased /\ wpc'[w] \notin Unleased
  BY DEF Load, Mark, Run, Complete, ReportFailure, Goto, redis, Unleased
<1>3. Place' = Place
  BY <1>2, StillThere DEF NotPushed
<1>4. t \in Tasks /\ Place[t] # "new"
  BY <1>1, <1>2, HeldIsPushed
<1>5. CASE Load(w)
  BY <1>3, <1>5 DEF Load, Delivery!vars, redis, observers
<1>6. CASE Run(w)
  <2>1. /\ UNCHANGED <<payload, status, reported>>
        /\ ingested' = ingested \/ ingested' = ingested \cup {t}
    BY <1>1, <1>6 DEF Run, redis
  <2>2. CASE ingested' = ingested
    BY <1>3, <2>1, <2>2 DEF Delivery!vars
  <2>3. CASE ingested' = ingested \cup {t}
    <3>1. Delivery!Store(t)
      BY <1>3, <1>4, <2>1, <2>3 DEF Delivery!Store
    <3>2. QED
      BY <1>4, <3>1, DeliveryStep
  <2>4. QED
    BY <2>1, <2>2, <2>3
<1>7. ASSUME NEW s \in {"processing", "completed", "failed"},
             SetStatus(t, s), ingested' = ingested, s = "completed" => t \in ingested
      PROVE  Delivery!Next
  <2>1. Delivery!Tell(t, s)
    BY <1>2, <1>3, <1>4, <1>7 DEF Delivery!Tell, SetStatus, Final
  <2>2. QED
    BY <1>4, <2>1, DeliveryStep
<1>8. CASE Mark(w)
  BY <1>1, <1>7, <1>8 DEF Mark
<1>9. CASE Complete(w)
  <2>1. t \in ingested
    BY <1>1, <1>9 DEF Complete, Goto, Stored
  <2>2. QED
    BY <1>1, <1>7, <1>9, <2>1 DEF Complete
<1>10. CASE ReportFailure(w)
  BY <1>1, <1>7, <1>10 DEF ReportFailure
<1>11. QED
  BY <1>5, <1>6, <1>8, <1>9, <1>10

\* The steps of a claim that move no task: it stays at a worker, by a lease or by hand.
LEMMA ClaimDelivery ==
    ASSUME IInv, IInv', NEW w \in Workers,
           \/ Scan(w) \/ TakeLease(w) \/ Unlist(w) \/ Reclaimed(w) \/ PopTimesOut(w)
           \/ Lease(w) \/ Restart(w)
    PROVE  UNCHANGED Delivery!vars
<1> USE DEF IInv, TypeOK
<1>1. /\ UNCHANGED <<api, status, payload, queue, observers>>
      /\ \A v \in Workers \ {w} : job'[v] = job[v] /\ wpc'[v] = wpc[v]
  BY DEF Scan, TakeLease, Unlist, Reclaimed, PopTimesOut, Lease, Restart, Goto, Hold, redis
<1>2. \A u \in Tasks : Out(u)' <=> Out(u)
  <2>1. CASE Scan(w) \/ Unlist(w) \/ Reclaimed(w) \/ PopTimesOut(w) \/ Restart(w)
    <3>1. /\ leases' = leases
          /\ \/ wpc[w] \notin Unleased /\ wpc'[w] \notin Unleased
             \/ wpc[w] \in Unleased /\ wpc'[w] \in Unleased /\ job'[w] = job[w]
      BY <2>1 DEF Scan, Unlist, Reclaimed, PopTimesOut, Restart, Goto, redis, Unleased
    <3>2. QED
      BY <1>1, <3>1, SameOut
  <2>2. CASE TakeLease(w)
    <3>1. PICK j \in stale[w] :
            /\ Goto(w, "reclaim", IF j \in leases THEN "unlist" ELSE "reclaim")
            /\ Hold(w, IF j \in leases THEN j ELSE NoJob)
            /\ leases' = leases \ {j}
      BY <2>2 DEF TakeLease
    <3>2. wpc[w] \notin Unleased
      BY <3>1 DEF Goto, Unleased
    <3>3. CASE j \in leases
      <4>1. job'[w] = j /\ wpc'[w] \in Unleased
        BY <3>1, <3>3 DEF Goto, Hold, Unleased
      <4>2. QED
        BY <1>1, <3>1, <3>2, <3>3, <4>1 DEF Out
    <3>4. CASE j \notin leases
      <4>1. leases' = leases /\ wpc'[w] \notin Unleased
        BY <3>1, <3>4 DEF Goto, Unleased
      <4>2. QED
        BY <1>1, <3>2, <4>1, SameOut
    <3>5. QED
      BY <3>3, <3>4
  <2>3. CASE Lease(w)
    <3>1. /\ job' = job /\ leases' = leases \cup {job[w]}
          /\ wpc[w] \in Unleased /\ wpc'[w] \notin Unleased
      BY <2>3 DEF Lease, Goto, Unleased
    <3>2. QED
      BY <1>1, <3>1 DEF Out
  <2>4. QED
    BY <2>1, <2>2, <2>3
<1>3. Place' = Place
  BY <1>1, <1>2, NoneMoves DEF NotPushed
<1>4. QED
  BY <1>1, <1>3 DEF Delivery!vars, observers

LEMMA StepDelivery ==
    ASSUME Faults \subseteq {"crash", "slow"},
           IInv, IInv', Acked, Stored, [Next]_vars
    PROVE  [Delivery!Next]_(Delivery!vars)
<1> USE DEF IInv, TypeOK
<1>1. ~Fault("error") /\ ~Fault("shutdown") /\ ~Fault("window")
  BY DEF Fault
<1>2. ASSUME UNCHANGED <<api, status, payload, queue, leases, observers>>,
             \A w \in Workers :
               \/ wpc[w] \notin Unleased /\ wpc'[w] \notin Unleased
               \/ wpc[w] \in Unleased /\ wpc'[w] \in Unleased /\ job'[w] = job[w]
      PROVE  UNCHANGED Delivery!vars
  <2>1. Place' = Place
    BY <1>2, StillThere DEF NotPushed
  <2>2. QED
    BY <1>2, <2>1 DEF Delivery!vars, observers
<1>3. CASE UNCHANGED vars
  BY <1>2, <1>3 DEF vars, observers
<1>4. ASSUME NEW j \in Job, LeaseExpires(j) \/ LeaseOutstayed(j)
      PROVE  UNCHANGED Delivery!vars
  BY <1>2, <1>4 DEF LeaseExpires, LeaseOutstayed, worker
<1>5. ASSUME NEW t \in Tasks, Request(t) PROVE Delivery!Next
  BY <1>5, RequestDelivery
<1>6. ASSUME NEW w \in Workers, WorkerStep(w) PROVE [Delivery!Next]_(Delivery!vars)
  <2>1. CASE \/ Scan(w) \/ TakeLease(w) \/ Unlist(w) \/ Reclaimed(w) \/ PopTimesOut(w)
             \/ Lease(w) \/ Restart(w)
    BY <2>1, ClaimDelivery
  <2>2. CASE Load(w) \/ Mark(w) \/ Run(w) \/ Complete(w) \/ ReportFailure(w)
    BY <2>2, WorkDelivery
  <2>3. QED
    BY <1>6, <2>1, <2>2, PopDelivery, RequeueDelivery, AckDelivery DEF WorkerStep
<1>7. ASSUME NEW w \in Workers, WorkerFault(w) PROVE UNCHANGED Delivery!vars
  <2>1. Crash(w) /\ wpc[w] \notin Unleased
    BY <1>1, <1>7
    DEF WorkerFault, Crash, ReclaimFails, PopFails, LeaseFails, LoadFails, WorkFails, SetStatusFails,
        SetStatus, AckFails, Shutdown
  <2>2. /\ UNCHANGED <<api, status, payload, queue, leases, observers>>
        /\ \A v \in Workers \ {w} : job'[v] = job[v] /\ wpc'[v] = wpc[v]
        /\ wpc'[w] \notin Unleased
    BY <2>1 DEF Crash, Halt, Hold, redis, Unleased
  <2>3. QED
    BY <1>2, <2>1, <2>2
<1>8. QED
  BY <1>3, <1>4, <1>5, <1>6, <1>7 DEF Next

\* Where workers only crash with a lease in their hands or outstay it, the lists, leases
\* and reclaim passes deliver every task at least once: it leaves the queue and loses its
\* payload only after a final status.
THEOREM DeliveryTheorem ==
    ASSUME Faults \subseteq {"crash", "slow"} PROVE Spec => ImplementsDelivery
<1>1. Init => Delivery!Init /\ Acked /\ Stored
  <2>1. SUFFICES ASSUME Init PROVE Delivery!Init /\ Acked /\ Stored
    OBVIOUS
  <2>2. Acked /\ Stored
    BY <2>1 DEF Init, Acked, AckedIsFinished, Stored
  <2>3. IInv
    BY <2>1, InitIInv
  <2>4. \A t \in Tasks : ~InQueue(t) /\ ~Out(t) /\ NotPushed(t)
    BY <2>1 DEF Init, InQueue, Waiting, Out, NotPushed, Unleased
  <2>5. Place = [t \in Tasks |-> "new"]
    BY <2>3, <2>4, PlaceIs DEF Place
  <2>6. QED
    BY <2>1, <2>2, <2>5 DEF Init, Delivery!Init
<1>2. IInv /\ Acked /\ [Next]_vars => Acked'
  BY StepAcked
<1>3. IInv /\ IInv' /\ Stored /\ [Next]_vars => Stored'
  BY StepStored DEF IInv
<1>4. IInv /\ IInv' /\ Acked /\ Stored /\ [Next]_vars => [Delivery!Next]_(Delivery!vars)
  BY StepDelivery
<1>5. QED
  BY <1>1, <1>2, <1>3, <1>4, Invariance, PTL DEF Spec, ImplementsDelivery, Delivery!Spec
=============================================================================
