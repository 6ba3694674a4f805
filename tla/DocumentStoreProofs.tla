------------------------ MODULE DocumentStoreProofs ------------------------
(***************************************************************************)
(* Proofs about DocumentStore: its invariant, the safety of its rows and   *)
(* vectors, and that it implements Catalogue.                              *)
(***************************************************************************)
EXTENDS DocumentStore, FiniteSetTheorems, WellFoundedInduction, TLAPS

LEMMA InitIInv == Init => IInv
BY RequestsAssumption, FailuresAssumption
DEF Init, IInv, TypeOK, ArgsFit, RowOwner, PointOwner, LockHeld, PrevGone, UniqueNames,
    Row, Point, Labels, NoArgs, Working, Ingesting

LEMMA AloneType == ASSUME NEW t, NEW F PROVE Alone(t, F) \in BOOLEAN
BY DEF Alone

LEMMA IngestArgsType ==
    ASSUME NEW t \in Tenants, NEW f \in Filenames, NEW size \in Sizes
    PROVE  LET a == [kind |-> "ingest", tenant |-> t, filename |-> f, size |-> size,
                     alone |-> Alone(t, {f})]
           IN  a \in IngestArgs /\ a \in Args /\ a.tenant = t
BY AloneType DEF IngestArgs, Args

LEMMA StepIInv == IInv /\ [Next]_vars => IInv'
<1> SUFFICES ASSUME IInv, [Next]_vars PROVE IInv'
  OBVIOUS
<1> USE RequestsAssumption, FailuresAssumption, SizesAssumption
    DEF IInv, TypeOK, ArgsFit, RowOwner, PointOwner, LockHeld, PrevGone, UniqueNames,
        Row, Point, Args, NoArgs, IngestArgs, Labels, Working, Ended, Ingesting, Recorded,
        DocIds, NewRow, NewPoint, FileRows, TenantRows, Goto, Fail, Unlock
<1>1. ASSUME NEW r \in Requests, NEW t \in Tenants, NEW f \in Filenames, NEW size \in Sizes,
             BeginIngest(r, t, f, size)
      PROVE IInv'
  <2> DEFINE a == [kind |-> "ingest", tenant |-> t, filename |-> f, size |-> size,
                   alone |-> Alone(t, {f})]
  <2>1. a \in IngestArgs /\ a \in Args /\ a.tenant = t
    BY IngestArgsType
  <2>2. PICK to \in {"prechecked", "rejected"} :
          /\ pc[r] = "idle" /\ pc' = [pc EXCEPT ![r] = to]
          /\ args' = [args EXCEPT ![r] = a]
          /\ UNCHANGED <<rows, vectors, tenantVer, lock, prev, victims, failures>>
    BY <1>1 DEF BeginIngest
  <2> HIDE DEF a, IngestArgs, Args
  <2>3. TypeOK'
    BY <2>1, <2>2
  <2>4. ArgsFit'
    BY <2>1, <2>2
  <2> USE DEF IngestArgs, Args
  <2>5. RowOwner' /\ PointOwner' /\ LockHeld' /\ PrevGone' /\ UniqueNames'
    BY <2>2
  <2>6. QED
    BY <2>3, <2>4, <2>5
<1>2. ASSUME NEW r \in Requests, NEW t \in Tenants,
             NEW target \in Filenames \cup DocIds, BeginDelete(r, t, target)
      PROVE IInv'
  <2>1. TypeOK'
    <3>1. Alone(t, {row.filename : row \in Matching(t, target)}) \in BOOLEAN
      BY AloneType
    <3>2. QED
      BY <1>2, <3>1 DEF BeginDelete, Matching
  <2>2. ArgsFit'
    BY <1>2 DEF BeginDelete, Matching
  <2>3. RowOwner'
    BY <1>2 DEF BeginDelete, Matching
  <2>4. PointOwner'
    BY <1>2 DEF BeginDelete, Matching
  <2>5. LockHeld'
    BY <1>2 DEF BeginDelete, Matching
  <2>6. PrevGone'
    BY <1>2 DEF BeginDelete, Matching
  <2>7. UniqueNames'
    BY <1>2 DEF BeginDelete, Matching
  <2>8. QED
    BY <2>1, <2>2, <2>3, <2>4, <2>5, <2>6, <2>7
<1>3. ASSUME NEW r \in Requests, DeleteRows(r) \/ DeleteRowsFails(r)
      PROVE IInv'
  <2>1. TypeOK'
    BY <1>3, SMTT(30) DEF DeleteRows, DeleteRowsFails
  <2>2. ArgsFit'
    BY <1>3 DEF DeleteRows, DeleteRowsFails
  <2>3. RowOwner'
    <3>1. /\ rows' \subseteq rows /\ args' = args
          /\ pc[r] = "delRows" /\ \A q \in Requests \ {r} : pc'[q] = pc[q]
      BY <1>3 DEF DeleteRows, DeleteRowsFails
    <3>2. QED
      BY <3>1
  <2>4. PointOwner'
    BY <1>3 DEF DeleteRows, DeleteRowsFails
  <2>5. LockHeld'
    BY <1>3 DEF DeleteRows, DeleteRowsFails
  <2>6. PrevGone'
    BY <1>3 DEF DeleteRows, DeleteRowsFails
  <2>7. UniqueNames'
    BY <1>3 DEF DeleteRows, DeleteRowsFails
  <2>8. QED
    BY <2>1, <2>2, <2>3, <2>4, <2>5, <2>6, <2>7
<1>4. ASSUME NEW r \in Requests, NEW t \in Tenants, BeginClear(r, t)
      PROVE IInv'
  <2>1. TypeOK'
    <3>1. Alone(t, Filenames) \in BOOLEAN
      BY AloneType
    <3>2. QED
      BY <1>4, <3>1 DEF BeginClear
  <2>2. ArgsFit'
    BY <1>4 DEF BeginClear
  <2>3. RowOwner'
    BY <1>4 DEF BeginClear
  <2>4. PointOwner'
    BY <1>4 DEF BeginClear
  <2>5. LockHeld'
    BY <1>4 DEF BeginClear
  <2>6. PrevGone'
    BY <1>4 DEF BeginClear
  <2>7. UniqueNames'
    BY <1>4 DEF BeginClear
  <2>8. QED
    BY <2>1, <2>2, <2>3, <2>4, <2>5, <2>6, <2>7
<1>5. ASSUME NEW r \in Requests, ClearRows(r) \/ ClearRowsFails(r)
      PROVE IInv'
  <2>1. TypeOK'
    <3>1. /\ rows' \in SUBSET rows
          /\ pc' = [pc EXCEPT ![r] = "clearVectors"]
          /\ lock' = [t \in Tenants |-> IF lock[t] = r THEN None ELSE lock[t]]
          /\ victims' = [victims EXCEPT ![r] = {}]
          /\ UNCHANGED <<vectors, tenantVer, args, prev>>
          /\ failures' \in 0..MaxFailures
      BY <1>5 DEF ClearRows, ClearRowsFails
    <3>2. QED
      BY <3>1
  <2>2. ArgsFit'
    BY <1>5 DEF ClearRows, ClearRowsFails
  <2>3. RowOwner'
    BY <1>5 DEF ClearRows, ClearRowsFails
  <2>4. PointOwner'
    BY <1>5 DEF ClearRows, ClearRowsFails
  <2>5. LockHeld'
    BY <1>5 DEF ClearRows, ClearRowsFails
  <2>6. PrevGone'
    BY <1>5, SMTT(30) DEF ClearRows, ClearRowsFails
  <2>7. UniqueNames'
    BY <1>5 DEF ClearRows, ClearRowsFails
  <2>8. QED
    BY <2>1, <2>2, <2>3, <2>4, <2>5, <2>6, <2>7
<1>6. ASSUME NEW r \in Requests, ReadPrevious(r)
      PROVE IInv'
  <2>1. TypeOK'
    BY <1>6 DEF ReadPrevious, CurrentId
  <2>2. ArgsFit'
    BY <1>6 DEF ReadPrevious, CurrentId
  <2>3. RowOwner'
    BY <1>6 DEF ReadPrevious, CurrentId
  <2>4. PointOwner'
    BY <1>6 DEF ReadPrevious, CurrentId
  <2>5. LockHeld'
    BY <1>6 DEF ReadPrevious, CurrentId
  <2>6. PrevGone'
    <3>1. /\ pc' = [pc EXCEPT ![r] = "upsert"] /\ pc[r] = "prechecked"
          /\ prev' = [prev EXCEPT ![r] = CurrentId(args[r].tenant, args[r].filename)]
          /\ rows' = rows /\ args' = args
      BY <1>6 DEF ReadPrevious
    <3>2. prev'[r] # None => \E row \in rows : /\ row.id = prev'[r]
                                              /\ row.tenant = args[r].tenant
                                              /\ row.filename = args[r].filename
      BY <3>1 DEF CurrentId
    <3>3. prev'[r] # None => /\ prev'[r] # r
                             /\ pc[prev'[r]] \in Recorded
                             /\ args[prev'[r]].tenant = args[r].tenant
                             /\ args[prev'[r]].filename = args[r].filename
      BY <3>1, <3>2
    <3>4. QED
      BY <3>1, <3>3
  <2>7. UniqueNames'
    BY <1>6 DEF ReadPrevious, CurrentId
  <2>8. QED
    BY <2>1, <2>2, <2>3, <2>4, <2>5, <2>6, <2>7
<1>7. ASSUME NEW r \in Requests, Upsert(r)
      PROVE IInv'
  BY <1>7 DEF Upsert
<1>8. ASSUME NEW r \in Requests, RecordBegin(r)
      PROVE IInv'
  <2>1. TypeOK'
    <3>1. FileRows(args[r].tenant, args[r].filename) \in SUBSET Row
      OBVIOUS
    <3>2. args[r].tenant \in Tenants
      BY <1>8 DEF RecordBegin
    <3>3. CASE WithinQuota(args[r].tenant, args[r].filename, args[r].size)
      <4>1. /\ pc' = [pc EXCEPT ![r] = "commit"]
            /\ lock' = [lock EXCEPT ![args[r].tenant] = r]
            /\ victims' = [victims EXCEPT ![r] = FileRows(args[r].tenant, args[r].filename)]
            /\ UNCHANGED <<rows, vectors, tenantVer, args, prev, failures>>
        BY <1>8, <3>3 DEF RecordBegin
      <4>2. QED
        BY <3>1, <3>2, <4>1
    <3>4. CASE ~WithinQuota(args[r].tenant, args[r].filename, args[r].size)
      <4>1. /\ pc' = [pc EXCEPT ![r] = "undoQuota"]
            /\ UNCHANGED <<rows, vectors, tenantVer, lock, args, prev, victims, failures>>
        BY <1>8, <3>4 DEF RecordBegin
      <4>2. QED
        BY <4>1
    <3>5. QED
      BY <3>3, <3>4
  <2>2. ArgsFit'
    BY <1>8 DEF RecordBegin
  <2>3. RowOwner'
    BY <1>8 DEF RecordBegin
  <2>4. PointOwner'
    BY <1>8 DEF RecordBegin
  <2>5. LockHeld'
    BY <1>8 DEF RecordBegin
  <2>6. PrevGone'
    BY <1>8 DEF RecordBegin
  <2>7. UniqueNames'
    BY <1>8 DEF RecordBegin
  <2>8. QED
    BY <2>1, <2>2, <2>3, <2>4, <2>5, <2>6, <2>7
<1>9. ASSUME NEW r \in Requests, RecordCommit(r)
      PROVE IInv'
  <2>1. TypeOK'
    BY <1>9 DEF RecordCommit
  <2>2. ArgsFit'
    BY <1>9 DEF RecordCommit
  <2>3. RowOwner'
    BY <1>9 DEF RecordCommit
  <2>4. PointOwner'
    BY <1>9 DEF RecordCommit
  <2>5. LockHeld'
    BY <1>9 DEF RecordCommit
  <2>6. PrevGone'
    BY <1>9 DEF RecordCommit
  <2>7. UniqueNames'
    BY <1>9 DEF RecordCommit
  <2>8. QED
    BY <2>1, <2>2, <2>3, <2>4, <2>5, <2>6, <2>7
<1>10. ASSUME NEW r \in Requests, Compensate(r)
      PROVE IInv'
  <2>1. TypeOK'
    BY <1>10 DEF Compensate, VectorsWithoutDoc
  <2>2. ArgsFit'
    BY <1>10 DEF Compensate, VectorsWithoutDoc
  <2>3. RowOwner'
    BY <1>10 DEF Compensate, VectorsWithoutDoc
  <2>4. PointOwner'
    BY <1>10 DEF Compensate, VectorsWithoutDoc
  <2>5. LockHeld'
    BY <1>10 DEF Compensate, VectorsWithoutDoc
  <2>6. PrevGone'
    <3>1. /\ rows' = rows /\ args' = args /\ prev' = prev
          /\ pc[r] \in {"undoQuota", "undoFailure", "undoCommitted"}
          /\ \E to \in {"rejected", "undone", "failed"} : pc' = [pc EXCEPT ![r] = to]
          /\ pc[r] = "undoCommitted" => pc'[r] = "failed"
      BY <1>10 DEF Compensate
    <3>2. QED
      BY <3>1
  <2>7. UniqueNames'
    BY <1>10 DEF Compensate, VectorsWithoutDoc
  <2>8. QED
    BY <2>1, <2>2, <2>3, <2>4, <2>5, <2>6, <2>7
<1>11. ASSUME NEW r \in Requests, CleanupPrevious(r)
      PROVE IInv'
  <2>1. TypeOK'
    BY <1>11 DEF CleanupPrevious, VectorsWithoutDoc
  <2>2. ArgsFit'
    BY <1>11 DEF CleanupPrevious, VectorsWithoutDoc
  <2>3. RowOwner'
    BY <1>11 DEF CleanupPrevious, VectorsWithoutDoc
  <2>4. PointOwner'
    BY <1>11 DEF CleanupPrevious, VectorsWithoutDoc
  <2>5. LockHeld'
    BY <1>11 DEF CleanupPrevious, VectorsWithoutDoc
  <2>6. PrevGone'
    BY <1>11 DEF CleanupPrevious, VectorsWithoutDoc
  <2>7. UniqueNames'
    BY <1>11 DEF CleanupPrevious, VectorsWithoutDoc
  <2>8. QED
    BY <2>1, <2>2, <2>3, <2>4, <2>5, <2>6, <2>7
<1>12. ASSUME NEW r \in Requests, DeleteVectors(r)
      PROVE IInv'
  BY <1>12 DEF DeleteVectors, VectorsWithoutFile
<1>13. ASSUME NEW r \in Requests, ClearVectors(r)
      PROVE IInv'
  BY <1>13 DEF ClearVectors, VectorsWithoutTenant
<1>14. ASSUME NEW r \in Requests, Bump(r)
      PROVE IInv'
  BY <1>14 DEF Bump
<1>15. ASSUME NEW r \in Requests, UpsertFails(r)
      PROVE IInv'
  BY <1>15 DEF UpsertFails
<1>16. ASSUME NEW r \in Requests, RecordFails(r)
      PROVE IInv'
  <2>1. TypeOK'
    BY <1>16 DEF RecordFails
  <2>2. ArgsFit'
    BY <1>16 DEF RecordFails
  <2>3. RowOwner'
    BY <1>16 DEF RecordFails
  <2>4. PointOwner'
    BY <1>16 DEF RecordFails
  <2>5. LockHeld'
    BY <1>16 DEF RecordFails
  <2>6. PrevGone'
    BY <1>16 DEF RecordFails
  <2>7. UniqueNames'
    BY <1>16 DEF RecordFails
  <2>8. QED
    BY <2>1, <2>2, <2>3, <2>4, <2>5, <2>6, <2>7
<1>17. ASSUME NEW r \in Requests, CommitReplyLost(r)
      PROVE IInv'
  BY <1>17 DEF CommitReplyLost
<1>18. ASSUME NEW r \in Requests, CompensateFails(r)
      PROVE IInv'
  <2>1. TypeOK'
    BY <1>18 DEF CompensateFails, VectorsWithoutDoc
  <2>2. ArgsFit'
    BY <1>18 DEF CompensateFails, VectorsWithoutDoc
  <2>3. RowOwner'
    BY <1>18 DEF CompensateFails, VectorsWithoutDoc
  <2>4. PointOwner'
    BY <1>18 DEF CompensateFails, VectorsWithoutDoc
  <2>5. LockHeld'
    BY <1>18 DEF CompensateFails, VectorsWithoutDoc
  <2>6. PrevGone'
    BY <1>18 DEF CompensateFails, VectorsWithoutDoc
  <2>7. UniqueNames'
    BY <1>18 DEF CompensateFails, VectorsWithoutDoc
  <2>8. QED
    BY <2>1, <2>2, <2>3, <2>4, <2>5, <2>6, <2>7
<1>19. ASSUME NEW r \in Requests, CleanupFails(r)
      PROVE IInv'
  <2>1. TypeOK'
    BY <1>19 DEF CleanupFails, VectorsWithoutDoc
  <2>2. ArgsFit'
    BY <1>19 DEF CleanupFails, VectorsWithoutDoc
  <2>3. RowOwner'
    BY <1>19 DEF CleanupFails, VectorsWithoutDoc
  <2>4. PointOwner'
    BY <1>19 DEF CleanupFails, VectorsWithoutDoc
  <2>5. LockHeld'
    BY <1>19 DEF CleanupFails, VectorsWithoutDoc
  <2>6. PrevGone'
    BY <1>19 DEF CleanupFails, VectorsWithoutDoc
  <2>7. UniqueNames'
    BY <1>19 DEF CleanupFails, VectorsWithoutDoc
  <2>8. QED
    BY <2>1, <2>2, <2>3, <2>4, <2>5, <2>6, <2>7
<1>20. ASSUME NEW r \in Requests, DeleteVectorsFails(r)
      PROVE IInv'
  BY <1>20 DEF DeleteVectorsFails, VectorsWithoutFile
<1>21. ASSUME NEW r \in Requests, ClearVectorsFails(r)
      PROVE IInv'
  BY <1>21 DEF ClearVectorsFails, VectorsWithoutTenant
<1>22. ASSUME NEW r \in Requests, BumpFails(r)
      PROVE IInv'
  BY <1>22 DEF BumpFails
<1>23. ASSUME NEW r \in Requests, Crash(r)
      PROVE IInv'
  BY <1>23 DEF Crash
<1>24. ASSUME NEW r \in Requests, ReadPreviousFails(r)
      PROVE IInv'
  BY <1>24 DEF ReadPreviousFails
<1>25. CASE UNCHANGED vars
  BY <1>25 DEF vars
<1>q. QED
  BY <1>1, <1>2, <1>3, <1>4, <1>5, <1>6, <1>7, <1>8, <1>9, <1>10, <1>11, <1>12, <1>13, <1>14, <1>15, <1>16, <1>17, <1>18, <1>19, <1>20, <1>21, <1>22, <1>23, <1>24,
     <1>25
  DEF Next, Begin, Step, StepFails

\* The invariant of DocumentStore holds for any number of requests, tenants,
\* files and failures, overlapping or not.
THEOREM Invariance == Spec => []IInv
<1>1. Init => IInv
  BY InitIInv
<1>2. IInv /\ [Next]_vars => IInv'
  BY StepIInv
<1>3. QED
  BY <1>1, <1>2, PTL DEF Spec

\* Every variable keeps its type.
THEOREM TypeCorrect == Spec => []TypeOK
<1>1. IInv => TypeOK
  BY DEF IInv
<1>2. QED
  BY <1>1, Invariance, PTL

\* A tenant never has two rows of one filename: the advisory lock is enough.
THEOREM OneRow == Spec => []OneRowPerFile
<1>1. ASSUME IInv PROVE OneRowPerFile
  <2>1. SUFFICES ASSUME NEW t \in Tenants, NEW f \in Filenames
                 PROVE  Cardinality(FileRows(t, f)) <= 1
    BY DEF OneRowPerFile
  <2>2. CASE FileRows(t, f) = {}
    BY <2>2, FS_EmptySet
  <2>3. CASE FileRows(t, f) # {}
    <3>1. PICK row : row \in FileRows(t, f)
      BY <2>3
    <3>2. FileRows(t, f) = {row}
      BY <1>1, <3>1 DEF IInv, UniqueNames, FileRows, TenantRows
    <3>3. QED
      BY <3>2, FS_Singleton
  <2>4. QED
    BY <2>2, <2>3
<1>2. QED
  BY <1>1, Invariance, PTL

-----------------------------------------------------------------------------
(* How a request begins.                                                   *)

\* It leaves "idle" with its arguments and touches none of the stores.
BeginEffect(r, t) ==
    \E a, to, hit :
        /\ a.tenant = t /\ to \in {"prechecked", "rejected", "delRows", "clearRows"}
        /\ pc[r] = "idle" /\ pc' = [pc EXCEPT ![r] = to]
        /\ args' = [args EXCEPT ![r] = a]
        /\ victims' = [victims EXCEPT ![r] = hit]
        /\ UNCHANGED <<rows, vectors, tenantVer>>

LEMMA BeginsSo ==
    ASSUME IInv, NEW r \in Requests, Begin(r)
    PROVE  \E t \in Tenants : BeginEffect(r, t)
<1> USE DEF BeginEffect, Goto
<1>1. PICK t \in Tenants :
        \/ \E f \in Filenames, size \in Sizes : BeginIngest(r, t, f, size)
        \/ \E target \in Filenames \cup DocIds : BeginDelete(r, t, target)
        \/ BeginClear(r, t)
  BY DEF Begin
<1>2. ASSUME NEW f \in Filenames, NEW size \in Sizes, BeginIngest(r, t, f, size)
      PROVE  BeginEffect(r, t)
  <2> DEFINE a == [kind |-> "ingest", tenant |-> t, filename |-> f, size |-> size,
                   alone |-> Alone(t, {f})]
             to == IF WithinUsage(t, size) THEN "prechecked" ELSE "rejected"
  <2>1. a.tenant = t /\ to \in {"prechecked", "rejected"}
    OBVIOUS
  <2>2. /\ pc[r] = "idle" /\ pc' = [pc EXCEPT ![r] = to]
        /\ args' = [args EXCEPT ![r] = a] /\ UNCHANGED <<rows, vectors, tenantVer, victims>>
    BY <1>2 DEF BeginIngest
  <2>3. victims' = [victims EXCEPT ![r] = victims[r]]
    BY <2>2 DEF IInv, TypeOK
  <2> HIDE DEF a, to
  <2>4. QED
    BY <2>1, <2>2, <2>3
<1>3. ASSUME NEW target, BeginDelete(r, t, target)
      PROVE  BeginEffect(r, t)
  <2>1. PICK f, b : args' = [args EXCEPT ![r] = [kind |-> "delete", tenant |-> t,
                                                 filename |-> f, size |-> None, alone |-> b]]
    BY <1>3 DEF BeginDelete
  <2>2. PICK to \in {"rejected", "delRows"} :
          pc[r] = "idle" /\ pc' = [pc EXCEPT ![r] = to]
    BY <1>3 DEF BeginDelete
  <2>3. /\ victims' = [victims EXCEPT ![r] = Matching(t, target)]
        /\ UNCHANGED <<rows, vectors, tenantVer>>
    BY <1>3 DEF BeginDelete
  <2>4. QED
    BY <2>1, <2>2, <2>3
<1>4. CASE BeginClear(r, t)
  BY <1>4 DEF BeginClear
<1>5. QED
  BY <1>1, <1>2, <1>3, <1>4

-----------------------------------------------------------------------------
(* What the steps of a request have in common.                             *)

RequestStep(r) == Begin(r) \/ Step(r) \/ StepFails(r)

\* A request moves alone, has its arguments from its beginning, and ends once.
LEMMA RequestFrame ==
    ASSUME IInv, NEW r \in Requests, RequestStep(r)
    PROVE  /\ \A q \in Requests \ {r} : pc'[q] = pc[q] /\ args'[q] = args[q]
           /\ pc[r] \in {"idle"} \cup Working
           /\ pc[r] = "idle" => Begin(r)
           /\ pc[r] # "idle" => args' = args /\ pc'[r] # "idle"
           /\ pc'[r] = "done" => pc[r] = "bump"
           /\ pc[r] = "bump" => pc'[r] \in {"done", "crashed"}
<1> USE DEF IInv, TypeOK, Goto, Working
<1>1. CASE Begin(r)
  BY <1>1, BeginsSo DEF BeginEffect
<1>2. CASE Step(r)
  BY <1>2 DEF Step, ReadPrevious, Upsert, RecordBegin, RecordCommit, Compensate,
     CleanupPrevious, DeleteRows, DeleteVectors, ClearRows, ClearVectors, Bump
<1>3. CASE Crash(r)
  BY <1>3 DEF Crash
<1>4. CASE StepFails(r) /\ ~Crash(r)
  BY <1>4 DEF StepFails, ReadPreviousFails, UpsertFails, RecordFails, CommitReplyLost,
     CompensateFails, CleanupFails, DeleteRowsFails, ClearRowsFails, DeleteVectorsFails,
     ClearVectorsFails, BumpFails
<1>5. QED
  BY <1>1, <1>2, <1>3, <1>4 DEF RequestStep

\* What a request adds to the vectors is its own; what it takes away is its own, its
\* predecessor's, its file's or its tenant's.
LEMMA VectorsChange ==
    ASSUME IInv, NEW r \in Requests, RequestStep(r)
    PROVE  \/ vectors' = vectors
           \/ /\ pc[r] = "upsert" /\ pc'[r] \in {"record", "failed"}
              /\ vectors' = vectors \cup {NewPoint(r)}
           \/ /\ pc[r] \in {"undoQuota", "undoFailure", "undoCommitted"}
              /\ vectors' = VectorsWithoutDoc(args[r].tenant, r)
           \/ /\ pc[r] = "cleanup" /\ pc'[r] \in {"bump", "saved"}
              /\ vectors' = VectorsWithoutDoc(args[r].tenant, prev[r])
           \/ /\ pc[r] = "delVectors" /\ pc'[r] \in {"bump", "failed"}
              /\ vectors' = VectorsWithoutFile(args[r].tenant, args[r].filename)
           \/ /\ pc[r] = "clearVectors" /\ pc'[r] \in {"bump", "failed"}
              /\ vectors' = VectorsWithoutTenant(args[r].tenant)
<1> USE DEF IInv, TypeOK, Goto
<1>1. CASE Begin(r)
  BY <1>1, BeginsSo DEF BeginEffect
<1>2. CASE Upsert(r) \/ UpsertFails(r)
  BY <1>2 DEF Upsert, UpsertFails
<1>3. CASE Compensate(r) \/ CompensateFails(r)
  BY <1>3 DEF Compensate, CompensateFails
<1>4. CASE CleanupPrevious(r) \/ CleanupFails(r)
  BY <1>4 DEF CleanupPrevious, CleanupFails
<1>5. CASE DeleteVectors(r) \/ DeleteVectorsFails(r)
  BY <1>5 DEF DeleteVectors, DeleteVectorsFails
<1>6. CASE ClearVectors(r) \/ ClearVectorsFails(r)
  BY <1>6 DEF ClearVectors, ClearVectorsFails
<1>7. CASE \/ ReadPrevious(r) \/ RecordBegin(r) \/ RecordCommit(r) \/ DeleteRows(r) \/ ClearRows(r)
           \/ Bump(r) \/ ReadPreviousFails(r) \/ RecordFails(r) \/ CommitReplyLost(r)
           \/ DeleteRowsFails(r) \/ ClearRowsFails(r) \/ BumpFails(r) \/ Crash(r)
  BY <1>7 DEF ReadPrevious, RecordBegin, RecordCommit, DeleteRows, ClearRows, Bump,
     ReadPreviousFails, RecordFails, CommitReplyLost, DeleteRowsFails, ClearRowsFails, BumpFails, Crash
<1>8. QED
  BY <1>1, <1>2, <1>3, <1>4, <1>5, <1>6, <1>7 DEF RequestStep, Step, StepFails

\* Only a request that is done increments an epoch, its tenant's.
LEMMA EpochChanges ==
    ASSUME IInv, NEW r \in Requests, RequestStep(r)
    PROVE  \/ tenantVer' = tenantVer
           \/ /\ pc[r] = "bump" /\ pc'[r] = "done" /\ args[r].tenant \in Tenants
              /\ tenantVer' = [tenantVer EXCEPT ![args[r].tenant] = @ + 1]
<1> USE DEF IInv, TypeOK, Goto
<1>1. CASE Begin(r)
  BY <1>1, BeginsSo DEF BeginEffect
<1>2. CASE Bump(r)
  BY <1>2 DEF Bump, ArgsFit, Working
<1>3. CASE Step(r) /\ ~Bump(r)
  BY <1>3 DEF Step, ReadPrevious, Upsert, RecordBegin, RecordCommit, Compensate,
     CleanupPrevious, DeleteRows, DeleteVectors, ClearRows, ClearVectors
<1>4. CASE StepFails(r)
  BY <1>4 DEF StepFails, ReadPreviousFails, UpsertFails, RecordFails, CommitReplyLost,
     CompensateFails, CleanupFails, DeleteRowsFails, ClearRowsFails, DeleteVectorsFails,
     ClearVectorsFails, BumpFails, Crash
<1>5. QED
  BY <1>1, <1>2, <1>3, <1>4 DEF RequestStep

-----------------------------------------------------------------------------
(* The document quota.                                                     *)

\* Rows are only taken away, or exchanged for one by the commit of a transaction.
LEMMA RowsChange ==
    ASSUME IInv, [Next]_vars
    PROVE  \/ rows' \subseteq rows
           \/ \E r \in Requests :
                 /\ pc[r] = "commit" /\ pc'[r] # "commit"
                 /\ rows' = (rows \ victims[r]) \cup {NewRow(r)}
<1> USE DEF Goto, IInv, TypeOK
<1>1. ASSUME NEW r \in Requests, Begin(r) PROVE rows' \subseteq rows
  BY <1>1, BeginsSo DEF BeginEffect
<1>2. ASSUME NEW r \in Requests, RecordCommit(r) \/ CommitReplyLost(r)
      PROVE  /\ pc[r] = "commit" /\ pc'[r] # "commit"
             /\ rows' = (rows \ victims[r]) \cup {NewRow(r)}
  BY <1>2 DEF RecordCommit, CommitReplyLost
<1>3. ASSUME NEW r \in Requests, Step(r) \/ StepFails(r),
             ~RecordCommit(r), ~CommitReplyLost(r)
      PROVE  rows' \subseteq rows
  BY <1>3 DEF Step, StepFails, ReadPrevious, Upsert, RecordBegin, Compensate,
     CleanupPrevious, DeleteRows, DeleteVectors, ClearRows, ClearVectors, Bump,
     ReadPreviousFails, UpsertFails, RecordFails, DeleteRowsFails, ClearRowsFails,
     CompensateFails, CleanupFails, DeleteVectorsFails, ClearVectorsFails, BumpFails, Crash
<1>4. CASE UNCHANGED vars
  BY <1>4 DEF vars
<1>5. QED
  BY <1>1, <1>2, <1>3, <1>4 DEF Next

\* A transaction that is open after a step was open before it, or the step opened it.
LEMMA OpenTransaction ==
    ASSUME IInv, [Next]_vars, NEW r \in Requests, pc'[r] = "commit"
    PROVE  \/ pc[r] = "commit" /\ args'[r] = args[r] /\ victims'[r] = victims[r]
           \/ RecordBegin(r)
<1> USE DEF Goto, IInv, TypeOK, Unlock
<1>1. ASSUME NEW q \in Requests, Begin(q)
      PROVE  pc[r] = "commit" /\ args'[r] = args[r] /\ victims'[r] = victims[r]
  BY <1>1, BeginsSo DEF BeginEffect
<1>2. ASSUME NEW q \in Requests, Step(q) \/ StepFails(q), ~RecordBegin(r)
      PROVE  pc[r] = "commit" /\ args'[r] = args[r] /\ victims'[r] = victims[r]
  BY <1>2 DEF Step, StepFails, ReadPrevious, Upsert, RecordBegin, RecordCommit, Compensate,
     CleanupPrevious, DeleteRows, DeleteVectors, ClearRows, ClearVectors, Bump,
     ReadPreviousFails, UpsertFails, RecordFails, CommitReplyLost, DeleteRowsFails,
     ClearRowsFails, CompensateFails, CleanupFails, DeleteVectorsFails, ClearVectorsFails,
     BumpFails, Crash
<1>3. CASE UNCHANGED vars
  BY <1>3 DEF vars
<1>4. QED
  BY <1>1, <1>2, <1>3 DEF Next

LEMMA SubsetCardinality ==
    ASSUME NEW S, IsFiniteSet(S), NEW T, T \subseteq S
    PROVE  /\ IsFiniteSet(T)
           /\ Cardinality(S) \in Nat /\ Cardinality(T) \in Nat
           /\ Cardinality(T) <= Cardinality(S)
<1>1. T \in SUBSET S
  OBVIOUS
<1>2. IsFiniteSet(T) /\ Cardinality(T) <= Cardinality(S)
  BY <1>1, FS_Subset
<1>3. QED
  BY <1>2, FS_CardinalityType

LEMMA AddCardinality ==
    ASSUME NEW S, IsFiniteSet(S), NEW x
    PROVE  /\ Cardinality(S) \in Nat /\ Cardinality(S \cup {x}) \in Nat
           /\ Cardinality(S \cup {x}) <= Cardinality(S) + 1
<1>1. Cardinality(S) \in Nat
  BY FS_CardinalityType
<1>2. QED
  BY <1>1, FS_AddElement

\* The quota check of a transaction leaves room for its document: the rows it is
\* going to replace do not count.
LEMMA QuotaCheck ==
    ASSUME IsFiniteSet(rows), NEW t, NEW f, NEW size, WithinQuota(t, f, size)
    PROVE  Cardinality(TenantRows(t) \ FileRows(t, f)) + 1 <= MaxDocuments
<1> DEFINE S == TenantRows(t)
           F == FileRows(t, f)
<1>1. IsFiniteSet(S) /\ Cardinality(S) \in Nat
  <2>1. S \subseteq rows
    BY DEF TenantRows
  <2>2. QED
    BY <2>1, SubsetCardinality
<1>2. Cardinality(S) + (IF F = {} THEN 1 ELSE 0) <= MaxDocuments
  BY DEF WithinQuota
<1>3. CASE F = {}
  <2>1. S \ F = S
    BY <1>3
  <2>2. QED
    BY <1>2, <1>3, <2>1
<1>4. CASE F # {}
  <2>1. PICK row : row \in F
    BY <1>4
  <2>2. row \in S /\ S \ F \subseteq S \ {row}
    BY <2>1 DEF FileRows
  <2>3. IsFiniteSet(S \ {row}) /\ Cardinality(S \ {row}) = Cardinality(S) - 1
    BY <1>1, <2>2, FS_RemoveElement
  <2>4. Cardinality(S \ F) \in Nat /\ Cardinality(S \ F) <= Cardinality(S \ {row})
    BY <2>2, <2>3, SubsetCardinality
  <2>5. QED
    BY <1>1, <1>2, <1>4, <2>3, <2>4, QuotaAssumption
<1>5. QED
  BY <1>3, <1>4

LEMMA StepQInv == QInv /\ [Next]_vars => QInv'
<1> SUFFICES ASSUME QInv, [Next]_vars PROVE QInv'
  OBVIOUS
<1> USE QuotaAssumption
<1>1. IInv /\ IInv' /\ IsFiniteSet(rows)
  BY StepIInv DEF QInv
<1>2. IsFiniteSet(rows')
  <2>1. CASE rows' \subseteq rows
    BY <1>1, <2>1, SubsetCardinality
  <2>2. ASSUME NEW r \in Requests, rows' = (rows \ victims[r]) \cup {NewRow(r)}
        PROVE  IsFiniteSet(rows')
    <3>1. IsFiniteSet(rows \ victims[r])
      BY <1>1, SubsetCardinality
    <3>2. QED
      BY <2>2, <3>1, FS_AddElement
  <2>3. QED
    BY <1>1, <2>1, <2>2, RowsChange
<1>3. DocumentQuota'
  <2> SUFFICES ASSUME NEW t \in Tenants
               PROVE  Cardinality(TenantRows(t)') <= MaxDocuments
    BY DEF DocumentQuota
  <2>0. IsFiniteSet(TenantRows(t)) /\ Cardinality(TenantRows(t)) <= MaxDocuments
    <3>1. TenantRows(t) \subseteq rows
      BY DEF TenantRows
    <3>2. QED
      BY <1>1, <3>1, SubsetCardinality DEF QInv, DocumentQuota
  <2>1. CASE TenantRows(t)' \subseteq TenantRows(t)
    BY <2>0, <2>1, SubsetCardinality
  <2>2. ASSUME NEW r \in Requests, pc[r] = "commit", args[r].tenant = t,
               rows' = (rows \ victims[r]) \cup {NewRow(r)}
        PROVE  Cardinality(TenantRows(t)') <= MaxDocuments
    <3> DEFINE S == TenantRows(t) \ victims[r]
    <3>1. TenantRows(t)' = S \cup {NewRow(r)}
      BY <2>2 DEF TenantRows, NewRow
    <3>2. IsFiniteSet(S)
      BY <2>0, SubsetCardinality
    <3>3. Cardinality(S) + 1 <= MaxDocuments
      BY <2>2 DEF QInv, RoomReserved
    <3> HIDE DEF S
    <3>4. QED
      BY <3>1, <3>2, <3>3, AddCardinality
  <2>3. QED
    BY <1>1, <2>1, <2>2, RowsChange DEF TenantRows, NewRow
<1>4. RoomReserved'
  <2> SUFFICES ASSUME NEW r \in Requests, pc'[r] = "commit"
               PROVE  Cardinality(TenantRows(args[r].tenant)' \ victims'[r]) + 1
                        <= MaxDocuments
    BY DEF RoomReserved, TenantRows
  <2>1. CASE RecordBegin(r)
    <3> DEFINE t == args[r].tenant
    <3>1. /\ WithinQuota(t, args[r].filename, args[r].size)
          /\ victims'[r] = FileRows(t, args[r].filename)
          /\ rows' = rows /\ args' = args
      BY <1>1, <2>1 DEF RecordBegin, Goto, IInv, TypeOK
    <3>2. TenantRows(args[r].tenant)' = TenantRows(t)
      BY <3>1 DEF TenantRows
    <3>3. QED
      BY <1>1, <3>1, <3>2, QuotaCheck
  <2>2. CASE pc[r] = "commit" /\ args'[r] = args[r] /\ victims'[r] = victims[r]
    <3> DEFINE S == TenantRows(args[r].tenant) \ victims[r]
               T == TenantRows(args[r].tenant)' \ victims'[r]
    <3>1. IsFiniteSet(S)
      <4>1. S \subseteq rows
        BY DEF TenantRows
      <4>2. QED
        BY <1>1, <4>1, SubsetCardinality
    <3>2. Cardinality(S) + 1 <= MaxDocuments
      BY <2>2 DEF QInv, RoomReserved
    <3>3. T \subseteq S
      <4>1. CASE rows' \subseteq rows
        BY <2>2, <4>1 DEF TenantRows
      <4>2. ASSUME NEW q \in Requests, pc[q] = "commit", pc'[q] # "commit",
                   rows' = (rows \ victims[q]) \cup {NewRow(q)}
            PROVE  T \subseteq S
        <5>1. args[q].tenant # args[r].tenant
          BY <1>1, <2>2, <4>2 DEF IInv, LockHeld
        <5>2. QED
          BY <2>2, <4>2, <5>1 DEF TenantRows, NewRow
      <4>3. QED
        BY <1>1, <4>1, <4>2, RowsChange
    <3> HIDE DEF S, T
    <3>4. Cardinality(T) <= Cardinality(S) /\ Cardinality(T) \in Nat /\ Cardinality(S) \in Nat
      BY <3>1, <3>3, SubsetCardinality
    <3>5. Cardinality(T) + 1 <= MaxDocuments
      BY <3>2, <3>4
    <3>6. QED
      BY <3>5 DEF T
  <2>3. QED
    BY <1>1, <2>1, <2>2, OpenTransaction
<1>5. QED
  BY <1>1, <1>2, <1>3, <1>4 DEF QInv

\* The room that a quota check has found stays reserved until the transaction ends.
THEOREM QuotaInvariance == Spec => []QInv
<1>1. Init => QInv
  <2>1. ASSUME Init, NEW t PROVE TenantRows(t) = {}
    BY <2>1 DEF Init, TenantRows
  <2>2. QED
    BY <2>1, InitIInv, FS_EmptySet, QuotaAssumption
    DEF Init, QInv, RoomReserved, DocumentQuota
<1>2. QInv /\ [Next]_vars => QInv'
  BY StepQInv
<1>3. QED
  BY <1>1, <1>2, PTL DEF Spec

\* A tenant never has more documents than MAX_DOCUMENTS_PER_TENANT.
THEOREM QuotaTheorem == Spec => []DocumentQuota
<1>1. QInv => DocumentQuota
  BY DEF QInv
<1>2. QED
  BY <1>1, QuotaInvariance, PTL

-----------------------------------------------------------------------------
(* The sum of the sizes of some rows.  It is defined by recursion; what is *)
(* needed of it follows from the least-number principle.                   *)

LEMMA LeastNatural ==
    ASSUME NEW T \in SUBSET Nat, T # {}
    PROVE  \E n \in T : \A m \in T : n <= m
<1> DEFINE R == {x \in Nat \X Nat : x[1] < x[2]}
<1>1. IsWellFoundedOn(R, Nat)
  BY NatLessThanWellFounded DEF OpToRel
<1> HIDE DEF R
<1>2. PICK n \in T : \A m \in T : ~(<<m, n>> \in R)
  BY <1>1, WFMin
<1>3. ASSUME NEW m \in T PROVE n <= m
  <2>1. m \in Nat /\ n \in Nat /\ <<m, n>> \in Nat \X Nat
    BY <1>2
  <2>2. ~(<<m, n>>[1] < <<m, n>>[2])
    BY <1>2, <2>1 DEF R
  <2>3. ~(m < n)
    BY <2>2
  <2>4. QED
    BY <2>1, <2>3
<1>4. QED
  BY <1>2, <1>3

Any(s) == CHOOSE x \in s : TRUE
Sum(g, s) == IF s = {} THEN 0 ELSE Any(s).size + g[s \ {Any(s)}]
Sums(S) == CHOOSE g : g = [s \in SUBSET S |-> Sum(g, s)]

LEMMA BytesIsSum == ASSUME NEW S PROVE Bytes(S) = Sums(S)[S]
BY DEF Bytes, MapThenSumSet, MapThenFoldSet, Sums, Sum, Any

\* A set without one of its elements is smaller.
LEMMA OneLess ==
    ASSUME NEW S, IsFiniteSet(S), NEW s \in SUBSET S, s # {}, NEW x \in s
    PROVE  /\ IsFiniteSet(s) /\ Cardinality(s) \in Nat /\ Cardinality(s) # 0
           /\ s \ {x} \in SUBSET S /\ IsFiniteSet(s \ {x})
           /\ Cardinality(s \ {x}) \in Nat /\ Cardinality(s \ {x}) < Cardinality(s)
<1>1. IsFiniteSet(s) /\ Cardinality(s) \in Nat
  BY SubsetCardinality
<1>2. /\ IsFiniteSet(s \ {x}) /\ Cardinality(s \ {x}) = Cardinality(s) - 1
      /\ Cardinality(s \ {x}) \in Nat
  BY <1>1, FS_RemoveElement, FS_CardinalityType
<1>3. QED
  BY <1>1, <1>2

LEMMA AnyElement == ASSUME NEW s, s # {} PROVE Any(s) \in s
BY DEF Any

\* The recursion has a solution.
LEMMA SumsExist ==
    ASSUME NEW S, IsFiniteSet(S)
    PROVE  Sums(S) = [s \in SUBSET S |-> Sum(Sums(S), s)]
<1> DEFINE Small(n) == {s \in SUBSET S : Cardinality(s) <= n}
           Solved(n) == \E g : g = [s \in Small(n) |-> Sum(g, s)]
           T == {n \in Nat : ~Solved(n)}
<1>1. ASSUME T # {} PROVE FALSE
  <2>1. PICK m \in T : \A n \in T : m <= n
    BY <1>1, LeastNatural
  <2>2. m \in Nat /\ ~Solved(m)
    BY <2>1
  <2>3. m # 0 => m - 1 \in Nat /\ ~(m <= m - 1)
    BY <2>2
  <2>4. PICK f : m # 0 => f = [s \in Small(m - 1) |-> Sum(f, s)]
    <3>1. CASE m = 0
      BY <3>1
    <3>2. CASE m # 0
      <4>1. m - 1 \notin T
        BY <2>1, <2>3, <3>2
      <4>2. Solved(m - 1)
        BY <2>3, <3>2, <4>1
      <4>3. QED
        BY <4>2
    <3>3. QED
      BY <3>1, <3>2
  <2> DEFINE g == [s \in Small(m) |-> Sum(f, s)]
  <2>5. ASSUME NEW s \in Small(m) PROVE Sum(f, s) = Sum(g, s)
    <3>1. CASE s = {}
      BY <3>1 DEF Sum
    <3>2. CASE s # {}
      <4> DEFINE u == s \ {Any(s)}
      <4>1. /\ Cardinality(s) \in Nat /\ Cardinality(s) # 0 /\ u \in SUBSET S
            /\ Cardinality(u) \in Nat /\ Cardinality(u) < Cardinality(s)
        BY <3>2, OneLess, AnyElement
      <4>2. m # 0 /\ u \in Small(m) /\ u \in Small(m - 1)
        BY <2>2, <4>1
      <4>3. f[u] = Sum(f, u) /\ g[u] = Sum(f, u)
        BY <2>4, <4>2
      <4>4. QED
        BY <3>2, <4>3 DEF Sum
    <3>3. QED
      BY <3>1, <3>2
  <2>6. g = [s \in Small(m) |-> Sum(g, s)]
    BY <2>5
  <2>7. QED
    BY <2>2, <2>6
<1>2. Cardinality(S) \in Nat /\ Small(Cardinality(S)) = SUBSET S
  BY SubsetCardinality
<1>3. Solved(Cardinality(S))
  BY <1>1, <1>2
<1>4. \E g : g = [s \in SUBSET S |-> Sum(g, s)]
  BY <1>2, <1>3
<1>5. QED
  BY <1>4 DEF Sums

LEMMA SumsAt ==
    ASSUME NEW S, IsFiniteSet(S), NEW u \in SUBSET S
    PROVE  Sums(S)[u] = Sum(Sums(S), u)
<1>1. ASSUME NEW f, NEW g, f = [s \in SUBSET S |-> Sum(g, s)]
      PROVE  f[u] = Sum(g, u)
  BY <1>1
<1>2. Sums(S) = [s \in SUBSET S |-> Sum(Sums(S), s)]
  BY SumsExist
<1>3. QED
  BY <1>1, <1>2

\* It does not depend on the set it was begun for.
LEMMA SumsAgree ==
    ASSUME NEW S, IsFiniteSet(S), NEW s \in SUBSET S
    PROVE  Sums(S)[s] = Bytes(s)
<1> DEFINE Differs(n) == \E u \in SUBSET s : Cardinality(u) = n /\ Sums(S)[u] # Sums(s)[u]
           T == {n \in Nat : Differs(n)}
<1>0. IsFiniteSet(s)
  BY SubsetCardinality
<1>1. ASSUME T # {} PROVE FALSE
  <2>1. PICK m \in T : \A n \in T : m <= n
    BY <1>1, LeastNatural
  <2>2. PICK u \in SUBSET s : Cardinality(u) = m /\ Sums(S)[u] # Sums(s)[u]
    BY <2>1
  <2>3. Sums(S)[u] = Sum(Sums(S), u) /\ Sums(s)[u] = Sum(Sums(s), u)
    <3>1. u \in SUBSET S
      BY <2>2
    <3>2. QED
      BY <1>0, <2>2, <3>1, SumsAt
  <2>4. u # {}
    BY <2>2, <2>3 DEF Sum
  <2> DEFINE v == u \ {Any(u)}
  <2>5. v \in SUBSET s /\ Cardinality(v) \in Nat /\ Cardinality(v) < m
    <3>1. Any(u) \in u
      BY <2>4, AnyElement
    <3>2. u \in SUBSET s
      BY <2>2
    <3>3. /\ u \ {Any(u)} \in SUBSET s /\ Cardinality(u \ {Any(u)}) \in Nat
          /\ Cardinality(u \ {Any(u)}) < Cardinality(u)
      <4> HIDE DEF T, v
      <4>1. QED
        BY <1>0, <2>4, <3>1, <3>2, OneLess
    <3>4. QED
      BY <2>2, <3>3
  <2>6. Cardinality(v) \notin T
    <3> DEFINE n == Cardinality(v)
    <3>1. n \in Nat /\ m \in Nat /\ n < m
      BY <2>1, <2>5
    <3> HIDE DEF n
    <3>2. ~(m <= n)
      BY <3>1
    <3>3. QED
      BY <2>1, <3>2 DEF n
  <2>7. Sums(S)[v] = Sums(s)[v]
    BY <2>5, <2>6
  <2>8. QED
    BY <2>2, <2>3, <2>4, <2>7 DEF Sum
<1>2. Cardinality(s) \in Nat /\ s \in SUBSET s
  BY <1>0, FS_CardinalityType
<1>3. Sums(S)[s] = Sums(s)[s]
  BY <1>1, <1>2
<1>4. QED
  BY <1>3, BytesIsSum

LEMMA BytesUnfold ==
    ASSUME NEW S, IsFiniteSet(S)
    PROVE  Bytes(S) = IF S = {} THEN 0 ELSE Any(S).size + Bytes(S \ {Any(S)})
<1>1. Bytes(S) = Sum(Sums(S), S)
  BY BytesIsSum, SumsAt
<1>2. Sums(S)[S \ {Any(S)}] = Bytes(S \ {Any(S)})
  BY SumsAgree
<1>3. QED
  BY <1>1, <1>2 DEF Sum

\* A sum of sizes is a natural number, and each row counts once.
LEMMA BytesType ==
    ASSUME NEW S \in SUBSET Row, IsFiniteSet(S)
    PROVE  Bytes(S) \in Nat
<1> DEFINE Wrong(n) == \E s \in SUBSET S : Cardinality(s) = n /\ Bytes(s) \notin Nat
           T == {n \in Nat : Wrong(n)}
<1>1. ASSUME T # {} PROVE FALSE
  <2>1. PICK m \in T : \A n \in T : m <= n
    BY <1>1, LeastNatural
  <2>2. PICK s \in SUBSET S : Cardinality(s) = m /\ Bytes(s) \notin Nat
    BY <2>1
  <2>3. IsFiniteSet(s)
    BY SubsetCardinality
  <2>4. s # {} /\ Bytes(s) = Any(s).size + Bytes(s \ {Any(s)})
    BY <2>2, <2>3, BytesUnfold
  <2> DEFINE v == s \ {Any(s)}
  <2>5. v \in SUBSET S /\ Cardinality(v) \in Nat /\ Cardinality(v) < m
    BY <2>2, <2>4, OneLess, AnyElement
  <2>6. Cardinality(v) \notin T
    BY <2>1, <2>5
  <2>7. Bytes(v) \in Nat
    BY <2>5, <2>6
  <2>8. Any(s).size \in Nat
    <3>1. Any(s) \in Row
      BY <2>4, AnyElement
    <3>2. QED
      BY <3>1, SizesAssumption DEF Row
  <2>9. QED
    BY <2>2, <2>4, <2>7, <2>8
<1>2. Cardinality(S) \in Nat /\ S \in SUBSET S
  BY FS_CardinalityType
<1>3. QED
  BY <1>1, <1>2

LEMMA BytesAdd ==
    ASSUME NEW S \in SUBSET Row, IsFiniteSet(S), NEW x \in Row, x \notin S
    PROVE  Bytes(S \cup {x}) = Bytes(S) + x.size
<1> DEFINE U == S \cup {x}
           Wrong(n) == \E s \in SUBSET U : \E y \in U \ s :
                          Cardinality(s) = n /\ Bytes(s \cup {y}) # Bytes(s) + y.size
           T == {n \in Nat : Wrong(n)}
<1>0. IsFiniteSet(U) /\ U \in SUBSET Row
  BY FS_AddElement
<1>1. ASSUME T # {} PROVE FALSE
  <2>1. PICK m \in T : \A n \in T : m <= n
    BY <1>1, LeastNatural
  <2>2. PICK s \in SUBSET U : \E y \in U \ s :
                          Cardinality(s) = m /\ Bytes(s \cup {y}) # Bytes(s) + y.size
    BY <2>1
  <2>3. PICK y \in U \ s : Cardinality(s) = m /\ Bytes(s \cup {y}) # Bytes(s) + y.size
    BY <2>2
  <2> DEFINE z == Any(s \cup {y})
             v == s \ {z}
  <2> HIDE DEF U
  <2>4. /\ IsFiniteSet(s) /\ IsFiniteSet(s \cup {y}) /\ y \notin s /\ s \subseteq Row
        /\ z \in s \cup {y} /\ z \in U /\ y \in Row /\ z \in Row
    <3>1. IsFiniteSet(s) /\ IsFiniteSet(s \cup {y})
      BY <1>0, SubsetCardinality, FS_AddElement
    <3>2. z \in s \cup {y}
      BY AnyElement
    <3>3. QED
      BY <1>0, <3>1, <3>2
  <2>5. Bytes(s \cup {y}) = z.size + Bytes((s \cup {y}) \ {z})
    <3>1. s \cup {y} # {}
      OBVIOUS
    <3>2. QED
      BY <2>4, <3>1, BytesUnfold
  <2>6. \A row \in Row : row.size \in Nat
    BY SizesAssumption DEF Row
  <2> HIDE DEF z
  <2>7. CASE z = y
    <3>1. (s \cup {y}) \ {z} = s
      BY <2>4, <2>7
    <3>2. Bytes(s) \in Nat /\ y.size \in Nat
      BY <2>4, <2>6, BytesType
    <3>3. Bytes(s \cup {y}) = y.size + Bytes(s)
      BY <2>5, <2>7, <3>1
    <3>4. QED
      BY <2>3, <3>2, <3>3
  <2>8. CASE z # y
    <3>1. z \in s /\ (s \cup {y}) \ {z} = v \cup {y} /\ v \in SUBSET U /\ v \cup {z} = s
          /\ y \in U \ v /\ z \in U \ v
      BY <2>4, <2>8
    <3>2. /\ IsFiniteSet(v) /\ Cardinality(v) \in Nat /\ Cardinality(v) < Cardinality(s)
      BY <1>0, <3>1, OneLess
    <3>3. Cardinality(v) \notin T
      <4> DEFINE n == Cardinality(v)
      <4>1. n \in Nat /\ m \in Nat /\ n < m
        BY <2>1, <2>3, <3>2
      <4> HIDE DEF n
      <4>2. ~(m <= n)
        BY <4>1
      <4>3. QED
        BY <2>1, <4>2 DEF n
    <3>4. Bytes(v \cup {y}) = Bytes(v) + y.size /\ Bytes(v \cup {z}) = Bytes(v) + z.size
      BY <3>1, <3>2, <3>3
    <3>5. Bytes(v) \in Nat /\ y.size \in Nat /\ z.size \in Nat
      BY <2>4, <2>6, <3>2, BytesType
    <3>6. Bytes(s) = Bytes(v) + z.size /\ Bytes(s \cup {y}) = z.size + (Bytes(v) + y.size)
      BY <2>5, <3>1, <3>4
    <3>7. QED
      BY <2>3, <3>5, <3>6
  <2>9. QED
    BY <2>7, <2>8
<1>2. Cardinality(S) \in Nat /\ S \in SUBSET U /\ x \in U \ S
  BY FS_CardinalityType
<1>3. QED
  BY <1>1, <1>2

LEMMA BytesUnion ==
    ASSUME NEW S \in SUBSET Row, IsFiniteSet(S), NEW R \in SUBSET S
    PROVE  /\ Bytes(R) \in Nat /\ Bytes(S \ R) \in Nat
           /\ Bytes(S) = Bytes(S \ R) + Bytes(R)
<1> DEFINE Wrong(n) == \E s \in SUBSET R : Cardinality(s) = n
                          /\ Bytes((S \ R) \cup s) # Bytes(S \ R) + Bytes(s)
           T == {n \in Nat : Wrong(n)}
<1>0. IsFiniteSet(R) /\ IsFiniteSet(S \ R) /\ Bytes(R) \in Nat /\ Bytes(S \ R) \in Nat
  BY SubsetCardinality, BytesType
<1>1. ASSUME T # {} PROVE FALSE
  <2>1. PICK m \in T : \A n \in T : m <= n
    BY <1>1, LeastNatural
  <2>2. PICK s \in SUBSET R : Cardinality(s) = m
                              /\ Bytes((S \ R) \cup s) # Bytes(S \ R) + Bytes(s)
    BY <2>1
  <2>3. s # {}
    <3>1. Bytes({}) = 0
      BY BytesUnfold, FS_EmptySet
    <3>2. (S \ R) \cup {} = S \ R
      OBVIOUS
    <3>3. QED
      BY <1>0, <2>2, <3>1, <3>2
  <2>4. PICK z : z \in s
    BY <2>3
  <2> DEFINE v == s \ {z}
             W == (S \ R) \cup v
  <2>5. /\ v \in SUBSET R /\ IsFiniteSet(v) /\ Cardinality(v) \in Nat
        /\ Cardinality(v) < Cardinality(s)
    BY <1>0, <2>3, <2>4, OneLess
  <2>6. Cardinality(v) \notin T
    <3> DEFINE n == Cardinality(v)
    <3>1. n \in Nat /\ m \in Nat /\ n < m
      BY <2>1, <2>2, <2>5
    <3> HIDE DEF n
    <3>2. ~(m <= n)
      BY <3>1
    <3>3. QED
      BY <2>1, <3>2 DEF n
  <2>7. Bytes(W) = Bytes(S \ R) + Bytes(v)
    BY <2>5, <2>6
  <2>8. W \in SUBSET S /\ z \in Row /\ z \notin W /\ z \notin v /\ v \in SUBSET Row
        /\ W \cup {z} = (S \ R) \cup s /\ v \cup {z} = s
    BY <2>2, <2>4
  <2>9. IsFiniteSet(W)
    BY <2>8, SubsetCardinality
  <2> HIDE DEF v, W
  <2>10. Bytes(W \cup {z}) = Bytes(W) + z.size /\ Bytes(v \cup {z}) = Bytes(v) + z.size
    BY <2>5, <2>8, <2>9, BytesAdd
  <2>11. Bytes(v) \in Nat /\ z.size \in Nat
    BY <2>5, <2>8, BytesType, SizesAssumption DEF Row
  <2>12. Bytes((S \ R) \cup s) = (Bytes(S \ R) + Bytes(v)) + z.size
         /\ Bytes(s) = Bytes(v) + z.size
    BY <2>7, <2>8, <2>10
  <2>13. QED
    BY <1>0, <2>2, <2>11, <2>12
<1>2. Cardinality(R) \in Nat /\ R \in SUBSET R /\ (S \ R) \cup R = S
  BY <1>0, FS_CardinalityType
<1>3. QED
  BY <1>0, <1>1, <1>2

LEMMA BytesMonotone ==
    ASSUME NEW S \in SUBSET Row, IsFiniteSet(S), NEW R \in SUBSET S
    PROVE  Bytes(R) \in Nat /\ Bytes(S) \in Nat /\ Bytes(R) <= Bytes(S)
<1> DEFINE a == Bytes(R)
           b == Bytes(S)
           c == Bytes(S \ R)
<1>1. a \in Nat /\ c \in Nat /\ b = c + a
  BY BytesUnion
<1> HIDE DEF a, b, c
<1>2. a <= b /\ b \in Nat
  BY <1>1
<1>3. QED
  BY <1>1, <1>2 DEF a, b

-----------------------------------------------------------------------------
(* The storage quota, in the same way as the document quota.               *)

\* The bytes that an open transaction has found room for are still there.
StorageReserved ==
    \A r \in Requests :
        pc[r] = "commit" =>
            Bytes(TenantRows(args[r].tenant) \ victims[r]) + args[r].size <= MaxStorage

SInv == QInv /\ StorageReserved /\ StorageQuota

LEMMA StorageCheck ==
    ASSUME IsFiniteSet(rows), rows \subseteq Row, NEW t, NEW f, NEW size \in Nat,
           WithinQuota(t, f, size)
    PROVE  Bytes(TenantRows(t) \ FileRows(t, f)) + size <= MaxStorage
<1> DEFINE S == TenantRows(t)
           F == FileRows(t, f)
           a == Bytes(S)
           b == Bytes(F)
           c == Bytes(S \ F)
<1>1. S \in SUBSET Row /\ IsFiniteSet(S) /\ F \in SUBSET S
  <2>1. S \subseteq rows /\ F \subseteq S
    BY DEF TenantRows, FileRows
  <2>2. QED
    BY <2>1, SubsetCardinality
<1> HIDE DEF S, F
<1>2. b \in Nat /\ c \in Nat /\ a = c + b
  BY <1>1, BytesUnion
<1>3. a - b + size <= MaxStorage
  BY DEF WithinQuota, S, F
<1> HIDE DEF a, b, c
<1>4. c + size <= MaxStorage
  BY <1>2, <1>3, QuotaAssumption
<1>5. QED
  BY <1>4 DEF c, S, F

LEMMA StepSInv == SInv /\ [Next]_vars => SInv'
<1> SUFFICES ASSUME SInv, [Next]_vars PROVE SInv'
  OBVIOUS
<1>1. QInv /\ QInv' /\ IInv /\ IInv' /\ IsFiniteSet(rows)
  BY StepQInv DEF SInv, QInv
<1>2. /\ rows \in SUBSET Row /\ rows' \in SUBSET Row /\ IsFiniteSet(rows')
      /\ \A t : /\ TenantRows(t) \in SUBSET Row /\ IsFiniteSet(TenantRows(t))
                /\ TenantRows(t)' \in SUBSET Row
  <2>1. rows \in SUBSET Row /\ rows' \in SUBSET Row
    BY <1>1 DEF IInv, TypeOK
  <2>2. \A t : TenantRows(t) \subseteq rows /\ TenantRows(t)' \subseteq rows'
    BY DEF TenantRows
  <2>3. QED
    BY <1>1, <2>1, <2>2, SubsetCardinality DEF QInv
<1>3. ASSUME NEW r \in Requests, pc[r] = "commit"
      PROVE  args[r].size \in Nat /\ NewRow(r).size = args[r].size
    BY <1>1, <1>3, SizesAssumption DEF IInv, ArgsFit, Ingesting, IngestArgs, NewRow
<1>4. StorageQuota'
  <2> SUFFICES ASSUME NEW t \in Tenants
               PROVE  Bytes(TenantRows(t)') <= MaxStorage
    BY DEF StorageQuota
  <2>1. CASE TenantRows(t)' \subseteq TenantRows(t)
    <3> DEFINE a == Bytes(TenantRows(t)')
               b == Bytes(TenantRows(t))
    <3>1. a \in Nat /\ b \in Nat /\ a <= b
      BY <1>2, <2>1, BytesMonotone
    <3>2. b <= MaxStorage
      BY DEF SInv, StorageQuota
    <3> HIDE DEF a, b
    <3>3. a <= MaxStorage
      BY <3>1, <3>2, QuotaAssumption
    <3>4. QED
      BY <3>3 DEF a
  <2>2. ASSUME NEW r \in Requests, pc[r] = "commit", args[r].tenant = t,
               rows' = (rows \ victims[r]) \cup {NewRow(r)}
        PROVE  Bytes(TenantRows(t)') <= MaxStorage
    <3> DEFINE S == TenantRows(t) \ victims[r]
               a == Bytes(S)
               n == args[r].size
    <3>1. TenantRows(t)' = S \cup {NewRow(r)}
      BY <2>2 DEF TenantRows, NewRow
    <3>2. S \in SUBSET Row /\ IsFiniteSet(S)
      BY <1>2, SubsetCardinality
    <3>3. a + n <= MaxStorage
      BY <2>2 DEF SInv, StorageReserved
    <3>4. n \in Nat /\ NewRow(r).size = n
      BY <1>3, <2>2
    <3>5. NewRow(r) \in Row
      BY <1>2, <2>2
    <3> HIDE DEF S, n
    <3>6. a \in Nat
      BY <3>2, BytesType
    <3>7. CASE NewRow(r) \in S
      <4>1. TenantRows(t)' = S
        BY <3>1, <3>7
      <4> HIDE DEF a
      <4>2. a <= MaxStorage
        BY <3>3, <3>4, <3>6, QuotaAssumption
      <4>3. QED
        BY <4>1, <4>2 DEF a
    <3>8. CASE NewRow(r) \notin S
      <4>1. Bytes(TenantRows(t)') = a + n
        BY <3>1, <3>2, <3>4, <3>5, <3>8, BytesAdd
      <4>2. QED
        BY <3>3, <4>1
    <3>9. QED
      BY <3>7, <3>8
  <2>3. QED
    BY <1>1, <2>1, <2>2, RowsChange DEF TenantRows, NewRow
<1>5. StorageReserved'
  <2> SUFFICES ASSUME NEW r \in Requests, pc'[r] = "commit"
               PROVE  Bytes(TenantRows(args[r].tenant)' \ victims'[r]) + args'[r].size
                        <= MaxStorage
    BY DEF StorageReserved
  <2>1. CASE RecordBegin(r)
    <3> DEFINE t == args[r].tenant
    <3>1. /\ WithinQuota(t, args[r].filename, args[r].size) /\ pc[r] = "record"
          /\ victims'[r] = FileRows(t, args[r].filename)
          /\ rows' = rows /\ args' = args
      BY <1>1, <2>1 DEF RecordBegin, Goto, IInv, TypeOK
    <3>2. TenantRows(args[r].tenant)' = TenantRows(t)
      BY <3>1 DEF TenantRows
    <3>3. args[r].size \in Nat
      BY <1>1, <3>1, SizesAssumption DEF IInv, ArgsFit, Ingesting, IngestArgs
    <3>4. QED
      BY <1>1, <1>2, <3>1, <3>2, <3>3, StorageCheck
  <2>2. CASE pc[r] = "commit" /\ args'[r] = args[r] /\ victims'[r] = victims[r]
    <3> DEFINE S == TenantRows(args[r].tenant) \ victims[r]
               R == TenantRows(args[r].tenant)' \ victims'[r]
               n == args[r].size
               a == Bytes(R)
               b == Bytes(S)
    <3>1. S \in SUBSET Row /\ IsFiniteSet(S)
      BY <1>2, SubsetCardinality
    <3>2. b + n <= MaxStorage /\ n \in Nat
      BY <1>3, <2>2 DEF SInv, StorageReserved
    <3>3. R \subseteq S
      <4>1. CASE rows' \subseteq rows
        BY <2>2, <4>1 DEF TenantRows
      <4>2. ASSUME NEW q \in Requests, pc[q] = "commit", pc'[q] # "commit",
                   rows' = (rows \ victims[q]) \cup {NewRow(q)}
            PROVE  R \subseteq S
        <5>1. args[q].tenant # args[r].tenant
          BY <1>1, <2>2, <4>2 DEF IInv, LockHeld
        <5>2. QED
          BY <2>2, <4>2, <5>1 DEF TenantRows, NewRow
      <4>3. QED
        BY <1>1, <4>1, <4>2, RowsChange
    <3> HIDE DEF S, R, n
    <3>4. a \in Nat /\ b \in Nat /\ a <= b
      BY <3>1, <3>3, BytesMonotone
    <3> HIDE DEF a, b
    <3>5. a + n <= MaxStorage
      BY <3>2, <3>4, QuotaAssumption
    <3>6. QED
      BY <2>2, <3>5 DEF a, R, n
  <2>3. QED
    BY <1>1, <2>1, <2>2, OpenTransaction
<1>6. QED
  BY <1>1, <1>4, <1>5 DEF SInv

\* Nor do the sizes of a tenant's documents ever add up to more than
\* MAX_STORAGE_BYTES_PER_TENANT.
THEOREM StorageTheorem == Spec => []StorageQuota
<1>1. Init => SInv
  <2>1. ASSUME Init PROVE QInv
    <3>1. ASSUME NEW t PROVE TenantRows(t) = {}
      BY <2>1 DEF Init, TenantRows
    <3>2. QED
      BY <2>1, <3>1, InitIInv, FS_EmptySet, QuotaAssumption
      DEF Init, QInv, RoomReserved, DocumentQuota
  <2>2. ASSUME Init PROVE StorageReserved /\ StorageQuota
    <3>1. \A t : TenantRows(t) = {}
      BY <2>2 DEF Init, TenantRows
    <3>2. Bytes({}) = 0
      BY BytesUnfold, FS_EmptySet
    <3>3. QED
      BY <2>2, <3>1, <3>2, QuotaAssumption DEF Init, StorageReserved, StorageQuota
  <2>3. QED
    BY <2>1, <2>2 DEF SInv
<1>2. SInv /\ [Next]_vars => SInv'
  BY StepSInv
<1>3. SInv => StorageQuota
  BY DEF SInv
<1>4. QED
  BY <1>1, <1>2, <1>3, PTL DEF Spec

-----------------------------------------------------------------------------
(* Action properties.                                                      *)

\* The vectors of a listed document are taken away by deletions and clears only,
\* or by the compensation of an ingestion that lost the reply of its COMMIT.
THEOREM LiveVectors == Spec => LiveVectorsStay
<1>1. ASSUME IInv, [Next]_vars PROVE LiveVectorsStep
  <2> SUFFICES ASSUME NEW row \in rows, row \in rows',
                      NEW v \in vectors, v \notin vectors', v.doc = row.id
               PROVE  MayLoseVectors(row)
    BY DEF LiveVectorsStep
  <2>0. /\ row = NewRow(row.id) /\ pc[row.id] \in Recorded
        /\ v = NewPoint(row.id) /\ row.id \in Requests
    BY <1>1 DEF IInv, TypeOK, RowOwner, PointOwner, Row, DocIds
  <2>1. ASSUME NEW r \in Requests, Begin(r) PROVE FALSE
    BY <1>1, <2>1, BeginsSo DEF BeginEffect
  <2>2. ASSUME NEW r \in Requests, Compensate(r) \/ CompensateFails(r)
        PROVE  MayLoseVectors(row)
    <3>1. row.id = r
      BY <2>2 DEF Compensate, CompensateFails, VectorsWithoutDoc
    <3>2. QED
      BY <2>0, <2>2, <3>1
      DEF Compensate, CompensateFails, Goto, Recorded, MayLoseVectors
  <2>3. ASSUME NEW r \in Requests, CleanupPrevious(r) \/ CleanupFails(r) PROVE FALSE
    <3>1. row.id = prev[r] /\ pc[r] = "cleanup"
      BY <2>3 DEF CleanupPrevious, CleanupFails, VectorsWithoutDoc, Goto
    <3>2. QED
      BY <1>1, <3>1 DEF IInv, PrevGone
  <2>4. ASSUME NEW r \in Requests, DeleteVectors(r) \/ DeleteVectorsFails(r)
        PROVE  MayLoseVectors(row)
    <3>1. row.tenant = args[r].tenant /\ row.filename = args[r].filename
      BY <2>0, <2>4 DEF DeleteVectors, DeleteVectorsFails, VectorsWithoutFile, NewPoint, NewRow
    <3>2. pc[r] = "delVectors" /\ pc'[r] # pc[r]
      BY <1>1, <2>4 DEF DeleteVectors, DeleteVectorsFails, Goto, IInv, TypeOK
    <3>3. QED
      BY <3>1, <3>2 DEF MayLoseVectors, Touches
  <2>5. ASSUME NEW r \in Requests, ClearVectors(r) \/ ClearVectorsFails(r)
        PROVE  MayLoseVectors(row)
    <3>1. row.tenant = args[r].tenant
      BY <2>0, <2>5 DEF ClearVectors, ClearVectorsFails, VectorsWithoutTenant, NewPoint, NewRow
    <3>2. pc[r] = "clearVectors" /\ pc'[r] # pc[r]
      BY <1>1, <2>5 DEF ClearVectors, ClearVectorsFails, Goto, IInv, TypeOK
    <3>3. args[r].kind = "clear"
      BY <1>1, <3>2 DEF IInv, ArgsFit
    <3>4. QED
      BY <3>1, <3>2, <3>3 DEF MayLoseVectors, Touches
  <2>6. ASSUME NEW r \in Requests,
               \/ ReadPrevious(r) \/ Upsert(r) \/ RecordBegin(r) \/ RecordCommit(r)
               \/ DeleteRows(r) \/ ClearRows(r) \/ DeleteRowsFails(r) \/ ClearRowsFails(r)
               \/ ReadPreviousFails(r)
               \/ Bump(r) \/ UpsertFails(r) \/ RecordFails(r) \/ CommitReplyLost(r)
               \/ BumpFails(r) \/ Crash(r)
        PROVE  FALSE
    BY <2>6 DEF ReadPrevious, Upsert, RecordBegin, RecordCommit, DeleteRows, ClearRows,
       DeleteRowsFails, ClearRowsFails, ReadPreviousFails, Bump, UpsertFails,
       RecordFails, CommitReplyLost, BumpFails, Crash
  <2>7. CASE UNCHANGED vars
    BY <2>7 DEF vars
  <2>8. QED
    BY <1>1, <2>1, <2>2, <2>3, <2>4, <2>5, <2>6, <2>7 DEF Next, Step, StepFails
<1>2. QED
  BY <1>1, Invariance, PTL DEF Spec, LiveVectorsStay

\* A request changes rows, vectors and the cache epoch of its own tenant only.
THEOREM Isolation == Spec => TenantIsolation
<1>1. ASSUME IInv, [Next]_vars PROVE IsolatedStep
  <2> DEFINE OnlyTouches(t) ==
               /\ \A x \in Changed(rows, rows') \cup Changed(vectors, vectors') : x.tenant = t
               /\ \A u \in Tenants \ {t} : tenantVer'[u] = tenantVer[u]
  <2> USE DEF Goto, Changed, NewRow, NewPoint
  <2>1. ASSUME NEW r \in Requests, Begin(r) \/ Step(r) \/ StepFails(r)
        PROVE  pc'[r] # pc[r]
    <3>0. pc \in [Requests -> Labels]
      BY <1>1 DEF IInv, TypeOK
    <3>1. CASE Begin(r)
      BY <1>1, <3>0, <3>1, BeginsSo DEF BeginEffect
    <3>2. CASE Step(r)
      BY <3>0, <3>2 DEF Step, ReadPrevious, Upsert, RecordBegin, RecordCommit, Compensate,
         CleanupPrevious, DeleteRows, DeleteVectors, ClearRows, ClearVectors, Bump
    <3>3. CASE StepFails(r)
      BY <3>0, <3>3 DEF StepFails, ReadPreviousFails, UpsertFails, RecordFails,
         CommitReplyLost, CompensateFails, CleanupFails, DeleteRowsFails, ClearRowsFails,
         DeleteVectorsFails, ClearVectorsFails, BumpFails,
         Crash, Working
    <3>4. QED
      BY <2>1, <3>1, <3>2, <3>3
  <2>2. ASSUME NEW r \in Requests, Begin(r)
        PROVE  OnlyTouches(args'[r].tenant)
    <3>1. PICK t \in Tenants : BeginEffect(r, t)
      BY <1>1, <2>2, BeginsSo
    <3>2. args'[r].tenant = t
      BY <1>1, <3>1 DEF IInv, TypeOK, BeginEffect
    <3>3. QED
      BY <3>1, <3>2 DEF BeginEffect
  <2>3. ASSUME NEW r \in Requests,
               \/ RecordCommit(r) \/ CommitReplyLost(r) \/ DeleteRows(r) \/ ClearRows(r)
               \/ DeleteRowsFails(r) \/ ClearRowsFails(r)
        PROVE  OnlyTouches(args'[r].tenant)
    BY <1>1, <2>3 DEF IInv, LockHeld, RecordCommit, CommitReplyLost, DeleteRows, ClearRows,
       DeleteRowsFails, ClearRowsFails
  <2>4. ASSUME NEW r \in Requests, Step(r) \/ StepFails(r),
               ~RecordCommit(r), ~CommitReplyLost(r), ~DeleteRows(r), ~ClearRows(r),
               ~DeleteRowsFails(r), ~ClearRowsFails(r)
        PROVE  OnlyTouches(args'[r].tenant)
    BY <1>1, <2>4 DEF IInv, TypeOK, Step, StepFails, ReadPrevious, Upsert, RecordBegin,
       Compensate, CleanupPrevious, DeleteVectors, ClearVectors, Bump, ReadPreviousFails,
       UpsertFails, RecordFails, CompensateFails, CleanupFails, DeleteVectorsFails, ClearVectorsFails,
       BumpFails, Crash, VectorsWithoutDoc, VectorsWithoutFile, VectorsWithoutTenant
  <2>5. ASSUME NEW r \in Requests, pc'[r] # pc[r], OnlyTouches(args'[r].tenant)
        PROVE  IsolatedStep
    BY <2>5 DEF IsolatedStep
  <2>6. CASE UNCHANGED vars
    BY <2>6 DEF vars, IsolatedStep
  <2> HIDE DEF OnlyTouches
  <2>7. QED
    BY <1>1, <2>1, <2>2, <2>3, <2>4, <2>5, <2>6 DEF Next
<1>2. QED
  BY <1>1, Invariance, PTL DEF Spec, TenantIsolation

-----------------------------------------------------------------------------
(* DocumentStore implements Catalogue: every step of a request is a step   *)
(* of the list of documents, or leaves list, answers and questions alone.  *)

\* Catalogue counts with its own instance of FiniteSets.
LEMMA SameCardinality == ASSUME NEW S PROVE Promise!Cardinality(S) = Cardinality(S)
BY DEF Promise!Cardinality, Cardinality

LEMMA InitCatalogue == Init => Promise!Init
BY DEF Init, Promise!Init, Seen, Status, StatusAt

\* A request moves to a place where it has no rows in view.
LEMMA Moved ==
    ASSUME TypeOK, NEW r \in Requests, NEW to \in Labels \ {"delRows", "clearRows"},
           pc' = [pc EXCEPT ![r] = to], args' = args,
           \A q \in Requests \ {r} : victims'[q] = victims[q]
    PROVE  /\ Status' = [Status EXCEPT ![r] = StatusAt(args[r].kind, to)]
           /\ Seen' = [Seen EXCEPT ![r] = {}]
           /\ pc[r] \notin {"delRows", "clearRows"} => Seen' = Seen
           /\ Status[r] = StatusAt(args[r].kind, pc[r])
           /\ pc[r] \in {"delRows", "clearRows"} => Seen[r] = victims[r]
<1>1. /\ pc'[r] = to
      /\ \A q \in Requests \ {r} : pc'[q] = pc[q]
  BY DEF TypeOK
<1>2. Status' = [Status EXCEPT ![r] = StatusAt(args[r].kind, to)]
  <2>1. Status' = [q \in Requests |-> StatusAt(args[q].kind, pc'[q])]
    BY DEF Status, StatusAt
  <2>2. Status = [q \in Requests |-> StatusAt(args[q].kind, pc[q])]
    BY DEF Status
  <2>3. QED
    BY <1>1, <2>1, <2>2
<1>3. Seen' = [Seen EXCEPT ![r] = {}]
  BY <1>1 DEF Seen
<1>4. pc[r] \notin {"delRows", "clearRows"} => Seen' = Seen
  BY <1>1 DEF Seen
<1>5. QED
  BY <1>2, <1>3, <1>4 DEF Status, Seen

\* Steps inside an ingestion that its client cannot see.
LEMMA Hidden ==
    ASSUME TypeOK, NEW r \in Requests, NEW to \in Labels \ {"delRows", "clearRows"},
           pc' = [pc EXCEPT ![r] = to],
           \A q \in Requests \ {r} : victims'[q] = victims[q],
           pc[r] \notin {"delRows", "clearRows"},
           StatusAt(args[r].kind, pc[r]) = StatusAt(args[r].kind, to),
           rows' = rows, args' = args
    PROVE  UNCHANGED Promise!vars
<1>1. Status' = Status
  <2>1. [Status EXCEPT ![r] = Status[r]] = Status
    BY DEF Status
  <2>2. /\ Status' = [Status EXCEPT ![r] = StatusAt(args[r].kind, to)]
        /\ Status[r] = StatusAt(args[r].kind, pc[r])
    BY Moved
  <2>3. QED
    BY <2>1, <2>2
<1>2. Seen' = Seen
  BY Moved
<1>3. QED
  BY <1>1, <1>2 DEF Promise!vars

LEMMA BeginCatalogue ==
    ASSUME QInv, NEW r \in Requests, Begin(r)
    PROVE  Promise!Open(r)
<1> USE DEF Goto
<1>0. TypeOK
  BY DEF QInv, IInv
<1>1. PICK t \in Tenants :
        \/ \E f \in Filenames, size \in Sizes : BeginIngest(r, t, f, size)
        \/ \E target \in Filenames \cup DocIds : BeginDelete(r, t, target)
        \/ BeginClear(r, t)
  BY DEF Begin
<1>2. ASSUME pc[r] = "idle", NEW to \in Labels, pc' = [pc EXCEPT ![r] = to],
             NEW found, victims' = [victims EXCEPT ![r] = found],
             found # {} => to \in {"delRows", "clearRows"},
             NEW a \in Args, args' = [args EXCEPT ![r] = a],
             found \in Promise!Targets(a),
             StatusAt(a.kind, to) \in {"open", "refused", "missing"},
             StatusAt(a.kind, to) = "refused" => a.kind = "ingest",
             StatusAt(a.kind, to) = "missing" <=> (a.kind = "delete" /\ found = {}),
             rows' = rows
      PROVE  Promise!Open(r)
  <2>1. /\ pc'[r] = to /\ victims'[r] = found /\ args'[r] = a
        /\ \A q \in Requests \ {r} :
              pc'[q] = pc[q] /\ victims'[q] = victims[q] /\ args'[q] = args[q]
    BY <1>0, <1>2 DEF TypeOK
  <2>2. Status' = [Status EXCEPT ![r] = StatusAt(a.kind, to)]
    <3>1. Status' = [q \in Requests |-> StatusAt(args'[q].kind, pc'[q])]
      BY DEF Status, StatusAt
    <3>2. Status = [q \in Requests |-> StatusAt(args[q].kind, pc[q])]
      BY DEF Status
    <3>3. QED
      BY <2>1, <3>1, <3>2
  <2>3. Seen' = [Seen EXCEPT ![r] = found]
    BY <1>2, <2>1 DEF Seen
  <2>4. Status[r] = "none"
    BY <1>2 DEF Status, StatusAt
  <2>5. QED
    BY <1>2, <2>2, <2>3, <2>4 DEF Promise!Open
<1>3. ASSUME NEW f \in Filenames, NEW size \in Sizes, BeginIngest(r, t, f, size)
      PROVE  Promise!Open(r)
  <2> DEFINE a == [kind |-> "ingest", tenant |-> t, filename |-> f, size |-> size,
                   alone |-> Alone(t, {f})]
  <2>1. PICK to \in {"prechecked", "rejected"} :
          /\ pc[r] = "idle" /\ pc' = [pc EXCEPT ![r] = to]
          /\ args' = [args EXCEPT ![r] = a] /\ UNCHANGED <<rows, victims>>
    BY <1>3 DEF BeginIngest
  <2>2. a \in Args
    BY IngestArgsType
  <2>3. victims[r] = {} /\ victims' = [victims EXCEPT ![r] = {}]
    BY <1>0, <2>1 DEF QInv, IInv, LockHeld, TypeOK
  <2>4. {} \in Promise!Targets(a) /\ a.kind = "ingest"
    BY DEF Promise!Targets
  <2>5. to \in Labels /\ StatusAt(a.kind, to) \in {"open", "refused"}
    BY <2>4 DEF Labels, Working, Ended, StatusAt
  <2> HIDE DEF a
  <2>6. QED
    BY <1>2, <2>1, <2>2, <2>3, <2>4, <2>5
<1>4. ASSUME NEW target \in Filenames \cup DocIds, BeginDelete(r, t, target)
      PROVE  Promise!Open(r)
  <2> DEFINE hit == Matching(t, target)
             names == {row.filename : row \in hit}
             to == IF hit = {} THEN "rejected" ELSE "delRows"
  <2>1. PICK f \in IF hit = {} THEN {None} ELSE names :
          args' = [args EXCEPT ![r] = [kind |-> "delete", tenant |-> t, filename |-> f,
                                       size |-> None, alone |-> Alone(t, names)]]
    BY <1>4 DEF BeginDelete
  <2> DEFINE a == [kind |-> "delete", tenant |-> t, filename |-> f, size |-> None,
                   alone |-> Alone(t, names)]
  <2>2. /\ pc[r] = "idle" /\ pc' = [pc EXCEPT ![r] = to]
        /\ victims' = [victims EXCEPT ![r] = hit] /\ rows' = rows
    BY <1>4 DEF BeginDelete
  <2>3. a \in Args /\ a.kind = "delete"
    <3>1. f \in Filenames \cup {None}
      BY <1>0 DEF Matching, TenantRows, TypeOK, Row
    <3>2. QED
      BY <3>1, AloneType DEF Args
  <2>4. hit \in Promise!Targets(a)
    BY DEF Promise!Targets, Promise!OfTenant, Matching, TenantRows, DocIds
  <2>5. to \in Labels /\ StatusAt(a.kind, to) \in {"open", "missing"}
        /\ (hit = {} <=> StatusAt(a.kind, to) = "missing")
    BY <2>3 DEF Labels, Working, Ended, StatusAt
  <2>6. hit # {} => to \in {"delRows", "clearRows"}
    OBVIOUS
  <2> HIDE DEF a, hit, to
  <2>7. QED
    BY <1>2, <2>1, <2>2, <2>3, <2>4, <2>5, <2>6 DEF a
<1>5. CASE BeginClear(r, t)
  <2> DEFINE a == [kind |-> "clear", tenant |-> t, filename |-> None, size |-> None,
                   alone |-> Alone(t, Filenames)]
  <2>1. /\ pc[r] = "idle" /\ pc' = [pc EXCEPT ![r] = "clearRows"]
        /\ args' = [args EXCEPT ![r] = a]
        /\ victims' = [victims EXCEPT ![r] = TenantRows(t)] /\ rows' = rows
    BY <1>5 DEF BeginClear
  <2>2. a \in Args /\ a.kind = "clear"
    BY AloneType DEF Args
  <2>3. TenantRows(t) \in Promise!Targets(a)
    BY DEF Promise!Targets, Promise!OfTenant, TenantRows
  <2>4. "clearRows" \in Labels /\ StatusAt(a.kind, "clearRows") = "open"
    BY DEF Labels, Working, StatusAt
  <2> HIDE DEF a
  <2>5. QED
    BY <1>2, <2>1, <2>2, <2>3, <2>4
<1>6. QED
  BY <1>1, <1>3, <1>4, <1>5

\* The COMMIT of an ingestion, answered or not: the victims of its DELETE are still
\* all the rows of its name, and the room for its row is still there.
LEMMA CommitCatalogue ==
    ASSUME QInv, QInv', NEW r \in Requests, NEW to \in Labels,
           to \in {"undoCommitted", "cleanup", "bump"},
           pc[r] = "commit", pc' = [pc EXCEPT ![r] = to],
           rows' = (rows \ victims[r]) \cup {NewRow(r)}, Unlock(r), args' = args
    PROVE  Promise!Apply(r)
<1>0. IInv /\ TypeOK
  BY DEF QInv, IInv
<1>1. \A q \in Requests \ {r} : victims'[q] = victims[q]
  BY <1>0 DEF Unlock, TypeOK
<1>2. /\ Status' = [Status EXCEPT ![r] = "past"]
      /\ Status[r] = "open" /\ Seen' = Seen
  <2>1. /\ StatusAt(args[r].kind, pc[r]) = "open" /\ pc[r] \notin {"delRows", "clearRows"}
        /\ StatusAt(args[r].kind, to) = "past"
    BY DEF StatusAt
  <2>2. to \in Labels \ {"delRows", "clearRows"}
    OBVIOUS
  <2>3. QED
    BY <1>0, <1>1, <2>1, <2>2, Moved
<1>3. args[r].kind = "ingest" /\ args[r].tenant \in Tenants
  BY <1>0 DEF IInv, ArgsFit, Working, Ingesting, IngestArgs
<1>4. rows' = {d \in rows : ~(d.tenant = args[r].tenant
                               /\ d.filename = args[r].filename)}
              \cup {Promise!Document(r)}
  <2>1. \A row \in rows : row \in victims[r] <=>
            row.tenant = args[r].tenant /\ row.filename = args[r].filename
    BY <1>0 DEF IInv, LockHeld, FileRows, TenantRows
  <2>2. NewRow(r) = Promise!Document(r)
    BY DEF NewRow, Promise!Document
  <2>3. QED
    BY <2>1, <2>2
<1>5. Cardinality(Promise!OfTenant(args[r].tenant)') <= MaxDocuments
  <2>1. Promise!OfTenant(args[r].tenant)' = TenantRows(args[r].tenant)'
    BY DEF Promise!OfTenant, TenantRows
  <2>2. args'[r].tenant = args[r].tenant
    OBVIOUS
  <2>3. Promise!OfTenant(args[r].tenant)' = {d \in rows' : d.tenant = args[r].tenant}
    BY <2>2 DEF Promise!OfTenant
  <2>4. \A t \in Tenants : Cardinality({d \in rows' : d.tenant = t}) <= MaxDocuments
    BY DEF QInv, DocumentQuota, TenantRows
  <2>5. QED
    BY <1>3, <2>3, <2>4
<1>6. Promise!Put(r)
  BY <1>2, <1>3, <1>4, <1>5, SameCardinality DEF Promise!Put
<1>7. QED
  BY <1>2, <1>3, <1>6 DEF Promise!Apply, Promise!Effect, Promise!Goto

\* The DELETE of a deletion or a clear.
LEMMA RemoveCatalogue ==
    ASSUME QInv, NEW r \in Requests, NEW to \in Labels,
           pc[r] \in {"delRows", "clearRows"}, pc' = [pc EXCEPT ![r] = to],
           rows' \in {rows, rows \ victims[r]}, Unlock(r), args' = args,
           \/ to = "crashed" /\ rows' = rows
           \/ to \in {"rejected", "missed"} /\ pc[r] = "delRows"
           \/ to = "delVectors" /\ pc[r] = "delRows" /\ rows' # rows
           \/ to = "clearVectors" /\ pc[r] = "clearRows"
    PROVE  Promise!Next
<1>0. IInv /\ TypeOK
  BY DEF QInv, IInv
<1>1. \A q \in Requests \ {r} : victims'[q] = victims[q]
  BY <1>0 DEF Unlock, TypeOK
<1>2. /\ Status' = [Status EXCEPT ![r] = StatusAt(args[r].kind, to)]
      /\ Status[r] = "open" /\ Seen' = [Seen EXCEPT ![r] = {}] /\ Seen[r] = victims[r]
  <2>1. StatusAt(args[r].kind, pc[r]) = "open" /\ to \notin {"delRows", "clearRows"}
    BY DEF StatusAt
  <2>2. QED
    BY <1>0, <1>1, <2>1, Moved
<1>3. /\ pc[r] = "delRows" => args[r].kind = "delete"
      /\ pc[r] = "clearRows" => args[r].kind = "clear"
  BY <1>0 DEF IInv, ArgsFit
<1>4. /\ Promise!NoEffect(r) <=> rows' = rows
      /\ Promise!Remove(r) <=> rows' = rows \ victims[r]
  BY <1>2, <1>3 DEF Promise!NoEffect, Promise!Remove
<1>5. CASE to = "crashed" /\ rows' = rows
  <2>1. StatusAt(args[r].kind, to) = "failed"
    BY <1>5 DEF StatusAt
  <2>2. QED
    BY <1>2, <1>4, <1>5, <2>1 DEF Promise!Next, Promise!FailBefore, Promise!Goto
<1>6. CASE to \in {"rejected", "missed"} /\ pc[r] = "delRows"
  <2>1. StatusAt(args[r].kind, to) = "missing"
    BY <1>3, <1>6 DEF StatusAt
  <2>2. QED
    BY <1>2, <1>3, <1>4, <1>6, <2>1 DEF Promise!Next, Promise!Miss, Promise!Goto
<1>7. CASE to = "delVectors" /\ pc[r] = "delRows" /\ rows' # rows
  <2>1. StatusAt(args[r].kind, to) = "past"
    BY <1>7 DEF StatusAt
  <2>2. QED
    BY <1>2, <1>3, <1>4, <1>7, <2>1
       DEF Promise!Next, Promise!Apply, Promise!Effect, Promise!Goto
<1>8. CASE to = "clearVectors" /\ pc[r] = "clearRows"
  <2>1. StatusAt(args[r].kind, to) = "past"
    BY <1>8 DEF StatusAt
  <2>2. CASE rows' = rows
    BY <1>2, <1>3, <1>4, <1>8, <2>1, <2>2 DEF Promise!Next, Promise!Skip, Promise!Goto
  <2>3. CASE rows' = rows \ victims[r]
    BY <1>2, <1>3, <1>4, <1>8, <2>1, <2>3
       DEF Promise!Next, Promise!Apply, Promise!Effect, Promise!Goto
  <2>4. QED
    BY <2>2, <2>3
<1>9. QED
  BY <1>5, <1>6, <1>7, <1>8

LEMMA StepCatalogue ==
    ASSUME QInv, QInv', [Next]_vars
    PROVE  Promise!Next \/ UNCHANGED Promise!vars
<1> USE DEF Goto
<1>0. IInv /\ TypeOK
  BY DEF QInv, IInv
<1>1. ASSUME NEW r \in Requests, Begin(r) PROVE Promise!Next
  BY <1>1, BeginCatalogue DEF Promise!Next
<1>2. ASSUME NEW r \in Requests, RecordCommit(r) \/ CommitReplyLost(r) PROVE Promise!Next
  <2>1. PICK to \in {"bump", "cleanup", "undoCommitted"} :
          /\ pc[r] = "commit" /\ pc' = [pc EXCEPT ![r] = to]
          /\ rows' = (rows \ victims[r]) \cup {NewRow(r)} /\ Unlock(r) /\ args' = args
    BY <1>2 DEF RecordCommit, CommitReplyLost
  <2>2. to \in Labels
    BY DEF Labels, Working
  <2>3. QED
    BY <2>1, <2>2, CommitCatalogue DEF Promise!Next
<1>3. ASSUME NEW r \in Requests, DeleteRows(r) \/ DeleteRowsFails(r) PROVE Promise!Next
  <2>1. PICK to \in {"rejected", "delVectors", "missed"} :
          /\ pc[r] = "delRows" /\ pc' = [pc EXCEPT ![r] = to]
          /\ rows' \in {rows, rows \ victims[r]} /\ Unlock(r) /\ args' = args
          /\ to = "delVectors" => rows' # rows
    BY <1>3 DEF DeleteRows, DeleteRowsFails
  <2>2. to \in Labels
    BY DEF Labels, Working, Ended
  <2>3. QED
    BY <2>1, <2>2, RemoveCatalogue
<1>4. ASSUME NEW r \in Requests, ClearRows(r) \/ ClearRowsFails(r) PROVE Promise!Next
  <2>1. /\ pc[r] = "clearRows" /\ pc' = [pc EXCEPT ![r] = "clearVectors"]
        /\ rows' \in {rows, rows \ victims[r]} /\ Unlock(r) /\ args' = args
    BY <1>4 DEF ClearRows, ClearRowsFails
  <2>2. "clearVectors" \in Labels
    BY DEF Labels, Working
  <2>3. QED
    BY <2>1, <2>2, RemoveCatalogue
<1>5. ASSUME NEW r \in Requests, NEW from \in Labels, NEW to \in Labels,
             pc[r] = from, pc' = [pc EXCEPT ![r] = to],
             from \notin {"delRows", "clearRows"}, to \notin {"delRows", "clearRows"},
             \A q \in Requests \ {r} : victims'[q] = victims[q],
             rows' = rows, args' = args, NEW old, NEW new,
             old = StatusAt(args[r].kind, from), new = StatusAt(args[r].kind, to),
             \/ old = new
             \/ old = "open" /\ new = "refused" /\ args[r].kind = "ingest"
             \/ old = "open" /\ new = "failed"
             \/ old = "past" /\ new \in {"ok", "failed"}
      PROVE  Promise!Next \/ UNCHANGED Promise!vars
  <2>1. Status' = [Status EXCEPT ![r] = new] /\ Status[r] = old /\ Seen' = Seen
    BY <1>0, <1>5, Moved
  <2>2. Seen' = [Seen EXCEPT ![r] = {}]
    BY <1>0, <1>5, Moved
  <2>3. CASE old = new
    BY <1>0, <1>5, <2>3, Hidden
  <2>4. CASE old = "open" /\ new = "refused" /\ args[r].kind = "ingest"
    BY <1>5, <2>1, <2>2, <2>4
       DEF Promise!Next, Promise!Refuse, Promise!NoEffect, Promise!Goto
  <2>5. CASE old = "open" /\ new = "failed"
    BY <1>5, <2>1, <2>2, <2>5
       DEF Promise!Next, Promise!FailBefore, Promise!NoEffect, Promise!Goto
  <2>6. CASE old = "past" /\ new = "ok"
    BY <1>5, <2>1, <2>6 DEF Promise!Next, Promise!Answer, Promise!Goto
  <2>7. CASE old = "past" /\ new = "failed"
    BY <1>5, <2>1, <2>7 DEF Promise!Next, Promise!FailAfter, Promise!Goto
  <2>8. QED
    BY <1>5, <2>3, <2>4, <2>5, <2>6, <2>7
<1>6. ASSUME NEW r \in Requests, Step(r),
             ~RecordCommit(r), ~DeleteRows(r), ~ClearRows(r)
      PROVE  Promise!Next \/ UNCHANGED Promise!vars
  <2>1. PICK from \in Labels, to \in Labels :
          /\ pc[r] = from /\ pc' = [pc EXCEPT ![r] = to]
          /\ \/ from \in {"prechecked", "upsert", "record"}
                /\ to \in {"upsert", "record", "commit", "undoQuota"}
             \/ from = "undoQuota" /\ to = "rejected"
             \/ from = "undoFailure" /\ to = "undone"
             \/ from = "undoCommitted" /\ to = "failed"
             \/ from \in {"cleanup", "delVectors", "clearVectors"} /\ to = "bump"
             \/ from = "bump" /\ to = "done"
    BY <1>6 DEF Step, ReadPrevious, Upsert, RecordBegin, Compensate, CleanupPrevious,
       DeleteVectors, ClearVectors, Bump, Labels, Working, Ended
  <2>2. /\ rows' = rows /\ args' = args
        /\ \A q \in Requests \ {r} : victims'[q] = victims[q]
    BY <1>0, <1>6 DEF Step, ReadPrevious, Upsert, RecordBegin, Compensate,
       CleanupPrevious, DeleteVectors, ClearVectors, Bump, TypeOK
  <2>3. from = "undoQuota" => args[r].kind = "ingest"
    BY <1>0, <2>1 DEF IInv, ArgsFit, Ingesting, IngestArgs
  <2>4. PICK old, new :
          old = StatusAt(args[r].kind, from) /\ new = StatusAt(args[r].kind, to)
    OBVIOUS
  <2>5. /\ from \notin {"delRows", "clearRows"} /\ to \notin {"delRows", "clearRows"}
        /\ \/ old = new
           \/ old = "open" /\ new = "refused" /\ args[r].kind = "ingest"
           \/ old = "open" /\ new = "failed"
           \/ old = "past" /\ new \in {"ok", "failed"}
    BY <2>1, <2>3, <2>4 DEF StatusAt
  <2>6. QED
    BY <1>5, <2>1, <2>2, <2>4, <2>5
<1>7. ASSUME NEW r \in Requests, StepFails(r),
             ~CommitReplyLost(r), ~DeleteRowsFails(r), ~ClearRowsFails(r), ~Crash(r)
      PROVE  Promise!Next \/ UNCHANGED Promise!vars
  <2>1. PICK from \in Labels, to \in Labels :
          /\ pc[r] = from /\ pc' = [pc EXCEPT ![r] = to]
          /\ \/ from = "prechecked" /\ to = "undone"
             \/ from = "undoQuota" /\ to = "unclean"
             \/ from \in {"upsert", "undoFailure", "undoCommitted",
                          "delVectors", "clearVectors"} /\ to = "failed"
             \/ from \in {"record", "commit"} /\ to = "undoFailure"
             \/ from = "cleanup" /\ to = "saved"
             \/ from = "bump" /\ to = "done"
    BY <1>7 DEF StepFails, ReadPreviousFails, UpsertFails, RecordFails, CompensateFails,
       CleanupFails, DeleteVectorsFails, ClearVectorsFails, BumpFails, Labels, Working, Ended
  <2>2. /\ rows' = rows /\ args' = args
        /\ \A q \in Requests \ {r} : victims'[q] = victims[q]
    BY <1>0, <1>7 DEF StepFails, ReadPreviousFails, UpsertFails, RecordFails,
       CompensateFails, CleanupFails, DeleteVectorsFails, ClearVectorsFails, BumpFails,
       Unlock, TypeOK
  <2>3. from = "undoQuota" => args[r].kind = "ingest"
    BY <1>0, <2>1 DEF IInv, ArgsFit, Ingesting, IngestArgs
  <2>4. PICK old, new :
          old = StatusAt(args[r].kind, from) /\ new = StatusAt(args[r].kind, to)
    OBVIOUS
  <2>5. /\ from \notin {"delRows", "clearRows"} /\ to \notin {"delRows", "clearRows"}
        /\ \/ old = new
           \/ old = "open" /\ new = "refused" /\ args[r].kind = "ingest"
           \/ old = "open" /\ new = "failed"
           \/ old = "past" /\ new \in {"ok", "failed"}
    BY <2>1, <2>3, <2>4 DEF StatusAt
  <2>6. QED
    BY <1>5, <2>1, <2>2, <2>4, <2>5
<1>8. ASSUME NEW r \in Requests, Crash(r)
      PROVE  Promise!Next \/ UNCHANGED Promise!vars
  <2>1. /\ pc[r] \in Working /\ pc' = [pc EXCEPT ![r] = "crashed"]
        /\ rows' = rows /\ args' = args /\ Unlock(r)
    BY <1>8 DEF Crash
  <2>2. "crashed" \in Labels \ {"delRows", "clearRows"}
        /\ StatusAt(args[r].kind, "crashed") = "failed"
    BY DEF Labels, Ended, StatusAt
  <2>3. CASE pc[r] \in {"delRows", "clearRows"}
    BY <2>1, <2>2, <2>3, RemoveCatalogue
  <2>4. CASE pc[r] \notin {"delRows", "clearRows"}
    <3>1. PICK old, new :
            old = StatusAt(args[r].kind, pc[r]) /\ new = StatusAt(args[r].kind, "crashed")
      OBVIOUS
    <3>2. old \in {"open", "past"} /\ new = "failed" /\ pc[r] \in Labels
      BY <2>1, <2>2, <2>4, <3>1 DEF StatusAt, Working, Labels
    <3>3. \A q \in Requests \ {r} : victims'[q] = victims[q]
      BY <1>0, <2>1 DEF Unlock, TypeOK
    <3>4. QED
      BY <1>5, <2>1, <2>2, <2>4, <3>1, <3>2, <3>3
  <2>5. QED
    BY <2>3, <2>4
<1>9. CASE UNCHANGED vars
  <2>1. Status' = [r \in Requests |-> StatusAt(args'[r].kind, pc'[r])]
    BY DEF Status, StatusAt
  <2>2. Status' = Status /\ Seen' = Seen
    BY <1>9, <2>1 DEF Status, Seen, vars
  <2>3. QED
    BY <1>9, <2>2 DEF Promise!vars, vars
<1>10. QED
  BY <1>1, <1>2, <1>3, <1>4, <1>6, <1>7, <1>8, <1>9 DEF Next, Step, StepFails

\* Rows, vectors, locks and compensations together behave like the catalogue: each
\* request changes the list of documents in one step or not at all.
THEOREM CatalogueTheorem == Spec => ImplementsCatalogue
<1>1. Init => Promise!Init
  BY InitCatalogue
<1>2. QInv /\ QInv' /\ [Next]_vars => [Promise!Next]_(Promise!vars)
  BY StepCatalogue
<1>3. QED
  BY <1>1, <1>2, QuotaInvariance, PTL DEF Spec, ImplementsCatalogue, Promise!Spec
=============================================================================
