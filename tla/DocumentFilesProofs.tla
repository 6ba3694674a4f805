------------------------ MODULE DocumentFilesProofs ------------------------
(***************************************************************************)
(* Proofs about DocumentStore: what clients who write a file one request   *)
(* at a time find of it in the rows and in the vectors.                    *)
(***************************************************************************)
EXTENDS DocumentStoreProofs

-----------------------------------------------------------------------------
(* The inductive invariant.                                                *)

Writers(t, f) == {r \in Requests : pc[r] \in Working /\ Touches(r, t, f)}

\* The requests that touched a file came one after the other, and those that ended did
\* so in one of the given ways.
Orderly(t, f, endings) ==
    \A r \in Requests : pc[r] # "idle" /\ Touches(r, t, f) =>
                           pc[r] \in Working \cup endings /\ args[r].alone

\* A deletion found rows of one name, that of the vectors it is going to delete.
DeletesFit ==
    \A r \in Requests :
        /\ pc[r] = "delVectors" => args[r].kind = "delete"
        /\ pc[r] = "delRows" => \A row \in victims[r] : row.filename = args[r].filename

\* Of the requests that are writing to a file at most one found it alone.
OneWriter ==
    \A t \in Tenants, f \in Filenames : \A q, r \in Writers(t, f) :
        args[q].alone /\ args[r].alone => q = r

\* What the only writer of a file leaves in the vectors that is not in the rows.
SweptBy(w, t, f) ==
    /\ pc[w] \in {"prechecked", "upsert", "delRows", "bump"} => Docs(t, f) \subseteq Ids(t, f)
    /\ pc[w] \in {"record", "commit", "undoQuota", "undoFailure"} =>
          Docs(t, f) \subseteq Ids(t, f) \cup {w}
    /\ pc[w] \in {"upsert", "record", "commit"} => Ids(t, f) \subseteq {prev[w]}
    /\ pc[w] = "cleanup" => w \in Ids(t, f) /\ Docs(t, f) \subseteq {prev[w], w}

Swept ==
    \A t \in Tenants, f \in Filenames : Orderly(t, f, {"done", "rejected", "undone"}) =>
        /\ Writers(t, f) = {} => Docs(t, f) \subseteq Ids(t, f)
        /\ \A w \in Writers(t, f) : SweptBy(w, t, f)

NoClearFailed ==
    failures > 0 => \A r \in Requests : pc[r] # "idle" => args[r].kind # "clear"

\* What it leaves in the rows that is not in the vectors.
FoundBy(w, t, f) ==
    /\ pc[w] \in {"prechecked", "upsert", "record", "commit", "undoQuota", "undoFailure",
                  "delRows", "bump"} => Ids(t, f) \subseteq Docs(t, f)
    /\ pc[w] \in {"record", "commit", "cleanup"} => w \in Docs(t, f)
    /\ pc[w] = "cleanup" => Ids(t, f) \subseteq {w}
    /\ pc[w] \in {"delRows", "clearRows"} => FileRows(t, f) \subseteq victims[w]
    /\ pc[w] \in {"delVectors", "clearVectors"} => FileRows(t, f) = {}

Found ==
    \A t \in Tenants, f \in Filenames :
        NoClearFailed /\ Orderly(t, f, {"done", "rejected", "undone"}) =>
        /\ Writers(t, f) = {} => Ids(t, f) \subseteq Docs(t, f)
        /\ \A w \in Writers(t, f) : FoundBy(w, t, f)

FilesIInv == IInv /\ DeletesFit /\ OneWriter /\ Swept /\ Found

-----------------------------------------------------------------------------
(* What a step does to a file.                                             *)

\* To whom else a step leaves what it remembers.
LEMMA OthersStay ==
    ASSUME IInv, NEW r \in Requests, RequestStep(r)
    PROVE  /\ \A q \in Requests \ {r} : prev'[q] = prev[q] /\ victims'[q] = victims[q]
           /\ failures' = failures \/ failures' = failures + 1
<1> USE DEF IInv, TypeOK, Fail, Unlock
<1>1. CASE Begin(r)
  <2>1. \/ \E t \in Tenants, f \in Filenames, size \in Sizes : BeginIngest(r, t, f, size)
        \/ \E t \in Tenants : \E target : BeginDelete(r, t, target)
        \/ \E t \in Tenants : BeginClear(r, t)
    BY <1>1 DEF Begin
  <2>2. /\ victims' = victims \/ \E hit : victims' = [victims EXCEPT ![r] = hit]
        /\ prev' = prev /\ failures' = failures
    BY <2>1 DEF BeginIngest, BeginDelete, BeginClear
  <2>3. QED
    BY <2>2
<1>2. CASE Step(r)
  BY <1>2, SMTT(30) DEF Step, ReadPrevious, Upsert, RecordBegin, RecordCommit, Compensate,
     CleanupPrevious, DeleteRows, DeleteVectors, ClearRows, ClearVectors, Bump
<1>3. CASE StepFails(r)
  BY <1>3, SMTT(30) DEF StepFails, ReadPreviousFails, UpsertFails, RecordFails, CommitReplyLost,
     CompensateFails, CleanupFails, DeleteRowsFails, ClearRowsFails, DeleteVectorsFails,
     ClearVectorsFails, BumpFails, Crash
<1>4. QED
  BY <1>1, <1>2, <1>3 DEF RequestStep

\* Rows are taken away by the DELETE of a deletion or a clear, or exchanged by a commit.
LEMMA RowsTaken ==
    ASSUME IInv, NEW r \in Requests, RequestStep(r)
    PROVE  \/ rows' = rows
           \/ pc[r] \in {"delRows", "clearRows"} /\ rows' = rows \ victims[r]
           \/ pc[r] = "commit" /\ rows' = (rows \ victims[r]) \cup {NewRow(r)}
<1> USE DEF Goto
<1>1. CASE Begin(r)
  BY <1>1, BeginsSo DEF BeginEffect
<1>2. CASE Step(r)
  BY <1>2, SMTT(30) DEF Step, ReadPrevious, Upsert, RecordBegin, RecordCommit, Compensate,
     CleanupPrevious, DeleteRows, DeleteVectors, ClearRows, ClearVectors, Bump
<1>3. CASE StepFails(r)
  BY <1>3, SMTT(30) DEF StepFails, ReadPreviousFails, UpsertFails, RecordFails, CommitReplyLost,
     CompensateFails, CleanupFails, DeleteRowsFails, ClearRowsFails, DeleteVectorsFails,
     ClearVectorsFails, BumpFails, Crash
<1>4. QED
  BY <1>1, <1>2, <1>3 DEF RequestStep

\* A request leaves the files alone that it does not touch.
LEMMA Untouched ==
    ASSUME IInv, DeletesFit, NEW r \in Requests, RequestStep(r), NEW t \in Tenants,
           NEW f \in Filenames, pc[r] = "idle" \/ ~Touches(r, t, f)
    PROVE  /\ FileRows(t, f)' = FileRows(t, f) /\ Ids(t, f)' = Ids(t, f)
           /\ Docs(t, f)' = Docs(t, f)
<1>1. FileRows(t, f)' = FileRows(t, f)
  <2>1. CASE rows' = rows
    BY <2>1 DEF FileRows, TenantRows
  <2>2. CASE pc[r] \in {"delRows", "clearRows"} /\ rows' = rows \ victims[r]
    <3>1. \A row \in victims[r] : row.tenant = args[r].tenant
      BY DEF IInv, LockHeld
    <3>2. \A row \in victims[r] : ~(row.tenant = t /\ row.filename = f)
      BY <2>2, <3>1 DEF DeletesFit, IInv, ArgsFit, Touches
    <3>3. QED
      BY <2>2, <3>2 DEF FileRows, TenantRows
  <2>3. CASE pc[r] = "commit" /\ rows' = (rows \ victims[r]) \cup {NewRow(r)}
    <3>1. \A row \in victims[r] : row.tenant = args[r].tenant /\ row.filename = args[r].filename
      BY <2>3 DEF IInv, LockHeld
    <3>2. ~(args[r].tenant = t /\ args[r].filename = f)
      BY <2>3 DEF Touches
    <3>3. QED
      BY <2>3, <3>1, <3>2 DEF FileRows, TenantRows, NewRow
  <2>4. QED
    BY <2>1, <2>2, <2>3, RowsTaken
<1>2. ASSUME NEW v, v.tenant = t, v.filename = f PROVE v \in vectors' <=> v \in vectors
  <2>1. CASE vectors' = vectors
    BY <2>1
  <2>2. CASE pc[r] = "upsert" /\ vectors' = vectors \cup {NewPoint(r)}
    BY <1>2, <2>2 DEF Touches, NewPoint
  <2>3. CASE /\ pc[r] \in {"undoQuota", "undoFailure", "undoCommitted"}
             /\ vectors' = VectorsWithoutDoc(args[r].tenant, r)
    <3>1. v \in vectors => v = NewPoint(v.doc)
      BY DEF IInv, PointOwner
    <3>2. v \in vectors /\ v.doc = r => Touches(r, t, f)
      BY <1>2, <3>1 DEF Touches, NewPoint
    <3>3. QED
      BY <2>3, <3>2 DEF VectorsWithoutDoc
  <2>4. CASE pc[r] = "cleanup" /\ vectors' = VectorsWithoutDoc(args[r].tenant, prev[r])
    <3>1. v \in vectors => v = NewPoint(v.doc)
      BY DEF IInv, PointOwner
    <3>2. prev[r] # None /\ args[prev[r]].filename = args[r].filename
                         /\ args[prev[r]].tenant = args[r].tenant
      BY <2>4 DEF IInv, PrevGone
    <3>3. v \in vectors /\ v.doc = prev[r] => Touches(r, t, f)
      BY <1>2, <3>1, <3>2 DEF Touches, NewPoint
    <3>4. QED
      BY <2>4, <3>3 DEF VectorsWithoutDoc
  <2>5. CASE /\ pc[r] = "delVectors"
             /\ vectors' = VectorsWithoutFile(args[r].tenant, args[r].filename)
    BY <1>2, <2>5 DEF VectorsWithoutFile, Touches
  <2>6. CASE pc[r] = "clearVectors" /\ vectors' = VectorsWithoutTenant(args[r].tenant)
    BY <1>2, <2>6 DEF VectorsWithoutTenant, Touches, IInv, ArgsFit
  <2>7. QED
    BY <2>1, <2>2, <2>3, <2>4, <2>5, <2>6, VectorsChange
<1>3. Docs(t, f)' = Docs(t, f)
  BY <1>2 DEF Docs
<1>4. QED
  BY <1>1, <1>3 DEF Ids

-----------------------------------------------------------------------------
(* What a request does to a file it touches.                               *)

\* It found the file alone, or says that it did not.
LEMMA BeginsOnFile ==
    ASSUME IInv, NEW r \in Requests, Begin(r), NEW t \in Tenants, NEW f \in Filenames,
           Touches(r, t, f)', pc'[r] \in Working
    PROVE  /\ args'[r].alone => Writers(t, f) = {}
           /\ pc'[r] \in {"prechecked", "delRows", "clearRows"}
           /\ pc'[r] \in {"delRows", "clearRows"} => FileRows(t, f) \subseteq victims'[r]
<1> USE DEF IInv, TypeOK, Goto
<1>1. ASSUME NEW F, f \in F, args'[r].alone = Alone(t, F), args'[r].alone PROVE Writers(t, f) = {}
  BY <1>1 DEF Alone, Writers
<1>2. ASSUME NEW u \in Tenants, NEW g \in Filenames, NEW size \in Sizes, BeginIngest(r, u, g, size)
      PROVE  /\ args'[r].alone => Writers(t, f) = {}
             /\ pc'[r] = "prechecked"
  <2>1. args'[r] = [kind |-> "ingest", tenant |-> u, filename |-> g, size |-> size,
                    alone |-> Alone(u, {g})]
    BY <1>2 DEF BeginIngest
  <2>2. u = t /\ g = f /\ args'[r].alone = Alone(t, {f})
    BY <2>1 DEF Touches
  <2>3. pc'[r] = "prechecked"
    BY <1>2 DEF BeginIngest, Working
  <2>4. QED
    BY <1>1, <2>2, <2>3
<1>3. ASSUME NEW u \in Tenants, NEW target \in Filenames \cup DocIds, BeginDelete(r, u, target)
      PROVE  /\ args'[r].alone => Writers(t, f) = {}
             /\ pc'[r] = "delRows" /\ FileRows(t, f) \subseteq victims'[r]
  <2> DEFINE hit == Matching(u, target)
             names == {row.filename : row \in hit}
  <2>1. pc'[r] = "delRows" /\ hit # {} /\ victims'[r] = hit
    BY <1>3 DEF BeginDelete, Working
  <2>2. PICK g \in names : args'[r] = [kind |-> "delete", tenant |-> u, filename |-> g,
                                       size |-> None, alone |-> Alone(u, names)]
    BY <1>3, <2>1 DEF BeginDelete
  <2>3. u = t /\ g = f /\ args'[r].alone = Alone(t, names)
    BY <2>2 DEF Touches
  <2>4. FileRows(t, f) \subseteq hit
    <3>1. PICK row \in hit : row.filename = f
      BY <2>2, <2>3
    <3>2. row \in rows /\ row.tenant = t
      BY <2>3 DEF Matching, TenantRows
    <3>3. FileRows(t, f) \subseteq {row}
      BY <3>1, <3>2 DEF UniqueNames, FileRows, TenantRows
    <3>4. QED
      BY <3>3
  <2>5. QED
    BY <1>1, <2>1, <2>2, <2>3, <2>4
<1>4. ASSUME NEW u \in Tenants, BeginClear(r, u)
      PROVE  /\ args'[r].alone => Writers(t, f) = {}
             /\ pc'[r] = "clearRows" /\ FileRows(t, f) \subseteq victims'[r]
  <2>1. /\ pc'[r] = "clearRows" /\ victims'[r] = TenantRows(u)
        /\ args'[r] = [kind |-> "clear", tenant |-> u, filename |-> None,
                       size |-> None, alone |-> Alone(u, Filenames)]
    BY <1>4 DEF BeginClear
  <2>2. u = t
    BY <2>1 DEF Touches
  <2>3. QED
    BY <1>1, <2>1, <2>2 DEF FileRows
<1>5. QED
  BY <1>2, <1>3, <1>4 DEF Begin

\* Where a request that goes well is next, and what has become of its file.
Kept(t, f) == Docs(t, f)' = Docs(t, f) /\ FileRows(t, f)' = FileRows(t, f)

WriterMoves(r, t, f) ==
    \/ pc'[r] \in {"undoCommitted", "unclean", "missed", "saved", "failed", "crashed"}
    \/ /\ pc[r] = "prechecked" /\ pc'[r] \in {"upsert", "undone"} /\ Kept(t, f)
       /\ pc'[r] = "upsert" => Ids(t, f) \subseteq {prev'[r]}
    \/ /\ pc[r] = "upsert" /\ pc'[r] = "record" /\ prev'[r] = prev[r]
       /\ Docs(t, f)' = Docs(t, f) \cup {r} /\ FileRows(t, f)' = FileRows(t, f)
    \/ /\ <<pc[r], pc'[r]>> \in {<<"record", "commit">>, <<"record", "undoQuota">>,
                                 <<"record", "undoFailure">>, <<"commit", "undoFailure">>}
       /\ prev'[r] = prev[r] /\ Kept(t, f)
    \/ /\ pc[r] = "commit" /\ prev'[r] = prev[r]
       /\ pc'[r] = "cleanup" \/ (pc'[r] = "bump" /\ prev[r] = None)
       /\ Docs(t, f)' = Docs(t, f) /\ FileRows(t, f)' = {NewRow(r)}
    \/ /\ pc[r] \in {"undoQuota", "undoFailure"} /\ pc'[r] \in {"rejected", "undone"}
       /\ Docs(t, f)' = Docs(t, f) \ {r} /\ FileRows(t, f)' = FileRows(t, f)
    \/ /\ pc[r] = "cleanup" /\ pc'[r] = "bump" /\ prev[r] # r
       /\ Docs(t, f)' = Docs(t, f) \ {prev[r]} /\ FileRows(t, f)' = FileRows(t, f)
    \/ /\ pc[r] = "delRows" /\ pc'[r] \in {"rejected", "delVectors"}
       /\ Docs(t, f)' = Docs(t, f) /\ FileRows(t, f)' = FileRows(t, f) \ victims[r]
       /\ pc'[r] = "rejected" => FileRows(t, f) \cap victims[r] = {}
    \/ /\ pc[r] = "clearRows" /\ pc'[r] = "clearVectors"
       /\ \/ FileRows(t, f)' = FileRows(t, f) \ victims[r]
          \/ failures' > 0 /\ args'[r].kind = "clear"
    \/ /\ pc[r] \in {"delVectors", "clearVectors"} /\ pc'[r] = "bump"
       /\ Docs(t, f)' = {} /\ FileRows(t, f)' = FileRows(t, f)
    \/ pc[r] = "bump" /\ pc'[r] = "done" /\ Kept(t, f)

LEMMA TouchedFile ==
    ASSUME IInv, DeletesFit, NEW r \in Requests, NEW t \in Tenants, NEW f \in Filenames,
           Touches(r, t, f), pc[r] \in Ingesting \cup {"delVectors"}
    PROVE  args[r].tenant = t /\ args[r].filename = f
BY DEF IInv, ArgsFit, IngestArgs, DeletesFit, Touches

LEMMA WritesSo ==
    ASSUME IInv, DeletesFit, NEW r \in Requests, Step(r) \/ StepFails(r),
           NEW t \in Tenants, NEW f \in Filenames, Touches(r, t, f)
    PROVE  WriterMoves(r, t, f)
<1>0. /\ pc \in [Requests -> Labels] /\ failures \in Nat
      /\ prev \in [Requests -> DocIds \cup {None}] /\ r \in DocIds
  BY DEF IInv, TypeOK, DocIds
<1>1. ASSUME rows' = rows, vectors' = vectors PROVE Kept(t, f)
  BY <1>1 DEF Kept, Docs, FileRows, TenantRows
<1>2. ASSUME vectors' = vectors PROVE Docs(t, f)' = Docs(t, f)
  BY <1>2 DEF Docs
<1>3. ASSUME rows' = rows PROVE FileRows(t, f)' = FileRows(t, f)
  BY <1>3 DEF FileRows, TenantRows
<1>4. ASSUME NEW d, vectors' = VectorsWithoutDoc(t, d) PROVE Docs(t, f)' = Docs(t, f) \ {d}
  BY <1>4 DEF Docs, VectorsWithoutDoc
<1>5. ASSUME rows' = rows \ victims[r] PROVE FileRows(t, f)' = FileRows(t, f) \ victims[r]
  BY <1>5 DEF FileRows, TenantRows
<1>6. CASE ReadPrevious(r) \/ ReadPreviousFails(r)
  <2>1. /\ pc[r] = "prechecked" /\ pc'[r] \in {"upsert", "undone"}
        /\ rows' = rows /\ vectors' = vectors
    BY <1>0, <1>6 DEF ReadPrevious, ReadPreviousFails, Goto
  <2>2. ASSUME pc'[r] = "upsert" PROVE Ids(t, f) \subseteq {prev'[r]}
    <3>1. prev'[r] = CurrentId(args[r].tenant, args[r].filename)
      BY <1>0, <1>6, <2>2 DEF ReadPrevious, ReadPreviousFails, Goto
    <3>2. args[r].tenant = t /\ args[r].filename = f
      BY <2>1, TouchedFile DEF Ingesting
    <3>3. prev'[r] = CurrentId(t, f)
      BY <3>1, <3>2
    <3>4. \A x, y \in FileRows(t, f) : x = y
      BY DEF IInv, UniqueNames, FileRows, TenantRows
    <3>5. QED
      BY <3>3, <3>4 DEF CurrentId, Ids
  <2>3. QED
    BY <1>1, <2>1, <2>2 DEF WriterMoves
<1>7. CASE Upsert(r)
  <2>1. /\ pc[r] = "upsert" /\ pc'[r] = "record" /\ prev'[r] = prev[r] /\ rows' = rows
        /\ vectors' = vectors \cup {NewPoint(r)}
    BY <1>0, <1>7 DEF Upsert, Goto
  <2>2. args[r].tenant = t /\ args[r].filename = f
    BY <2>1, TouchedFile DEF Ingesting
  <2>3. Docs(t, f)' = Docs(t, f) \cup {r}
    <3>1. NewPoint(r).doc = r /\ NewPoint(r).tenant = t /\ NewPoint(r).filename = f
      BY <2>2 DEF NewPoint
    <3>2. \A d : d \in Docs(t, f)' <=> d \in Docs(t, f) \/ d = r
      BY <2>1, <3>1 DEF Docs
    <3>3. QED
      BY <3>2
  <2>4. QED
    BY <1>3, <2>1, <2>3 DEF WriterMoves
<1>8. CASE RecordBegin(r) \/ RecordFails(r)
  <2>1. /\ <<pc[r], pc'[r]>> \in {<<"record", "commit">>, <<"record", "undoQuota">>,
                                  <<"record", "undoFailure">>, <<"commit", "undoFailure">>}
        /\ prev'[r] = prev[r] /\ rows' = rows /\ vectors' = vectors
    BY <1>0, <1>8 DEF RecordBegin, RecordFails, Goto
  <2>2. QED
    BY <1>1, <2>1 DEF WriterMoves
<1>9. CASE RecordCommit(r)
  <2>1. /\ pc[r] = "commit" /\ pc'[r] = (IF prev[r] = None THEN "bump" ELSE "cleanup")
        /\ prev'[r] = prev[r] /\ vectors' = vectors
        /\ rows' = (rows \ victims[r]) \cup {NewRow(r)}
    BY <1>0, <1>9 DEF RecordCommit, Goto
  <2>2. args[r].tenant = t /\ args[r].filename = f
    BY <2>1, TouchedFile DEF Ingesting
  <2>3. FileRows(t, f) \subseteq victims[r]
    BY <2>1, <2>2 DEF IInv, LockHeld
  <2>4. FileRows(t, f)' = {NewRow(r)}
    BY <2>1, <2>2, <2>3 DEF FileRows, TenantRows, NewRow
  <2>5. QED
    BY <1>2, <2>1, <2>4 DEF WriterMoves
<1>10. CASE Compensate(r)
  <2>1. /\ \/ pc[r] \in {"undoQuota", "undoFailure"} /\ pc'[r] \in {"rejected", "undone"}
           \/ pc[r] = "undoCommitted" /\ pc'[r] = "failed"
        /\ rows' = rows /\ vectors' = VectorsWithoutDoc(args[r].tenant, r)
    BY <1>0, <1>10 DEF Compensate, Goto
  <2>2. args[r].tenant = t
    BY DEF Touches
  <2>3. Docs(t, f)' = Docs(t, f) \ {r} /\ FileRows(t, f)' = FileRows(t, f)
    BY <1>3, <1>4, <2>1, <2>2
  <2>4. QED
    BY <2>1, <2>3 DEF WriterMoves
<1>11. CASE CleanupPrevious(r)
  <2>1. /\ pc[r] = "cleanup" /\ pc'[r] = "bump"
        /\ rows' = rows /\ vectors' = VectorsWithoutDoc(args[r].tenant, prev[r])
    BY <1>0, <1>11 DEF CleanupPrevious, Goto
  <2>2. args[r].tenant = t
    BY DEF Touches
  <2>3. prev[r] # r
    BY <2>1 DEF IInv, PrevGone
  <2>4. Docs(t, f)' = Docs(t, f) \ {prev[r]} /\ FileRows(t, f)' = FileRows(t, f)
    BY <1>3, <1>4, <2>1, <2>2
  <2>5. QED
    BY <2>1, <2>3, <2>4 DEF WriterMoves
<1>12. CASE DeleteRows(r)
  <2>1. /\ pc[r] = "delRows"
        /\ pc'[r] = (IF victims[r] \cap rows = {} THEN "rejected" ELSE "delVectors")
        /\ vectors' = vectors /\ rows' = rows \ victims[r]
    BY <1>0, <1>12 DEF DeleteRows, Goto
  <2>2. FileRows(t, f) \subseteq rows
    BY DEF FileRows, TenantRows
  <2>3. pc'[r] = "rejected" => FileRows(t, f) \cap victims[r] = {}
    BY <2>1, <2>2
  <2>4. QED
    BY <1>2, <1>5, <2>1, <2>3 DEF WriterMoves
<1>13. CASE ClearRows(r)
  <2>1. pc[r] = "clearRows" /\ pc'[r] = "clearVectors" /\ rows' = rows \ victims[r]
    BY <1>0, <1>13 DEF ClearRows, Goto
  <2>2. QED
    BY <1>5, <2>1 DEF WriterMoves
<1>14. CASE ClearRowsFails(r)
  <2>1. /\ pc[r] = "clearRows" /\ pc'[r] = "clearVectors" /\ failures' = failures + 1
        /\ args' = args
    BY <1>0, <1>14 DEF ClearRowsFails, Goto, Fail
  <2>2. args[r].kind = "clear" /\ failures' > 0
    BY <1>0, <2>1 DEF IInv, ArgsFit
  <2>3. QED
    BY <2>1, <2>2 DEF WriterMoves
<1>15. CASE DeleteVectors(r)
  <2>1. /\ pc[r] = "delVectors" /\ pc'[r] = "bump" /\ rows' = rows
        /\ vectors' = VectorsWithoutFile(args[r].tenant, args[r].filename)
    BY <1>0, <1>15 DEF DeleteVectors, Goto
  <2>2. args[r].tenant = t /\ args[r].filename = f
    BY <2>1, TouchedFile
  <2>3. Docs(t, f)' = {}
    BY <2>1, <2>2 DEF Docs, VectorsWithoutFile
  <2>4. QED
    BY <1>3, <2>1, <2>3 DEF WriterMoves
<1>16. CASE ClearVectors(r)
  <2>1. /\ pc[r] = "clearVectors" /\ pc'[r] = "bump" /\ rows' = rows
        /\ vectors' = VectorsWithoutTenant(args[r].tenant)
    BY <1>0, <1>16 DEF ClearVectors, Goto
  <2>2. args[r].tenant = t
    BY DEF Touches
  <2>3. Docs(t, f)' = {}
    BY <2>1, <2>2 DEF Docs, VectorsWithoutTenant
  <2>4. QED
    BY <1>3, <2>1, <2>3 DEF WriterMoves
<1>17. CASE Bump(r) \/ BumpFails(r)
  <2>1. pc[r] = "bump" /\ pc'[r] = "done" /\ rows' = rows /\ vectors' = vectors
    BY <1>0, <1>17 DEF Bump, BumpFails, Goto
  <2>2. QED
    BY <1>1, <2>1 DEF WriterMoves
<1>18. CASE \/ UpsertFails(r) \/ CommitReplyLost(r) \/ CompensateFails(r) \/ CleanupFails(r)
            \/ DeleteRowsFails(r) \/ DeleteVectorsFails(r) \/ ClearVectorsFails(r) \/ Crash(r)
  <2>1. pc'[r] \in {"undoCommitted", "unclean", "missed", "saved", "failed", "crashed"}
    BY <1>0, <1>18 DEF UpsertFails, CommitReplyLost, CompensateFails, CleanupFails,
       DeleteRowsFails, DeleteVectorsFails, ClearVectorsFails, Crash, Goto
  <2>2. QED
    BY <2>1 DEF WriterMoves
<1>19. QED
  BY <1>6, <1>7, <1>8, <1>9, <1>10, <1>11, <1>12, <1>13, <1>14, <1>15, <1>16, <1>17, <1>18
  DEF Step, StepFails

-----------------------------------------------------------------------------
(* The invariant is kept.                                                  *)

\* The history of a file was in order if it is.
LEMMA OrderlyBefore ==
    ASSUME IInv, NEW r \in Requests, RequestStep(r), NEW t, NEW f,
           NEW endings \in SUBSET Ended, Orderly(t, f, endings)'
    PROVE  Orderly(t, f, endings)
<1> SUFFICES ASSUME NEW q \in Requests, pc[q] # "idle", Touches(q, t, f)
             PROVE  pc[q] \in Working \cup endings /\ args[q].alone
  BY DEF Orderly
<1>1. CASE q # r
  BY <1>1, RequestFrame DEF Orderly, Touches
<1>2. CASE q = r
  <2>1. args' = args /\ pc'[r] # "idle" /\ pc[r] \in Working
    BY <1>2, RequestFrame
  <2>2. QED
    BY <1>2, <2>1 DEF Orderly, Touches
<1>3. QED
  BY <1>1, <1>2

LEMMA ClearFailedBefore ==
    ASSUME IInv, NEW r \in Requests, RequestStep(r), NoClearFailed'
    PROVE  NoClearFailed
<1> SUFFICES ASSUME failures > 0, NEW q \in Requests, pc[q] # "idle"
             PROVE  args[q].kind # "clear"
  BY DEF NoClearFailed
<1>1. failures' > 0
  BY OthersStay DEF IInv, TypeOK
<1>2. pc'[q] # "idle" /\ args'[q] = args[q]
  <2>1. CASE q # r
    BY <2>1, RequestFrame
  <2>2. CASE q = r
    BY <2>2, RequestFrame
  <2>3. QED
    BY <2>1, <2>2
<1>3. QED
  BY <1>1, <1>2 DEF NoClearFailed

\* Who writes to a file goes on doing so, unless it is the one that moves.
LEMMA WritersStay ==
    ASSUME IInv, NEW r \in Requests, RequestStep(r), NEW t, NEW f, NEW q, q # r
    PROVE  /\ q \in Writers(t, f)' <=> q \in Writers(t, f)
           /\ q \in Requests => args'[q] = args[q]
BY RequestFrame DEF Writers, Touches

LEMMA StepOneWriter ==
    ASSUME IInv, OneWriter, NEW r \in Requests, RequestStep(r)
    PROVE  OneWriter'
<1> SUFFICES ASSUME NEW t \in Tenants, NEW f \in Filenames, NEW q \in Writers(t, f)',
                    NEW w \in Writers(t, f)', args'[q].alone, args'[w].alone, q # w
             PROVE  FALSE
  BY DEF OneWriter
<1>1. ASSUME NEW x \in Writers(t, f)', NEW y \in Writers(t, f)', x = r, y # r,
             args'[x].alone, args'[y].alone
      PROVE  FALSE
  <2>1. y \in Writers(t, f) /\ args'[y] = args[y]
    BY <1>1, WritersStay DEF Writers
  <2>2. CASE pc[r] = "idle"
    <3>1. Begin(r) /\ Touches(r, t, f)' /\ pc'[r] \in Working
      BY <1>1, <2>2, RequestFrame DEF Writers
    <3>2. Writers(t, f) = {}
      BY <1>1, <3>1, BeginsOnFile
    <3>3. QED
      BY <2>1, <3>2
  <2>3. CASE pc[r] # "idle"
    <3>1. r \in Writers(t, f) /\ args'[r] = args[r]
      BY <1>1, <2>3, RequestFrame DEF Writers, Touches
    <3>2. QED
      BY <1>1, <2>1, <3>1 DEF OneWriter
  <2>4. QED
    BY <2>2, <2>3
<1>2. CASE q # r /\ w # r
  <2>1. q \in Writers(t, f) /\ w \in Writers(t, f) /\ args'[q] = args[q] /\ args'[w] = args[w]
    BY <1>2, WritersStay DEF Writers
  <2>2. QED
    BY <2>1 DEF OneWriter
<1>3. QED
  BY <1>1, <1>2

LEMMA StepDeletesFit ==
    ASSUME IInv, DeletesFit, NEW r \in Requests, RequestStep(r)
    PROVE  DeletesFit'
<1>1. \A q \in Requests \ {r} : pc'[q] = pc[q] /\ args'[q] = args[q] /\ victims'[q] = victims[q]
  BY RequestFrame, OthersStay
<1>2. /\ pc'[r] = "delVectors" => args'[r].kind = "delete"
      /\ pc'[r] = "delRows" => \A row \in victims'[r] : row.filename = args'[r].filename
  <2> USE DEF IInv, TypeOK, Goto
  <2>1. CASE Step(r) \/ StepFails(r)
    <3>1. pc'[r] # "delRows"
      BY <2>1 DEF Step, StepFails, ReadPrevious, Upsert, RecordBegin, RecordCommit, Compensate,
         CleanupPrevious, DeleteRows, DeleteVectors, ClearRows, ClearVectors, Bump,
         ReadPreviousFails, UpsertFails, RecordFails, CommitReplyLost, CompensateFails,
         CleanupFails, DeleteRowsFails, ClearRowsFails, DeleteVectorsFails, ClearVectorsFails,
         BumpFails, Crash
    <3>2. pc'[r] = "delVectors" => pc[r] = "delRows" /\ args' = args
      BY <2>1 DEF Step, StepFails, ReadPrevious, Upsert, RecordBegin, RecordCommit, Compensate,
         CleanupPrevious, DeleteRows, DeleteVectors, ClearRows, ClearVectors, Bump,
         ReadPreviousFails, UpsertFails, RecordFails, CommitReplyLost, CompensateFails,
         CleanupFails, DeleteRowsFails, ClearRowsFails, DeleteVectorsFails, ClearVectorsFails,
         BumpFails, Crash
    <3>3. QED
      BY <3>1, <3>2 DEF ArgsFit
  <2>2. ASSUME NEW t \in Tenants, NEW target \in Filenames \cup DocIds, BeginDelete(r, t, target)
        PROVE  /\ pc'[r] # "delVectors"
               /\ pc'[r] = "delRows" => \A row \in victims'[r] : row.filename = args'[r].filename
    <3> DEFINE hit == Matching(t, target)
    <3>1. /\ pc'[r] \in {"rejected", "delRows"} /\ victims'[r] = hit
          /\ hit # {} => \E row \in hit : args'[r].filename = row.filename
      BY <2>2 DEF BeginDelete
    <3>0. \A row \in rows : row = NewRow(row.id) /\ row.id \in DocIds /\ row.filename \in Filenames
      BY DEF RowOwner, Row
    <3>2. ASSUME NEW x \in hit, NEW y \in hit PROVE x.filename = y.filename
      <4>1. /\ x \in rows /\ y \in rows
            /\ x.id = target \/ x.filename = target
            /\ y.id = target \/ y.filename = target
        BY DEF Matching, TenantRows
      <4>2. x = NewRow(x.id) /\ y = NewRow(y.id)
        BY <3>0, <4>1
      <4>3. CASE target \in DocIds
        <5>1. x.filename # target /\ y.filename # target
          BY <3>0, <4>1, <4>3, NamesAssumption DEF DocIds
        <5>2. QED
          BY <4>1, <4>2, <5>1
      <4>4. CASE target \in Filenames
        <5>1. x.id # target /\ y.id # target
          BY <3>0, <4>1, <4>4, NamesAssumption DEF DocIds
        <5>2. QED
          BY <4>1, <5>1
      <4>5. QED
        BY <4>3, <4>4
    <3> HIDE DEF hit
    <3>3. QED
      BY <3>1, <3>2
  <2>3. ASSUME NEW t \in Tenants, \/ \E f \in Filenames, size \in Sizes : BeginIngest(r, t, f, size)
                                  \/ BeginClear(r, t)
        PROVE  pc'[r] \notin {"delRows", "delVectors"}
    BY <2>3 DEF BeginIngest, BeginClear
  <2>4. QED
    BY <2>1, <2>2, <2>3 DEF RequestStep, Begin
<1>3. QED
  BY <1>1, <1>2 DEF DeletesFit

\* The writer of a file whose history is in order is alone.
LEMMA AloneInOrder ==
    ASSUME OneWriter, NEW t \in Tenants, NEW f \in Filenames, NEW endings,
           Orderly(t, f, endings), NEW r \in Writers(t, f)
    PROVE  Writers(t, f) = {r}
<1>1. \A q \in Writers(t, f) : args[q].alone
  BY DEF Orderly, Writers, Working
<1>2. QED
  BY <1>1 DEF OneWriter

\* How a step may meet a file in order: it is about something else, it begins where nobody
\* writes, or the only writer moves.
LEMMA StepOnFile ==
    ASSUME IInv, DeletesFit, OneWriter, NEW r \in Requests, RequestStep(r),
           NEW t \in Tenants, NEW f \in Filenames, NEW endings \in SUBSET Ended,
           Orderly(t, f, endings)'
    PROVE  /\ Orderly(t, f, endings)
           /\ \/ /\ Writers(t, f)' = Writers(t, f) /\ r \notin Writers(t, f) /\ Kept(t, f)
              \/ /\ Writers(t, f) = {} /\ Writers(t, f)' = {r} /\ Kept(t, f)
                 /\ pc'[r] \in {"prechecked", "delRows", "clearRows"}
                 /\ pc'[r] \in {"delRows", "clearRows"} => FileRows(t, f) \subseteq victims'[r]
              \/ /\ Writers(t, f) = {r} /\ WriterMoves(r, t, f)
                 /\ Writers(t, f)' = IF pc'[r] \in Working THEN {r} ELSE {}
                 /\ pc'[r] \in Working \cup endings
<1>1. Orderly(t, f, endings)
  BY OrderlyBefore
<1>2. CASE r \notin Writers(t, f) /\ r \notin Writers(t, f)'
  <2>1. pc[r] = "idle" \/ ~Touches(r, t, f)
    BY <1>2, RequestFrame DEF Writers
  <2>2. Kept(t, f)
    BY <2>1, Untouched DEF Kept
  <2>3. Writers(t, f)' = Writers(t, f)
    BY <1>2, WritersStay
  <2>4. QED
    BY <1>1, <1>2, <2>2, <2>3
<1>3. CASE r \notin Writers(t, f) /\ r \in Writers(t, f)'
  <2>1. pc[r] = "idle" /\ Begin(r) /\ Touches(r, t, f)' /\ pc'[r] \in Working
    <3>1. pc'[r] \in Working /\ Touches(r, t, f)'
      BY <1>3 DEF Writers
    <3>2. pc[r] # "idle" => Touches(r, t, f) /\ pc[r] \in Working
      BY <3>1, RequestFrame DEF Touches
    <3>3. pc[r] = "idle"
      BY <1>3, <3>2 DEF Writers
    <3>4. QED
      BY <3>1, <3>3, RequestFrame
  <2>2. args'[r].alone
    BY <2>1 DEF Orderly, Working
  <2>3. /\ Writers(t, f) = {} /\ pc'[r] \in {"prechecked", "delRows", "clearRows"}
        /\ pc'[r] \in {"delRows", "clearRows"} => FileRows(t, f) \subseteq victims'[r]
    BY <2>1, <2>2, BeginsOnFile
  <2>4. Kept(t, f)
    BY <2>1, Untouched DEF Kept
  <2>5. Writers(t, f)' = {r}
    BY <1>3, <2>3, WritersStay
  <2>6. QED
    BY <1>1, <2>3, <2>4, <2>5
<1>4. CASE r \in Writers(t, f)
  <2>1. Writers(t, f) = {r}
    BY <1>1, <1>4, AloneInOrder
  <2>2. /\ Touches(r, t, f) /\ pc[r] # "idle" /\ pc'[r] # "idle" /\ args' = args
    BY <1>4, RequestFrame DEF Writers, Working
  <2>3. Step(r) \/ StepFails(r)
    <3>1. Begin(r) => pc[r] = "idle"
      BY BeginsSo DEF BeginEffect
    <3>2. QED
      BY <2>2, <3>1 DEF RequestStep
  <2>4. WriterMoves(r, t, f)
    BY <2>2, <2>3, WritesSo
  <2>5. Touches(r, t, f)'
    BY <2>2 DEF Touches
  <2>6. pc'[r] \in Working \cup endings
    BY <2>2, <2>5 DEF Orderly
  <2>7. r \in Writers(t, f)' <=> pc'[r] \in Working
    BY <2>5 DEF Writers
  <2>8. Writers(t, f)' = IF pc'[r] \in Working THEN {r} ELSE {}
    BY <2>1, <2>7, WritersStay
  <2>9. QED
    BY <1>1, <2>1, <2>4, <2>6, <2>8
<1>5. QED
  BY <1>2, <1>3, <1>4

LEMMA IdsOfRows ==
    ASSUME NEW t, NEW f
    PROVE  /\ FileRows(t, f)' = FileRows(t, f) => Ids(t, f)' = Ids(t, f)
           /\ \A r : FileRows(t, f)' = {NewRow(r)} => Ids(t, f)' = {r}
           /\ FileRows(t, f)' = {} => Ids(t, f)' = {}
<1>1. \A r : NewRow(r).id = r
  BY DEF NewRow
<1>2. \A r : {row.id : row \in {NewRow(r)}} = {r}
  BY <1>1
<1>3. QED
  BY <1>2 DEF Ids

LEMMA StepSwept ==
    ASSUME FilesIInv, NEW r \in Requests, RequestStep(r)
    PROVE  Swept'
<1> DEFINE endings == {"done", "rejected", "undone"}
<1> SUFFICES ASSUME NEW t \in Tenants, NEW f \in Filenames, Orderly(t, f, endings)'
             PROVE  /\ Writers(t, f)' = {} => Docs(t, f)' \subseteq Ids(t, f)'
                    /\ \A w \in Writers(t, f)' : SweptBy(w, t, f)'
  BY DEF Swept
<1>1. /\ IInv /\ DeletesFit /\ OneWriter /\ Swept
      /\ endings \in SUBSET Ended
  BY DEF FilesIInv, Ended
<1> DEFINE D == Docs(t, f)
           E == Docs(t, f)'
           I == Ids(t, f)
           J == Ids(t, f)'
<1>2. /\ Writers(t, f) = {} => D \subseteq I
      /\ \A w \in Writers(t, f) : SweptBy(w, t, f)
  BY <1>1, StepOnFile DEF Swept
<1>3. CASE Writers(t, f)' = Writers(t, f) /\ r \notin Writers(t, f) /\ Kept(t, f)
  <2>1. E = D /\ J = I
    BY <1>3, IdsOfRows DEF Kept
  <2>2. \A w \in Writers(t, f) : pc'[w] = pc[w] /\ prev'[w] = prev[w]
    BY <1>1, <1>3, RequestFrame, OthersStay DEF Writers
  <2>3. QED
    BY <1>2, <1>3, <2>1, <2>2 DEF SweptBy
<1>4. CASE /\ Writers(t, f) = {} /\ Writers(t, f)' = {r} /\ Kept(t, f)
           /\ pc'[r] \in {"prechecked", "delRows", "clearRows"}
  <2>1. E \subseteq J
    BY <1>2, <1>4, IdsOfRows DEF Kept
  <2>2. QED
    BY <1>4, <2>1 DEF SweptBy
<1>5. CASE /\ Writers(t, f) = {r} /\ WriterMoves(r, t, f)
           /\ Writers(t, f)' = IF pc'[r] \in Working THEN {r} ELSE {}
           /\ pc'[r] \in Working \cup endings
  <2>1. SweptBy(r, t, f)
    BY <1>2, <1>5
  <2>2. /\ pc'[r] \notin {"unclean", "missed", "saved", "failed", "crashed"}
        /\ Kept(t, f) => E = D /\ J = I
        /\ FileRows(t, f)' = FileRows(t, f) => J = I
    BY <1>5, IdsOfRows DEF Kept, Working
  <2>3. SUFFICES /\ pc'[r] \notin Working => E \subseteq J
                 /\ pc'[r] \in Working => SweptBy(r, t, f)'
    BY <1>5
  <2> HIDE DEF D, E, I, J
  <2>4. CASE pc'[r] = "undoCommitted"
    BY <2>4 DEF Working, SweptBy
  <2>5. CASE /\ pc[r] = "prechecked" /\ pc'[r] \in {"upsert", "undone"} /\ Kept(t, f)
             /\ pc'[r] = "upsert" => Ids(t, f) \subseteq {prev'[r]}
    <3>1. D \subseteq I /\ E = D /\ J = I
      BY <2>1, <2>2, <2>5 DEF SweptBy, D, I
    <3>2. QED
      BY <2>5, <3>1 DEF SweptBy, D, E, I, J, Working
  <2>6. CASE /\ pc[r] = "upsert" /\ pc'[r] = "record" /\ prev'[r] = prev[r]
             /\ Docs(t, f)' = Docs(t, f) \cup {r} /\ FileRows(t, f)' = FileRows(t, f)
    BY <2>1, <2>2, <2>6 DEF SweptBy, D, E, I, J, Working
  <2>7. CASE /\ <<pc[r], pc'[r]>> \in {<<"record", "commit">>, <<"record", "undoQuota">>,
                                       <<"record", "undoFailure">>, <<"commit", "undoFailure">>}
             /\ prev'[r] = prev[r] /\ Kept(t, f)
    BY <2>1, <2>2, <2>7 DEF SweptBy, D, E, I, J, Working
  <2>8. CASE /\ pc[r] = "commit" /\ prev'[r] = prev[r]
             /\ pc'[r] = "cleanup" \/ (pc'[r] = "bump" /\ prev[r] = None)
             /\ Docs(t, f)' = Docs(t, f) /\ FileRows(t, f)' = {NewRow(r)}
    <3>1. D \subseteq {prev[r], r} /\ E = D /\ J = {r}
      BY <2>1, <2>8, IdsOfRows DEF SweptBy, D, E, I, J
    <3>2. None \notin D
      BY <1>1, RequestsAssumption DEF D, Docs, IInv, TypeOK, Point, DocIds
    <3>3. QED
      BY <2>8, <3>1, <3>2 DEF SweptBy, E, J, Working
  <2>9. CASE /\ pc[r] \in {"undoQuota", "undoFailure"} /\ pc'[r] \in {"rejected", "undone"}
             /\ Docs(t, f)' = Docs(t, f) \ {r} /\ FileRows(t, f)' = FileRows(t, f)
    BY <2>1, <2>2, <2>9 DEF SweptBy, D, E, I, J, Working
  <2>10. CASE /\ pc[r] = "cleanup" /\ pc'[r] = "bump" /\ prev[r] # r
              /\ Docs(t, f)' = Docs(t, f) \ {prev[r]} /\ FileRows(t, f)' = FileRows(t, f)
    BY <2>1, <2>2, <2>10 DEF SweptBy, D, E, I, J, Working
  <2>11. CASE /\ pc[r] = "delRows" /\ pc'[r] \in {"rejected", "delVectors"}
              /\ Docs(t, f)' = Docs(t, f) /\ FileRows(t, f)' = FileRows(t, f) \ victims[r]
              /\ pc'[r] = "rejected" => FileRows(t, f) \cap victims[r] = {}
    <3>1. CASE pc'[r] = "rejected"
      <4>1. FileRows(t, f)' = FileRows(t, f)
        BY <2>11, <3>1
      <4>2. QED
        BY <2>1, <2>2, <2>11, <3>1, <4>1 DEF SweptBy, D, E, I, J, Working
    <3>2. CASE pc'[r] = "delVectors"
      BY <3>2 DEF SweptBy, Working
    <3>3. QED
      BY <2>11, <3>1, <3>2
  <2>12. CASE pc[r] = "clearRows" /\ pc'[r] = "clearVectors"
    BY <2>12 DEF SweptBy, Working
  <2>13. CASE /\ pc[r] \in {"delVectors", "clearVectors"} /\ pc'[r] = "bump"
              /\ Docs(t, f)' = {} /\ FileRows(t, f)' = FileRows(t, f)
    BY <2>13 DEF SweptBy, E, J, Working
  <2>14. CASE pc[r] = "bump" /\ pc'[r] = "done" /\ Kept(t, f)
    BY <2>1, <2>2, <2>14 DEF SweptBy, D, E, I, J, Working
  <2>15. QED
    BY <1>5, <2>2, <2>4, <2>5, <2>6, <2>7, <2>8, <2>9, <2>10, <2>11, <2>12, <2>13, <2>14
    DEF WriterMoves
<1>6. QED
  BY <1>1, <1>3, <1>4, <1>5, StepOnFile

LEMMA StepFound ==
    ASSUME FilesIInv, NEW r \in Requests, RequestStep(r)
    PROVE  Found'
<1> DEFINE endings == {"done", "rejected", "undone"}
<1> SUFFICES ASSUME NEW t \in Tenants, NEW f \in Filenames, NoClearFailed',
                    Orderly(t, f, endings)'
             PROVE  /\ Writers(t, f)' = {} => Ids(t, f)' \subseteq Docs(t, f)'
                    /\ \A w \in Writers(t, f)' : FoundBy(w, t, f)'
  BY DEF Found
<1>1. /\ IInv /\ DeletesFit /\ OneWriter /\ Found
      /\ endings \in SUBSET Ended
  BY DEF FilesIInv, Ended
<1> DEFINE D == Docs(t, f)
           E == Docs(t, f)'
           I == Ids(t, f)
           J == Ids(t, f)'
           F == FileRows(t, f)
           G == FileRows(t, f)'
<1>2. /\ Writers(t, f) = {} => I \subseteq D
      /\ \A w \in Writers(t, f) : FoundBy(w, t, f)
  BY <1>1, StepOnFile, ClearFailedBefore DEF Found
<1>3. CASE Writers(t, f)' = Writers(t, f) /\ r \notin Writers(t, f) /\ Kept(t, f)
  <2>1. E = D /\ J = I /\ G = F
    BY <1>3, IdsOfRows DEF Kept
  <2>2. \A w \in Writers(t, f) : pc'[w] = pc[w] /\ victims'[w] = victims[w]
    BY <1>1, <1>3, RequestFrame, OthersStay DEF Writers
  <2>3. QED
    BY <1>2, <1>3, <2>1, <2>2 DEF FoundBy
<1>4. CASE /\ Writers(t, f) = {} /\ Writers(t, f)' = {r} /\ Kept(t, f)
           /\ pc'[r] \in {"prechecked", "delRows", "clearRows"}
           /\ pc'[r] \in {"delRows", "clearRows"} => FileRows(t, f) \subseteq victims'[r]
  <2>1. J \subseteq E /\ G = F
    BY <1>2, <1>4, IdsOfRows DEF Kept
  <2>2. QED
    BY <1>4, <2>1 DEF FoundBy
<1>5. CASE /\ Writers(t, f) = {r} /\ WriterMoves(r, t, f)
           /\ Writers(t, f)' = IF pc'[r] \in Working THEN {r} ELSE {}
           /\ pc'[r] \in Working \cup endings
  <2>1. FoundBy(r, t, f) /\ r \in Requests
    BY <1>2, <1>5
  <2>2. /\ pc'[r] \notin {"unclean", "missed", "saved", "failed", "crashed"}
        /\ Kept(t, f) => E = D /\ J = I /\ G = F
        /\ G = F => J = I
        /\ G = {} => J = {}
    BY <1>5, IdsOfRows DEF Kept, Working
  <2>3. SUFFICES /\ pc'[r] \notin Working => J \subseteq E
                 /\ pc'[r] \in Working => FoundBy(r, t, f)'
    BY <1>5
  <2> HIDE DEF D, E, I, J, F, G
  <2>4. CASE pc'[r] = "undoCommitted"
    BY <2>4 DEF Working, FoundBy
  <2>5. CASE pc[r] = "prechecked" /\ pc'[r] \in {"upsert", "undone"} /\ Kept(t, f)
    BY <2>1, <2>2, <2>5 DEF FoundBy, D, E, I, J, Working
  <2>6. CASE /\ pc[r] = "upsert" /\ pc'[r] = "record"
             /\ Docs(t, f)' = Docs(t, f) \cup {r} /\ FileRows(t, f)' = FileRows(t, f)
    BY <2>1, <2>2, <2>6 DEF FoundBy, D, E, I, J, F, G, Working
  <2>7. CASE /\ <<pc[r], pc'[r]>> \in {<<"record", "commit">>, <<"record", "undoQuota">>,
                                       <<"record", "undoFailure">>, <<"commit", "undoFailure">>}
             /\ Kept(t, f)
    BY <2>1, <2>2, <2>7 DEF FoundBy, D, E, I, J, Working
  <2>8. CASE /\ pc[r] = "commit" /\ pc'[r] \in {"cleanup", "bump"}
             /\ Docs(t, f)' = Docs(t, f) /\ FileRows(t, f)' = {NewRow(r)}
    <3>1. r \in D /\ E = D /\ J = {r}
      BY <2>1, <2>8, IdsOfRows DEF FoundBy, D, E, I, J
    <3>2. QED
      BY <2>8, <3>1 DEF FoundBy, E, J, Working
  <2>9. CASE /\ pc[r] \in {"undoQuota", "undoFailure"} /\ pc'[r] \in {"rejected", "undone"}
             /\ Docs(t, f)' = Docs(t, f) \ {r} /\ FileRows(t, f)' = FileRows(t, f)
    <3>1. r \notin I
      BY <1>1, <2>9 DEF IInv, RowOwner, Recorded, I, Ids, FileRows, TenantRows
    <3>2. I \subseteq D /\ E = D \ {r} /\ J = I
      BY <2>1, <2>2, <2>9 DEF FoundBy, D, E, I, F, G
    <3>3. QED
      BY <2>9, <3>1, <3>2 DEF Working
  <2>10. CASE /\ pc[r] = "cleanup" /\ pc'[r] = "bump" /\ prev[r] # r
              /\ Docs(t, f)' = Docs(t, f) \ {prev[r]} /\ FileRows(t, f)' = FileRows(t, f)
    BY <2>1, <2>2, <2>10 DEF FoundBy, D, E, I, J, F, G, Working
  <2>11. CASE /\ pc[r] = "delRows" /\ pc'[r] \in {"rejected", "delVectors"}
              /\ FileRows(t, f)' = FileRows(t, f) \ victims[r]
    <3>1. G = {} /\ J = {}
      BY <2>1, <2>2, <2>11 DEF FoundBy, F, G
    <3>2. QED
      BY <2>11, <3>1 DEF FoundBy, G, J, Working
  <2>12. CASE /\ pc[r] = "clearRows" /\ pc'[r] = "clearVectors"
              /\ FileRows(t, f)' = FileRows(t, f) \ victims[r]
    <3>1. G = {}
      BY <2>1, <2>12 DEF FoundBy, F, G
    <3>2. QED
      BY <2>12, <3>1 DEF FoundBy, G, Working
  <2>13. CASE pc'[r] = "clearVectors" /\ failures' > 0 /\ args'[r].kind = "clear"
    BY <2>1, <2>13 DEF NoClearFailed
  <2>14. CASE /\ pc[r] \in {"delVectors", "clearVectors"} /\ pc'[r] = "bump"
              /\ FileRows(t, f)' = FileRows(t, f)
    <3>1. J = {}
      BY <2>1, <2>2, <2>14 DEF FoundBy, F, G
    <3>2. QED
      BY <2>14, <3>1 DEF FoundBy, J, Working
  <2>15. CASE pc[r] = "bump" /\ pc'[r] = "done" /\ Kept(t, f)
    BY <2>1, <2>2, <2>15 DEF FoundBy, D, E, I, J, Working
  <2>16. QED
    BY <1>5, <2>2, <2>4, <2>5, <2>6, <2>7, <2>8, <2>9, <2>10, <2>11, <2>12, <2>13, <2>14, <2>15
    DEF WriterMoves
<1>6. QED
  BY <1>1, <1>3, <1>4, <1>5, StepOnFile

LEMMA StepFiles ==
    ASSUME FilesIInv, [Next]_vars
    PROVE  FilesIInv'
<1>1. ASSUME NEW r \in Requests, RequestStep(r) PROVE FilesIInv'
  <2>1. IInv /\ DeletesFit /\ OneWriter
    BY DEF FilesIInv
  <2>2. IInv'
    BY <2>1, StepIInv
  <2>3. QED
    BY <1>1, <2>1, <2>2, StepDeletesFit, StepOneWriter, StepSwept, StepFound DEF FilesIInv
<1>2. CASE UNCHANGED vars
  <2>1. IInv'
    BY StepIInv DEF FilesIInv
  <2>2. /\ \A t, f : /\ Writers(t, f)' = Writers(t, f) /\ FileRows(t, f)' = FileRows(t, f)
                     /\ Docs(t, f)' = Docs(t, f) /\ Ids(t, f)' = Ids(t, f)
        /\ pc' = pc /\ args' = args /\ prev' = prev /\ victims' = victims /\ failures' = failures
    BY <1>2 DEF vars, Writers, Touches, FileRows, TenantRows, Docs, Ids
  <2>3. /\ \A t, f, endings : Orderly(t, f, endings)' <=> Orderly(t, f, endings)
        /\ NoClearFailed' <=> NoClearFailed
    BY <2>2 DEF Orderly, NoClearFailed, Touches
  <2>4. DeletesFit' /\ OneWriter'
    BY <2>2 DEF FilesIInv, DeletesFit, OneWriter
  <2>5. Swept'
    BY <2>2, <2>3 DEF FilesIInv, Swept, SweptBy
  <2>6. Found'
    BY <2>2, <2>3 DEF FilesIInv, Found, FoundBy
  <2>7. QED
    BY <2>1, <2>4, <2>5, <2>6 DEF FilesIInv
<1>3. QED
  BY <1>1, <1>2 DEF Next, RequestStep

LEMMA InitFiles == Init => FilesIInv
<1> SUFFICES ASSUME Init PROVE FilesIInv
  OBVIOUS
<1>1. IInv /\ rows = {} /\ vectors = {} /\ \A r \in Requests : pc[r] = "idle"
  BY InitIInv DEF Init
<1>2. \A t, f : Writers(t, f) = {} /\ FileRows(t, f) = {} /\ Docs(t, f) = {} /\ Ids(t, f) = {}
  BY <1>1 DEF Writers, Working, FileRows, TenantRows, Docs, Ids
<1>3. QED
  BY <1>1, <1>2 DEF FilesIInv, DeletesFit, OneWriter, Swept, Found

-----------------------------------------------------------------------------
(* The theorems.                                                           *)

\* The invariant of files holds for any number of requests, tenants, files and failures.
THEOREM FilesInvariance == Spec => []FilesIInv
<1>1. Init => FilesIInv
  BY InitFiles
<1>2. FilesIInv /\ [Next]_vars => FilesIInv'
  BY StepFiles
<1>3. QED
  BY <1>1, <1>2, PTL DEF Spec

LEMMA SettledInOrder ==
    ASSUME NEW t, NEW f, NEW endings \in SUBSET Ended, Settled(t, f, endings)
    PROVE  Orderly(t, f, endings) /\ Writers(t, f) = {}
BY DEF Settled, Orderly, Writers, Working, Ended

\* When the writes to a file came one after the other, and none was cut short, no vector
\* is left under its name but those of the document listed (_process_document_ingestion
\* with its compensation and cleanup, delete_document, clear_all_documents).
THEOREM NoGhostsAreLeft == Spec => []NoGhosts
<1>1. ASSUME FilesIInv PROVE NoGhosts
  <2>1. {"done", "rejected", "undone"} \in SUBSET Ended
    BY DEF Ended
  <2>2. QED
    BY <1>1, <2>1, SettledInOrder DEF FilesIInv, Swept, NoGhosts
<1>2. QED
  BY <1>1, FilesInvariance, PTL

\* Under the same conditions, and with no clear gone through a failure, the document that
\* is listed can be found.
THEOREM ListedIsFound == Spec => []ListedIsSearchable
<1>1. ASSUME FilesIInv PROVE ListedIsSearchable
  <2> DEFINE endings == {"done", "rejected", "undone"}
  <2> SUFFICES ASSUME NEW t \in Tenants, NEW f \in Filenames, Settled(t, f, endings),
                      failures > 0 => \A r \in Requests : args[r].kind # "clear"
               PROVE  Ids(t, f) \subseteq Docs(t, f)
    BY DEF ListedIsSearchable
  <2>1. endings \in SUBSET Ended
    BY DEF Ended
  <2>2. Orderly(t, f, endings) /\ Writers(t, f) = {} /\ NoClearFailed
    BY <2>1, SettledInOrder DEF NoClearFailed
  <2>3. QED
    BY <1>1, <2>2 DEF FilesIInv, Found
<1>2. QED
  BY <1>1, FilesInvariance, PTL
=============================================================================
