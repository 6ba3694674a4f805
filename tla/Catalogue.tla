------------------------------ MODULE Catalogue ------------------------------
(***************************************************************************)
(* What the API promises of the list of a tenant's documents, whatever the *)
(* three stores do underneath: each ingestion, deletion or clear changes   *)
(* the list in one step between its start and its answer, or not at all.   *)
(* What the client may conclude depends on the answer.  "ok" of an         *)
(* ingestion or a deletion: it took effect, and the deletion removed       *)
(* something.  "refused", of an ingestion only: it had none.  "missing",   *)
(* of a deletion only, and the "ok" of a clear: nothing.  "failed", an     *)
(* error or no answer at all: nothing.                                     *)
(***************************************************************************)
EXTENDS Naturals, FiniteSets

CONSTANTS
    Requests,
    Filenames,
    Asks,          \* what a request may ask for
    MaxDocuments

VARIABLES
    listed,   \* the documents of all tenants
    asked,    \* what each request was asked to do
    seen,     \* what an open deletion or clear is about to remove
    status    \* of each request

vars == <<listed, asked, seen, status>>

Document(r) == [id |-> r, tenant |-> asked[r].tenant,
                filename |-> asked[r].filename, size |-> asked[r].size]
OfTenant(t) == {d \in listed : d.tenant = t}

Init ==
    /\ listed = {}
    /\ status = [r \in Requests |-> "none"]
    /\ seen = [r \in Requests |-> {}]

\* The sets of documents a request may refer to, looked up when it starts.
Targets(a) ==
    CASE a.kind = "ingest" -> {{}}
      [] a.kind = "clear"  -> {OfTenant(a.tenant)}
      [] a.kind = "delete" ->
            {{d \in OfTenant(a.tenant) : d.id = target \/ d.filename = target} :
                target \in Filenames \cup Requests}

\* An ingestion may be refused at once; a deletion that finds nothing is.
Open(r) ==
    /\ status[r] = "none"
    /\ \E a \in Asks : \E found \in Targets(a), to \in {"open", "refused", "missing"} :
          /\ to = "refused" => a.kind = "ingest"
          /\ to = "missing" <=> a.kind = "delete" /\ found = {}
          /\ status' = [status EXCEPT ![r] = to]
          /\ asked' = [asked EXCEPT ![r] = a]
          /\ seen' = [seen EXCEPT ![r] = found]
    /\ UNCHANGED listed

-----------------------------------------------------------------------------
(* The step that takes effect.                                             *)

\* An ingestion replaces the documents of its name, within the quota.
Put(r) ==
    /\ asked[r].kind = "ingest"
    /\ listed' = {d \in listed : ~(d.tenant = asked[r].tenant
                                   /\ d.filename = asked[r].filename)}
                 \cup {Document(r)}
    /\ Cardinality(OfTenant(asked[r].tenant)') <= MaxDocuments
    /\ UNCHANGED seen

\* A deletion or a clear removes what is left of the documents it found when it
\* started; a document put meanwhile stays.
Remove(r) ==
    /\ asked[r].kind \in {"delete", "clear"}
    /\ listed' = listed \ seen[r]
    /\ seen' = [seen EXCEPT ![r] = {}]

Effect(r) == Put(r) \/ Remove(r)
NoEffect(r) == listed' = listed /\ seen' = [seen EXCEPT ![r] = {}]

Goto(r, from, to) == status[r] = from /\ status' = [status EXCEPT ![r] = to] /\ UNCHANGED asked

\* A deletion that goes on has removed something.
Apply(r) ==
    /\ Goto(r, "open", "past")
    /\ Effect(r)
    /\ asked[r].kind = "delete" => listed' # listed

\* A clear goes on and answers "ok" although it removed nothing.
Skip(r) == Goto(r, "open", "past") /\ asked[r].kind = "clear" /\ NoEffect(r)

Answer(r) == Goto(r, "past", "ok") /\ UNCHANGED <<listed, seen>>

Refuse(r) == Goto(r, "open", "refused") /\ asked[r].kind = "ingest" /\ NoEffect(r)

\* What the deletion had found is gone by itself; or it has removed it, and yet says
\* that it found nothing.
Miss(r) ==
    /\ Goto(r, "open", "missing")
    /\ asked[r].kind = "delete"
    /\ Remove(r) \/ NoEffect(r)

\* An error, a lost reply or a crash, before the effect or after it.
FailBefore(r) == Goto(r, "open", "failed") /\ NoEffect(r)
FailAfter(r) == Goto(r, "past", "failed") /\ UNCHANGED <<listed, seen>>

Next ==
    \E r \in Requests :
        \/ Open(r) \/ Apply(r) \/ Skip(r) \/ Answer(r)
        \/ Refuse(r) \/ Miss(r) \/ FailBefore(r) \/ FailAfter(r)

Spec == Init /\ [][Next]_vars
=============================================================================
