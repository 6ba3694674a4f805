---------------------------- MODULE TaskDelivery ----------------------------
(***************************************************************************)
(* What the upload endpoint promises of a task, whatever lists and leases  *)
(* the workers use underneath: delivery at least once.  A task waits, is   *)
(* taken out, and may be put back to be tried again; it leaves the queue   *)
(* and loses its payload only when its client was told a final status, and *)
(* "completed" is told only of documents that are stored.  Attempts may    *)
(* overlap: one that was overtaken still stores, tells and finishes, but   *)
(* it takes no waiting task out of the queue and brings none back.         *)
(***************************************************************************)
CONSTANT Tasks

VARIABLES
    place,      \* "new", "waiting", "out" of the queue at a worker, "gone"
    payload,    \* tasks whose payload is kept
    status,     \* what a client that polls is told
    reported,   \* tasks that ever had a final status
    ingested    \* tasks whose document is stored

vars == <<place, payload, status, reported, ingested>>

Init ==
    /\ place = [t \in Tasks |-> "new"]
    /\ payload = {}
    /\ status = [t \in Tasks |-> "none"]
    /\ reported = {}
    /\ ingested = {}

Goto(t, from, to) == place[t] = from /\ place' = [place EXCEPT ![t] = to]

\* A task is announced before it is in the queue.
Announce(t) ==
    /\ place[t] = "new"
    /\ status' = [status EXCEPT ![t] = "processing"]
    /\ UNCHANGED <<place, payload, reported, ingested>>

Offer(t) ==
    /\ Goto(t, "new", "waiting")
    /\ payload' = payload \cup {t}
    /\ UNCHANGED <<status, reported, ingested>>

Take(t) == Goto(t, "waiting", "out") /\ UNCHANGED <<payload, status, reported, ingested>>

\* The worker died, or is thought to be dead.
Retry(t) == Goto(t, "out", "waiting") /\ UNCHANGED <<payload, status, reported, ingested>>

Store(t) ==
    /\ place[t] # "new"
    /\ ingested' = ingested \cup {t}
    /\ UNCHANGED <<place, payload, status, reported>>

Tell(t, s) ==
    /\ place[t] # "new"
    /\ s = "completed" => t \in ingested
    /\ status' = [status EXCEPT ![t] = s]
    /\ reported' = IF s = "processing" THEN reported ELSE reported \cup {t}
    /\ UNCHANGED <<place, payload, ingested>>

\* The end of an attempt, of the latest one or of one that was overtaken.
Finish(t) ==
    /\ t \in reported
    /\ Goto(t, "out", "gone") \/ UNCHANGED place
    /\ payload' = payload \ {t}
    /\ UNCHANGED <<status, reported, ingested>>

Next ==
    \E t \in Tasks :
        \/ Announce(t) \/ Offer(t) \/ Take(t) \/ Retry(t) \/ Store(t) \/ Finish(t)
        \/ \E s \in {"processing", "completed", "failed"} : Tell(t, s)

Spec == Init /\ [][Next]_vars
=============================================================================
