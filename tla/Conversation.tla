---------------------------- MODULE Conversation ----------------------------
(***************************************************************************)
(* Chat streams over the agent graph: the history of each thread comes     *)
(* back from its checkpoint, the nodes retrieve, grade, rewrite and        *)
(* generate run over it, the answer goes into the history and the cache;   *)
(* and users clear a thread, or all of theirs, at any moment.              *)
(*                                                                         *)
(* The pool's connections are not in autocommit mode, so everything a      *)
(* stream writes through its checkpointer is one transaction: it commits   *)
(* when the graph has ended (get_checkpointer exits) and rolls back when   *)
(* anything raises.  The state of a running stream is its own.             *)
(***************************************************************************)
EXTENDS Integers, Sequences, FiniteSets, SequencesExt

CONSTANTS
    Streams,      \* chat requests that get past sanitization and rate limit
    Clears,       \* requests that delete history
    Tenants,
    Names,        \* user names, the same in every tenant
    Threads,      \* thread ids, chosen by the clients
    Queries,      \* question texts
    MaxFailures,  \* bound: calls that raise, lost replies, cancelled streams
    None

ASSUME ActorsAssumption == Streams \cap Clears = {}
ASSUME FailuresAssumption == MaxFailures \in Nat
\* Texts of the kinds the graph tells apart.
ASSUME QueriesAssumption == Queries \subseteq {"hi", "how are you", "terms", "question", "blank"}

VARIABLES
    rewriting,    \* settings.ENABLE_QUERY_REWRITE
    tenantVer,    \* tenant_ver:<tenant>, 0 while there is no such key
    history,      \* the latest committed checkpoint of each thread, or None
    finished,     \* the order in which runs wrote their last checkpoints
    cache,        \* cache:<scope>:<query>
    pc,           \* where each stream and each clear is
    ask,          \* what a stream or a clear is about
    state,        \* AgentState of a running stream
    read,         \* streams whose messages a stream was shown
    rewritten,    \* observer: rewrites of a stream so far
    fence,        \* observer: streams older than a clear; and what each stream must not see
    failures

vars == <<rewriting, tenantVer, history, finished, cache, pc, ask, state, read, rewritten,
          fence, failures>>

Actors == Streams \cup Clears
Users == [tenant : Tenants, name : Names]

\* Mutant: the thread is known by its tenant and the client's id only.
BackendThreadNoUser(user, thread) == <<user.tenant, thread>>

\* build_backend_thread_id is injective; what follows uses the triple itself.
BackendThread(user, thread) == <<user.tenant, user.name, thread>>
BackendThreads == {BackendThread(user, thread) : user \in Users, thread \in Threads}
Message == [by : Streams, role : {"user", "assistant"}]
\* Of AgentState, what the nodes read before they write it; is_relevant is not.
AgentState == [messages : Seq(Message), query : Queries \cup {""}, rewrites : Nat,
               context : BOOLEAN, available : BOOLEAN]
\* Of a checkpoint, what the next inputs do not overwrite, and the stream that made it.
Checkpoints == [by : Streams, messages : Seq(Message), available : BOOLEAN]
Asks == [user : Users, thread : Threads \cup {None}, query : Queries \cup {None},
         version : Nat]

Ended == {"done", "failed"}
Running == {"retrieve", "grade", "rewrite", "generate", "commit"}
Labels == {"idle", "lookup", "load", "store", "delete", "bump"} \cup Running \cup Ended

TypeOK ==
    /\ rewriting \in BOOLEAN
    /\ tenantVer \in [Tenants -> Nat]
    /\ history \in [BackendThreads -> Checkpoints \cup {None}]
    /\ finished \in Seq(Streams)
    /\ \A entry \in cache : entry.by \in Streams /\ entry.saw \subseteq Streams
    /\ pc \in [Actors -> Labels]
    /\ ask \in [Actors -> Asks \cup {None}]
    /\ state \in [Streams -> AgentState \cup {None}]
    /\ read \in [Streams -> SUBSET Streams]
    /\ rewritten \in [Streams -> Nat]
    /\ fence \in [Actors -> SUBSET Streams]
    /\ failures \in 0..MaxFailures

Init ==
    /\ rewriting \in BOOLEAN
    /\ tenantVer \in [Tenants -> {0, 1}]    \* a tenant may have bumped its epoch before
    /\ history = [id \in BackendThreads |-> None]
    /\ finished = <<>>
    /\ cache = {}
    /\ pc = [a \in Actors |-> "idle"]
    /\ ask = [a \in Actors |-> None]
    /\ state = [s \in Streams |-> None]
    /\ read = [s \in Streams |-> {}]
    /\ rewritten = [s \in Streams |-> 0]
    /\ fence = [a \in Actors |-> {}]
    /\ failures = 0

Goto(a, from, to) == pc[a] = from /\ pc' = [pc EXCEPT ![a] = to]
Fail == failures < MaxFailures /\ failures' = failures + 1

ThreadOf(s) == BackendThread(ask[s].user, ask[s].thread)

\* Mutant: the conversation is not part of the key.
KeyNoThread(s) == <<ask[s].user, ask[s].version, ask[s].query>>

\* build_chat_cache_key; a user's role does not change here.
Key(s) == <<ask[s].user, ask[s].thread, ask[s].version, ask[s].query>>

-----------------------------------------------------------------------------
(* A stream up to its graph.                                               *)

\* The threads a clear is about; without a thread it is all of the user's.
Covers(c, user, thread) == ask[c].user = user /\ ask[c].thread \in {thread, None}

\* A stream that starts after an acknowledged clear must not see the streams before it.
Forbidden(user, thread) ==
    UNION {fence[c] : c \in {d \in Clears : pc[d] = "done" /\ Covers(d, user, thread)}}

\* get_tenant_cache_version: a missing key reads as the epoch that the first INCR makes.
CacheVersion(tenant) == IF tenantVer[tenant] = 0 THEN 1 ELSE tenantVer[tenant]

Begin(s, user, thread, query) ==
    /\ Goto(s, "idle", "lookup")
    /\ \E version \in {CacheVersion(user.tenant), 1} :
          /\ ask' = [ask EXCEPT ![s] = [user |-> user, thread |-> thread, query |-> query,
                                        version |-> version]]
          /\ \/ version = CacheVersion(user.tenant) /\ UNCHANGED failures
             \/ version = 1 /\ Fail    \* the epoch cannot be read and counts as 1
    /\ fence' = [fence EXCEPT ![s] = Forbidden(user, thread)]
    /\ UNCHANGED <<rewriting, tenantVer, history, finished, cache, state, read, rewritten>>

Hit(s) ==
    /\ Goto(s, "lookup", "done")
    /\ \E entry \in cache :
          entry.key = Key(s) /\ read' = [read EXCEPT ![s] = {entry.by} \cup entry.saw]
    /\ UNCHANGED <<rewriting, tenantVer, history, finished, cache, ask, state, rewritten,
                   fence, failures>>

\* No entry, or one that has expired or cannot be read.
Miss(s) ==
    /\ Goto(s, "lookup", "load")
    /\ UNCHANGED <<rewriting, tenantVer, history, finished, cache, ask, state, read,
                   rewritten, fence, failures>>

\* The checkpoint of the thread, then the inputs: a message is appended
\* (operator.add), query, context and rewrite_count are overwritten, and
\* available_documents is not.
Restored(s) ==
    LET old == history[ThreadOf(s)]
        said == IF old = None THEN <<>> ELSE old.messages
    IN  [messages |-> Append(said, [by |-> s, role |-> "user"]), query |-> ask[s].query,
         rewrites |-> 0, context |-> FALSE,
         available |-> IF old = None THEN FALSE ELSE old.available]

Checkpoint(s, new) == [by |-> s, messages |-> new.messages, available |-> new.available]

\* Mutant: each checkpoint is committed at once (autocommit).
LoadAutocommit(s) ==
    /\ Goto(s, "load", "retrieve")
    /\ state' = [state EXCEPT ![s] = Restored(s)]
    /\ history' = [history EXCEPT ![ThreadOf(s)] = Checkpoint(s, Restored(s))]
    /\ UNCHANGED <<rewriting, tenantVer, finished, cache, ask, read, rewritten, fence, failures>>

Load(s) ==
    /\ Goto(s, "load", "retrieve")
    /\ state' = [state EXCEPT ![s] = Restored(s)]
    /\ UNCHANGED <<rewriting, tenantVer, history, finished, cache, ask, read, rewritten,
                   fence, failures>>

-----------------------------------------------------------------------------
(* The nodes of the graph.                                                 *)

\* A node changes the state of its own stream only.
NodeStep(s, from, to, new) ==
    /\ Goto(s, from, to)
    /\ state' = [state EXCEPT ![s] = new]
    /\ UNCHANGED <<rewriting, tenantVer, history, cache, ask, fence, failures>>

Greetings == {"hi", "how are you"}        \* of retrieve_node and generate_node
Brief == {"hi", "terms", "blank", ""}     \* greetings of decide_to_generate, or two words

\* _extract_query: an empty override falls back to the last message, which is the
\* question of this stream.
Query(s) == IF state[s].query = "" THEN ask[s].query ELSE state[s].query

\* Mutant: a greeting leaves available_documents alone.
RetrievedKeepingDocuments(s) ==
    LET old == state[s]
    IN  IF Query(s) = "blank"
        THEN {[old EXCEPT !.context = FALSE, !.available = FALSE]}
        ELSE IF Query(s) \in Greetings
        THEN {[old EXCEPT !.query = Query(s), !.rewrites = 0, !.context = FALSE]}
        ELSE {[old EXCEPT !.query = Query(s), !.context = found, !.available = listed] :
                 found, listed \in BOOLEAN}

\* What retrieve_node returns: nothing is looked up for a blank or a greeting.
\* Otherwise the list of documents may be empty or not, and so may the context (it
\* counts from 30 characters on); rewrite_count is handed through.
Retrieved(s) ==
    LET old == state[s]
    IN  IF Query(s) = "blank"
        THEN {[old EXCEPT !.context = FALSE, !.available = FALSE]}
        ELSE IF Query(s) \in Greetings
        THEN {[old EXCEPT !.query = Query(s), !.rewrites = 0, !.context = FALSE,
                          !.available = FALSE]}
        ELSE {[messages |-> old.messages, query |-> Query(s), rewrites |-> old.rewrites,
               context |-> found, available |-> listed] : found, listed \in BOOLEAN}

Retrieve(s) ==
    /\ pc[s] = "retrieve"
    /\ \E new \in Retrieved(s) : NodeStep(s, "retrieve", "grade", new)
    /\ UNCHANGED <<finished, read, rewritten>>

\* Mutant: the edge is named as the node, which is not a key of the path map.
DecideUnmapped(now, relevant) ==
    IF ~rewriting \/ relevant \/ now.rewrites >= 1 \/ ~now.available \/ now.query \in Brief
    THEN "generate" ELSE "rewrite_query_node"

\* decide_to_generate
Decide(now, relevant) ==
    IF ~rewriting \/ relevant \/ now.rewrites >= 1 \/ ~now.available \/ now.query \in Brief
    THEN "generate" ELSE "rewrite"

\* Without context it is irrelevant; otherwise a heuristic or a model says, and its
\* failure counts as relevant.  The edge out of the node is chosen at once.
Grade(s) ==
    /\ pc[s] = "grade"
    /\ \E relevant \in IF state[s].context THEN BOOLEAN ELSE {FALSE} :
          NodeStep(s, "grade", Decide(state[s], relevant), state[s])
    /\ UNCHANGED <<finished, read, rewritten>>

\* A model rephrases the question; it may answer nothing at all.
Rewrite(s) ==
    /\ pc[s] = "rewrite"
    /\ \E query \in (Queries \ {"blank"}) \cup {""} :
          NodeStep(s, "rewrite", "retrieve",
                   [state[s] EXCEPT !.query = query, !.rewrites = @ + 1])
    /\ rewritten' = [rewritten EXCEPT ![s] = @ + 1]
    /\ UNCHANGED <<finished, read>>

\* The prompt holds the last four messages, the question included.  With the answer
\* the run makes its last checkpoint; what the next inputs overwrite is left out of it.
Generate(s) ==
    LET said == state[s].messages
        recent == SubSeq(said, IF Len(said) > 4 THEN Len(said) - 3 ELSE 1, Len(said))
    IN  /\ pc[s] = "generate"
        /\ NodeStep(s, "generate", "commit",
              [state[s] EXCEPT !.messages = Append(@, [by |-> s, role |-> "assistant"]),
                               !.query = "", !.context = FALSE, !.rewrites = 0])
        /\ read' = [read EXCEPT ![s] = {message.by : message \in ToSet(recent)}]
        /\ finished' = Append(finished, s)
        /\ UNCHANGED rewritten

-----------------------------------------------------------------------------
(* The end of a stream.                                                    *)

MadeBefore(r, s) ==
    \E i, j \in DOMAIN finished : i < j /\ finished[i] = r /\ finished[j] = s

\* Checkpoint ids are ordered by time: of two runs that overlapped, the one that
\* finished later is the thread's latest, whichever commits first.
Committed(s) ==
    LET old == history[ThreadOf(s)]
    IN  IF old # None /\ MadeBefore(s, old.by) THEN history
        ELSE [history EXCEPT ![ThreadOf(s)] = Checkpoint(s, state[s])]

\* get_checkpointer exits: everything the run wrote is committed.
Commit(s) ==
    /\ Goto(s, "commit", "store")
    /\ history' = Committed(s)
    /\ state' = [state EXCEPT ![s] = None]
    /\ UNCHANGED <<rewriting, tenantVer, finished, cache, ask, read, rewritten, fence, failures>>

Store(s) ==
    /\ Goto(s, "store", "done")
    /\ cache' = {entry \in cache : entry.key # Key(s)}
                \cup {[key |-> Key(s), by |-> s, saw |-> read[s]]}
    /\ UNCHANGED <<rewriting, tenantVer, history, finished, ask, state, read, rewritten,
                   fence, failures>>

\* The answer was empty, or could not be stored, or the client went away.
EndUnstored(s) ==
    /\ Goto(s, "store", "done")
    /\ UNCHANGED <<rewriting, tenantVer, history, finished, cache, ask, state, read, rewritten,
                   fence, failures>>

\* A call raises or the client goes away: the transaction rolls back, unless it was
\* its COMMIT whose reply got lost.
StreamFails(s) ==
    /\ pc[s] \in {"lookup", "load"} \cup Running
    /\ pc' = [pc EXCEPT ![s] = "failed"]
    /\ Fail
    /\ history' \in {history} \cup (IF pc[s] = "commit" THEN {Committed(s)} ELSE {})
    /\ state' = [state EXCEPT ![s] = None]
    /\ UNCHANGED <<rewriting, tenantVer, finished, cache, ask, read, rewritten, fence>>

-----------------------------------------------------------------------------
(* Clearing: clear_chat_thread and clear_all_chat_history.                 *)

\* Mutant: the epoch is bumped first.
AfterBumpFirst(label) ==
    CASE label = "idle" -> "bump" [] label = "bump" -> "delete" [] label = "delete" -> "done"

After(label) ==
    CASE label = "idle" -> "delete" [] label = "delete" -> "bump" [] label = "bump" -> "done"

BeginClear(c, user, thread) ==
    /\ Goto(c, "idle", After("idle"))
    /\ ask' = [ask EXCEPT ![c] = [user |-> user, thread |-> thread, query |-> None,
                                  version |-> 0]]
    /\ UNCHANGED <<rewriting, tenantVer, history, finished, cache, state, read, rewritten,
                   fence, failures>>

Covered(c) ==
    {BackendThread(ask[c].user, thread) : thread \in {th \in Threads : ask[c].thread \in {th, None}}}

\* One transaction; rows that a running stream has not committed are not seen.  When
\* no run is under way, the streams that have loaded the history are what it clears.
DeleteHistory(c) ==
    LET loaded == {s \in Streams : /\ pc[s] \in Running \cup {"store"} \cup Ended
                                   /\ ThreadOf(s) \in Covered(c)}
    IN  /\ Goto(c, "delete", After("delete"))
        /\ history' = [id \in BackendThreads |-> IF id \in Covered(c) THEN None ELSE history[id]]
        /\ fence' = [fence EXCEPT ![c] =
                        IF \E s \in loaded : pc[s] \in Running THEN {} ELSE loaded]
        /\ UNCHANGED <<rewriting, tenantVer, finished, cache, ask, state, read, rewritten, failures>>

\* A statement raises, or the connection: the transaction rolls back, or its COMMIT
\* has lost its reply.  Either is logged and the clear goes on.
DeleteHistoryFails(c) ==
    /\ Goto(c, "delete", After("delete"))
    /\ Fail
    /\ history' \in {history, [id \in BackendThreads |->
                                  IF id \in Covered(c) THEN None ELSE history[id]]}
    /\ UNCHANGED <<rewriting, tenantVer, finished, cache, ask, state, read, rewritten, fence>>

Bumped(tenant) == [tenantVer EXCEPT ![tenant] = @ + 1]

Bump(c) ==
    /\ Goto(c, "bump", After("bump"))
    /\ tenantVer' = Bumped(ask[c].user.tenant)
    /\ UNCHANGED <<rewriting, history, finished, cache, ask, state, read, rewritten, fence,
                   failures>>

\* The INCR raises, applied or not, and the clear is acknowledged all the same.
BumpFails(c) ==
    /\ Goto(c, "bump", After("bump"))
    /\ Fail
    /\ tenantVer' \in {tenantVer, Bumped(ask[c].user.tenant)}
    /\ fence' = [fence EXCEPT ![c] = {}]
    /\ UNCHANGED <<rewriting, history, finished, cache, ask, state, read, rewritten>>

-----------------------------------------------------------------------------
StreamStep(s) ==
    \/ \E user \in Users, thread \in Threads, query \in Queries : Begin(s, user, thread, query)
    \/ Hit(s) \/ Miss(s) \/ Load(s) \/ Retrieve(s) \/ Grade(s) \/ Rewrite(s) \/ Generate(s)
    \/ Commit(s) \/ Store(s) \/ EndUnstored(s) \/ StreamFails(s)

ClearStep(c) ==
    \/ \E user \in Users, thread \in Threads \cup {None} : BeginClear(c, user, thread)
    \/ DeleteHistory(c) \/ DeleteHistoryFails(c) \/ Bump(c) \/ BumpFails(c)

Next == (\E s \in Streams : StreamStep(s)) \/ (\E c \in Clears : ClearStep(c))

Spec == Init /\ [][Next]_vars

-----------------------------------------------------------------------------
(* Properties                                                              *)

\* What a stream is shown, in its prompt or as a cached answer with all that went
\* into it, comes from the same user of the same tenant in the same thread, although
\* all of them share one table of checkpoints and one cache.
OwnScopeOnly ==
    \A s \in Streams : \A q \in read[s] :
        ask[q].user = ask[s].user /\ ask[q].thread = ask[s].thread

\* A question is rewritten once at most, and a greeting or a blank never, although
\* rewrite_count is reset when the model's rewriting looks like a greeting and
\* available_documents comes back from the thread's last question.
RewriteBounded ==
    \A s \in Streams :
        /\ rewritten[s] <= 1
        /\ rewritten[s] > 0 => ask[s].query \notin Greetings \cup {"blank"}

\* The stored history of a thread consists of whole exchanges: a stream that fails or
\* is cut off leaves no question without its answer behind, whatever overlaps.
WholeExchanges ==
    \A id \in BackendThreads : history[id] # None =>
        LET said == history[id].messages
        IN  \A i \in 1..Len(said) :
                said[i].role = "user" =>
                    i < Len(said) /\ said[i + 1] = [by |-> said[i].by, role |-> "assistant"]

\* After a clear was acknowledged, later streams of the thread are shown nothing of
\* the conversations before it: never from a checkpoint, and from the cache not if they
\* read an epoch from the second on.  A tenant's first bump turns no key into epoch 1,
\* which is what no key was read as, so it leaves the cached answers reachable.  Exempt
\* is also a clear that met a run of the thread under way, or of which a call failed.
ClearedStaysCleared ==
    \A s \in Streams :
        (pc[s] # "idle" /\ (s \in ToSet(finished) \/ ask[s].version >= 2)) =>
            read[s] \cap fence[s] = {}
=============================================================================
