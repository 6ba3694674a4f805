---------------------------- MODULE ChatRequests ----------------------------
(***************************************************************************)
(* What a chat request takes from the process it runs in: its turn at the  *)
(* rate limiter, the spans of its trace, and connections of the pool, one  *)
(* for its checkpoints and another for each list of documents.  What it    *)
(* answers is in Conversation, ChatCache and ThinkFilter.                  *)
(*                                                                         *)
(* One process; the rate counters are Redis's and outlive it.              *)
(***************************************************************************)
EXTENDS Integers, Sequences, FiniteSets, SequencesExt

CONSTANTS
    Requests,      \* chat requests
    Tenants,       \* with one user each: the subject of the rate limit
    TraceIds,      \* X-Request-ID, chosen by a client or fresh
    Asks,          \* what each request can come with, of Ask
    Limit,         \* CHAT_RATE_LIMIT_PER_MINUTE
    PoolSize,      \* max_size of the pool
    MaxTraces,     \* MAX_TRACE_HISTORY
    MaxFailures,   \* bound: calls that raise, lost replies, crashes of the process
    MaxClears,     \* bound: deletions of telemetry
    None

ASSUME SizesAssumption == PoolSize \in Nat \ {0} /\ MaxTraces \in Nat \ {0}

\* Whether the text of a request is legal is up to sanitize_prompt.
Ask == [tenant : Tenants, id : TraceIds, legal : BOOLEAN]

ASSUME AsksAssumption == Asks \in [Requests -> SUBSET Ask]
ASSUME BoundsAssumption == MaxFailures \in Nat /\ MaxClears \in Nat /\ IsFiniteSet(Requests)

VARIABLES
    counter,       \* rate:chat:<tenant>:<user>; 0 is the missing key
    expires,       \* that key has a time to live
    pc,            \* where the handler or the generator of each request is
    limiter,       \* its rate_limit_task
    listing,       \* its doc_task
    args,          \* what a request has come with, or None
    free,          \* connections in the pool
    active,        \* _active_spans: the spans of each trace id, or None
    traces,        \* _traces, newest first; of the spans, whether they are its request's
    made,          \* observer: the spans of each request that is under way
    log,           \* observer: the requests that finalized a trace, newest first
    cleared,       \* observer: those whose tenant has cleared its traces since
    failures,
    clears

vars == <<counter, expires, pc, limiter, listing, args, free, active, traces,
          made, log, cleared, failures, clears>>

limits == <<counter, expires, limiter>>
telemetry == <<active, traces, made, log, cleared>>
bounds == <<failures, clears>>

Nodes == {"retrieve", "grade", "rewrite", "generate"}
Streaming == Nodes \cup {"disconnect"}       \* with a connection for the checkpoints
Ended == {"refused", "limited", "abandoned", "done", "failed"}
Labels == {"idle", "gather", "lookup", "respond", "connect", "store"} \cup Streaming \cup Ended
Span == [by : Requests, node : Nodes]

ASSUME NoneAssumption == None \notin Seq(Span) /\ None \notin Ask

TypeOK ==
    /\ counter \in [Tenants -> Nat]
    /\ expires \in [Tenants -> BOOLEAN]
    /\ pc \in [Requests -> Labels]
    /\ limiter \in [Requests -> {"none", "incr", "expire", "over", "under"}]
    /\ listing \in [Requests -> {"none", "waiting", "connected", "listed", "failed"}]
    /\ args \in [Requests -> Ask \cup {None}]
    /\ free \in 0..PoolSize
    /\ active \in [TraceIds -> Seq(Span) \cup {None}]
    /\ \A i \in DOMAIN traces : traces[i].by \in Requests /\ traces[i].whole \in BOOLEAN
    /\ made \in [Requests -> Seq(Span)]
    /\ log \in Seq(Requests) /\ cleared \subseteq ToSet(log)
    /\ failures \in 0..MaxFailures /\ clears \in 0..MaxClears

Init ==
    /\ counter = [t \in Tenants |-> 0]
    /\ expires = [t \in Tenants |-> FALSE]
    /\ pc = [r \in Requests |-> "idle"]
    /\ limiter = [r \in Requests |-> "none"]
    /\ listing = [r \in Requests |-> "none"]
    /\ args = [r \in Requests |-> None]
    /\ free = PoolSize
    /\ active = [id \in TraceIds |-> None]
    /\ traces = <<>>
    /\ made = [r \in Requests |-> <<>>]
    /\ log = <<>>
    /\ cleared = {}
    /\ failures = 0
    /\ clears = 0

Goto(r, from, to) == pc[r] = from /\ pc' = [pc EXCEPT ![r] = to]
Limiter(r, from, to) == limiter[r] = from /\ limiter' = [limiter EXCEPT ![r] = to]
Listing(r, from, to) == listing[r] = from /\ listing' = [listing EXCEPT ![r] = to]
Fail == failures < MaxFailures /\ failures' = failures + 1

-----------------------------------------------------------------------------
(* Telemetry.                                                              *)

\* Mutant: the span replaces those before it.
RecordLast(r, node) ==
    LET span == [by |-> r, node |-> node]
        id == args[r].id
    IN  /\ made' = [made EXCEPT ![r] = Append(@, span)]
        /\ active' = IF active[id] = None THEN active ELSE [active EXCEPT ![id] = <<span>>]

\* record_span on its way out of a node: a trace that has been finalized, by another
\* request with the same id, takes no more spans.
Record(r, node) ==
    LET span == [by |-> r, node |-> node]
        id == args[r].id
    IN  /\ made' = [made EXCEPT ![r] = Append(@, span)]
        /\ active' = IF active[id] = None THEN active
                     ELSE [active EXCEPT ![id] = Append(@, span)]

\* _active_spans.pop(trace_id, []).  The spans of a trace do not change any more: it
\* keeps whether they are all of its request's and no others.
Trace(r, ended) ==
    [by |-> r, id |-> args[r].id, tenant |-> args[r].tenant,
     whole |-> (IF active[args[r].id] = None THEN <<>> ELSE active[args[r].id] \o ended)
               = made[r] \o ended]
Newest(sequence) == SubSeq(sequence, 1, IF Len(sequence) > MaxTraces THEN MaxTraces ELSE Len(sequence))

\* Mutant: the ring is full, and the newest trace is dropped.
PublishAtEnd(r, ended) ==
    traces' = Newest(Append(traces, Trace(r, ended)))

\* deque(maxlen).appendleft
Publish(r, ended) ==
    traces' = Newest(<<Trace(r, ended)>> \o traces)

\* Mutant: the spans of the trace are read, and stay.
FinalizeKeepingSpans(r, ended) ==
    /\ Publish(r, ended)
    /\ made' = [made EXCEPT ![r] = <<>>]
    /\ log' = <<r>> \o log
    /\ UNCHANGED <<active, cleared>>

\* finalize_trace, after the span that an exception has ended, if any.
Finalize(r, ended) ==
    /\ Publish(r, ended)
    /\ made' = [made EXCEPT ![r] = <<>>]
    /\ log' = <<r>> \o log
    /\ active' = [active EXCEPT ![args[r].id] = None]
    /\ UNCHANGED cleared

\* The traces without those of a tenant, in their order.
Others(t) ==
    LET kept[i \in 0..Len(traces)] ==
            IF i = 0 THEN <<>>
            ELSE IF traces[i].tenant = t THEN kept[i - 1] ELSE Append(kept[i - 1], traces[i])
    IN  kept[Len(traces)]

\* clear_traces of one tenant leaves the active spans alone; it changes nothing when
\* there is no trace of the tenant.
ClearTraces(t) ==
    /\ \E i \in DOMAIN traces : traces[i].tenant = t
    /\ clears < MaxClears /\ clears' = clears + 1
    /\ traces' = Others(t)
    /\ cleared' = cleared \cup {r \in ToSet(log) : args[r].tenant = t}
    /\ UNCHANGED <<limits, pc, listing, args, free, active, made, log, failures>>

-----------------------------------------------------------------------------
(* The rate limiter: is_rate_limit_exceeded runs as a task beside the rest *)
(* and goes on when the request has been refused for its text.             *)

Verdict(count) == IF count > Limit THEN "over" ELSE "under"

\* Mutant: the time to live is set by the request that reaches the limit.
IncrExpiringAtLimit(r) ==
    LET t == args[r].tenant
    IN  /\ limiter[r] = "incr"
        /\ counter' = [counter EXCEPT ![t] = @ + 1]
        /\ limiter' = [limiter EXCEPT
                          ![r] = IF counter[t] + 1 = Limit + 1 THEN "expire" ELSE Verdict(counter[t] + 1)]
        /\ UNCHANGED <<expires, pc, listing, args, free, telemetry, bounds>>

Incr(r) ==
    LET t == args[r].tenant
    IN  /\ limiter[r] = "incr"
        /\ counter' = [counter EXCEPT ![t] = @ + 1]
        /\ limiter' = [limiter EXCEPT
                          ![r] = IF counter[t] = 0 THEN "expire" ELSE Verdict(counter[t] + 1)]
        /\ UNCHANGED <<expires, pc, listing, args, free, telemetry, bounds>>

SetExpiry(r) ==
    /\ Limiter(r, "expire", Verdict(1))
    /\ expires' = [expires EXCEPT ![args[r].tenant] = TRUE]
    /\ UNCHANGED <<counter, pc, listing, args, free, telemetry, bounds>>

\* The call raises, before it took effect or after; REQUIRE_REDIS says what that means
\* for the request.
LimiterFails(r) ==
    LET t == args[r].tenant
    IN  /\ limiter[r] \in {"incr", "expire"}
        /\ Fail
        /\ \E verdict \in {"over", "under"} : limiter' = [limiter EXCEPT ![r] = verdict]
        /\ IF limiter[r] = "incr"
           THEN counter' \in {counter, [counter EXCEPT ![t] = @ + 1]} /\ UNCHANGED expires
           ELSE expires' \in {expires, [expires EXCEPT ![t] = TRUE]} /\ UNCHANGED counter
        /\ UNCHANGED <<pc, listing, args, free, telemetry, clears>>

\* Redis drops the key when its time is over.
WindowEnd(t) ==
    /\ counter[t] > 0 /\ expires[t]
    /\ counter' = [counter EXCEPT ![t] = 0]
    /\ expires' = [expires EXCEPT ![t] = FALSE]
    /\ UNCHANGED <<limiter, pc, listing, args, free, telemetry, bounds>>

-----------------------------------------------------------------------------
(* The handler chat_stream up to its response.                             *)

\* start_trace, also of an id that is in use.
Begin(r, ask) ==
    /\ Goto(r, "idle", "gather")
    /\ limiter' = [limiter EXCEPT ![r] = "incr"]
    /\ args' = [args EXCEPT ![r] = ask]
    /\ active' = [active EXCEPT ![ask.id] = <<>>]
    /\ UNCHANGED <<counter, expires, listing, free, traces, made, log, cleared, bounds>>

\* sanitize_prompt raises ValueError, whatever the limiter has come to.
Refuse(r) ==
    /\ Goto(r, "gather", "refused") /\ ~args[r].legal
    /\ Finalize(r, <<>>)
    /\ UNCHANGED <<limits, listing, args, free, bounds>>

\* 429; the trace is not finalized.
RateLimited(r) ==
    /\ Limiter(r, "over", "none") /\ Goto(r, "gather", "limited") /\ args[r].legal
    /\ UNCHANGED <<counter, expires, listing, args, free, telemetry, bounds>>

Admit(r) ==
    /\ Limiter(r, "under", "none") /\ Goto(r, "gather", "lookup") /\ args[r].legal
    /\ UNCHANGED <<counter, expires, listing, args, free, telemetry, bounds>>

\* The answer is in the cache.
Hit(r) ==
    /\ Goto(r, "lookup", "done")
    /\ Finalize(r, <<>>)
    /\ UNCHANGED <<limits, listing, args, free, bounds>>

Miss(r) ==
    /\ Goto(r, "lookup", "respond")
    /\ UNCHANGED <<limits, listing, args, free, telemetry, bounds>>

\* The client is gone before the first iteration of the generator, whose finally is
\* never reached.
Abandon(r) ==
    /\ Goto(r, "respond", "abandoned")
    /\ UNCHANGED <<limits, listing, args, free, telemetry, bounds>>

Start(r) ==
    /\ Goto(r, "respond", "connect")
    /\ UNCHANGED <<limits, listing, args, free, telemetry, bounds>>

-----------------------------------------------------------------------------
(* The generator and its connections.                                      *)

\* get_checkpointer
Connect(r) ==
    /\ free > 0 /\ free' = free - 1
    /\ Goto(r, "connect", "retrieve")
    /\ UNCHANGED <<limits, listing, args, telemetry, bounds>>

\* A blank or a greeting is not looked up, and its node has no span.
Greet(r) ==
    /\ listing[r] = "none" /\ Goto(r, "retrieve", "grade")
    /\ UNCHANGED <<limits, listing, args, free, telemetry, bounds>>

\* asyncio.create_task(list_tenant_documents(...))
StartListing(r) ==
    /\ pc[r] = "retrieve" /\ Listing(r, "none", "waiting")
    /\ UNCHANGED <<limits, pc, args, free, telemetry, bounds>>

\* The task goes on when its stream has failed, unless it was cancelled with it.
ListingConnects(r) ==
    /\ free > 0 /\ free' = free - 1
    /\ Listing(r, "waiting", "connected")
    /\ UNCHANGED <<limits, pc, args, telemetry, bounds>>

\* Nobody is told the result when the stream has ended.
Result(r, result) == IF pc[r] = "retrieve" THEN result ELSE "none"

Listed(r) ==
    /\ free' = free + 1
    /\ Listing(r, "connected", Result(r, "listed"))
    /\ UNCHANGED <<limits, pc, args, telemetry, bounds>>

\* Mutant: the connection is not returned when the query raises.
ListingFailsHolding(r) ==
    /\ Fail /\ UNCHANGED free
    /\ Listing(r, "connected", Result(r, "failed"))
    /\ UNCHANGED <<limits, pc, args, telemetry, clears>>

\* The query raises; the connection goes back first.
ListingFails(r) ==
    /\ Fail /\ free' = free + 1
    /\ Listing(r, "connected", Result(r, "failed"))
    /\ UNCHANGED <<limits, pc, args, telemetry, clears>>

\* Mutant: the wait for a connection has no end.
ListingWaits(r) == FALSE /\ UNCHANGED vars

\* PoolTimeout: nothing came free in time.
ListingTimesOut(r) ==
    /\ free = 0
    /\ Listing(r, "waiting", Result(r, "failed"))
    /\ UNCHANGED <<limits, pc, args, free, telemetry, bounds>>

Retrieve(r) ==
    /\ Listing(r, "listed", "none")
    /\ Goto(r, "retrieve", "grade")
    /\ Record(r, "retrieve")
    /\ UNCHANGED <<limits, args, free, traces, log, cleared, bounds>>

\* One rewrite at most; Conversation has the rest of decide_to_generate.
AfterNode(r, node) ==
    CASE node = "grade" -> {"generate"} \cup
                           (IF [by |-> r, node |-> "rewrite"] \in ToSet(made[r]) THEN {}
                            ELSE {"rewrite"})
      [] node = "rewrite" -> {"retrieve"}
      [] node = "generate" -> {"disconnect"}

Node(r) ==
    /\ pc[r] \in {"grade", "rewrite", "generate"}
    /\ \E next \in AfterNode(r, pc[r]) : pc' = [pc EXCEPT ![r] = next]
    /\ Record(r, pc[r])
    /\ UNCHANGED <<limits, listing, args, free, traces, log, cleared, bounds>>

Disconnect(r) ==
    /\ Goto(r, "disconnect", "store")
    /\ free' = free + 1
    /\ UNCHANGED <<limits, listing, args, telemetry, bounds>>

\* The finally of the generator, after the answer was cached.
End(r) ==
    /\ Goto(r, "store", "done")
    /\ Finalize(r, <<>>)
    /\ UNCHANGED <<limits, listing, args, free, bounds>>

\* The span that is open when the generator fails; retrieve opens its own after it has
\* started the listing.
OpenSpan(r) ==
    IF pc[r] \in {"grade", "rewrite", "generate"} \/ (pc[r] = "retrieve" /\ listing[r] # "none")
    THEN <<[by |-> r, node |-> pc[r]]>> ELSE <<>>

\* Mutant: a connection goes back that was never taken.
EndEarlyReturning(r, ended) ==
    /\ pc' = [pc EXCEPT ![r] = "failed"]
    /\ free' = free + 1
    /\ Finalize(r, ended)
    /\ UNCHANGED <<limits, args>>

\* The generator ends early: its connection goes back, then the trace is finalized.
EndEarly(r, ended) ==
    /\ pc' = [pc EXCEPT ![r] = "failed"]
    /\ free' = IF pc[r] \in Streaming THEN free + 1 ELSE free
    /\ Finalize(r, ended)
    /\ UNCHANGED <<limits, args>>

\* The list of documents that the node waits for has failed.
ListingFailed(r) ==
    /\ pc[r] = "retrieve" /\ Listing(r, "failed", "none")
    /\ EndEarly(r, OpenSpan(r))
    /\ UNCHANGED bounds

ConnectTimesOut(r) ==
    /\ pc[r] = "connect" /\ free = 0
    /\ EndEarly(r, OpenSpan(r))
    /\ UNCHANGED <<listing, bounds>>

\* What becomes of the listing when the stream fails.  A node cancelled at "await doc_task"
\* has cancelled the task, one that is busy with the embeddings has not; a task that has
\* a connection returns it in either case, by Listed.
ListingLeft(r) ==
    CASE listing[r] = "waiting" -> {"waiting", "none"}
      [] listing[r] = "connected" -> {"connected"}
      [] OTHER -> {"none"}

\* A call raises, or the client goes away.  When it does so between two parts of the
\* answer the generator is closed first, and the span of generate ends too late.
StreamFails(r) ==
    /\ pc[r] \in {"connect", "store"} \cup Streaming
    /\ Fail
    /\ \E ended \in {OpenSpan(r)} \cup (IF pc[r] = "generate" THEN {<<>>} ELSE {}) : EndEarly(r, ended)
    /\ \E left \in ListingLeft(r) : listing' = [listing EXCEPT ![r] = left]
    /\ UNCHANGED clears

\* The process dies with all its requests; the rate counters stay.
Crash ==
    /\ Fail
    /\ pc' = [r \in Requests |-> IF pc[r] \in {"idle"} \cup Ended THEN pc[r] ELSE "failed"]
    /\ limiter' = [r \in Requests |-> "none"]
    /\ listing' = [r \in Requests |-> "none"]
    /\ free' = PoolSize
    /\ active' = [id \in TraceIds |-> None]
    /\ traces' = <<>> /\ log' = <<>> /\ cleared' = {}
    /\ made' = [r \in Requests |-> <<>>]
    /\ UNCHANGED <<counter, expires, args, clears>>

-----------------------------------------------------------------------------
\* What the code does by itself, without a client or a failure.
Step(r) ==
    \/ Incr(r) \/ SetExpiry(r) \/ Refuse(r) \/ RateLimited(r) \/ Admit(r) \/ Hit(r) \/ Miss(r)
    \/ Start(r) \/ Connect(r) \/ ConnectTimesOut(r) \/ Greet(r) \/ StartListing(r)
    \/ ListingConnects(r) \/ Listed(r) \/ ListingTimesOut(r) \/ Retrieve(r) \/ ListingFailed(r)
    \/ Node(r) \/ Disconnect(r) \/ End(r)

Next ==
    \/ \E r \in Requests :
          \/ \E ask \in Asks[r] : Begin(r, ask)
          \/ Step(r)
          \/ Abandon(r) \/ LimiterFails(r) \/ ListingFails(r) \/ StreamFails(r)
    \/ \E t \in Tenants : ClearTraces(t) \/ WindowEnd(t)
    \/ Crash

\* The event loop runs a task that can run, and the pool's clock goes on; clients and
\* failures owe nothing.
Fairness == \A r \in Requests : WF_vars(Step(r))

Spec == Init /\ [][Next]_vars /\ Fairness

-----------------------------------------------------------------------------
(* Properties                                                              *)

\* No connection is lost or returned twice, whatever ends a stream or its listing.
ConnectionsKept ==
    free + Cardinality({r \in Requests : pc[r] \in Streaming})
         + Cardinality({r \in Requests : listing[r] = "connected"}) = PoolSize

\* A trace holds the spans of all nodes of its request that have ended, also of those
\* that failed, and nothing else, unless two requests came with the same id.
OwnSpans ==
    \A i \in DOMAIN traces :
        LET trace == traces[i]
        IN  (\A r \in Requests : args[r] # None /\ args[r].id = trace.id => r = trace.by)
            => trace.whole

\* An id keeps its spans only while a request with it is under way, or after one that
\* was turned away by the rate limit or whose client left before the stream began.
SpansReleased ==
    \A id \in TraceIds : active[id] # None =>
        \E r \in Requests : /\ args[r] # None /\ args[r].id = id
                            /\ pc[r] \notin {"refused", "done", "failed"}

\* The newest traces are there, in order, the ring is never longer than it may be, and
\* what a tenant has cleared does not come back.  A trace has its place in the log; a place
\* without a trace was cleared, or is past the newest MaxTraces and older than any trace.
RecentTraces ==
    /\ Len(traces) <= MaxTraces
    /\ \E place \in [DOMAIN traces -> DOMAIN log] :
          /\ \A i \in DOMAIN traces :
                traces[i].by = log[place[i]] /\ traces[i].by \notin cleared
          /\ \A i, j \in DOMAIN traces : i < j => place[i] < place[j]
          /\ \A n \in DOMAIN log :
                \/ log[n] \in cleared
                \/ \E i \in DOMAIN traces : place[i] = n
                \/ n > MaxTraces /\ \A i \in DOMAIN traces : place[i] < n

\* Every request comes to its end, although a stream waits for a second connection while
\* it holds its first: a request begins once, so a time comes when none is under way.
EveryRequestEnds == <>[](\A r \in Requests : pc[r] \in {"idle"} \cup Ended)

\* A counter is never left without a time to live, so that its subject would be limited
\* for ever, but by a failed call or a crash: not by a request that was refused while
\* its rate limit was being checked.
WindowsEnd ==
    \A t \in Tenants : counter[t] > 0 =>
        \/ expires[t] \/ failures > 0
        \/ \E r \in Requests : limiter[r] = "expire" /\ args[r].tenant = t
=============================================================================
