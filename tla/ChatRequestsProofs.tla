------------------------- MODULE ChatRequestsProofs -------------------------
(***************************************************************************)
(* Proofs about ChatRequests: what a chat request takes from its process   *)
(* comes back, its trace is its own, and its rate limit runs out.          *)
(***************************************************************************)
EXTENDS ChatRequests, SequenceTheorems, FiniteSetTheorems, WellFoundedInduction, TLAPS

-----------------------------------------------------------------------------
(* The inductive invariant.                                                *)

TraceRecords == [by : Requests, id : TraceIds, tenant : Tenants, whole : BOOLEAN]

\* What a request has before it began, and that it then has its arguments.
Shape ==
    /\ traces \in Seq(TraceRecords)
    /\ \A r \in Requests :
          /\ pc[r] = "idle" => /\ args[r] = None /\ limiter[r] = "none" /\ listing[r] = "none"
                               /\ made[r] = <<>>
          /\ pc[r] # "idle" => args[r] \in Ask

UnderWay == Labels \ ({"idle"} \cup Ended)

\* The active spans of a request that shares its id with nobody are those it has made.
Alike ==
    \A r \in Requests :
        /\ pc[r] \in UnderWay
        /\ \A q \in Requests : args[q] # None /\ args[q].id = args[r].id => q = r
        => active[args[r].id] = made[r]

IInv == TypeOK /\ Shape /\ Alike /\ ConnectionsKept /\ OwnSpans /\ SpansReleased /\ WindowsEnd

-----------------------------------------------------------------------------
(* What is left of the traces when those of a tenant are cleared.          *)

\* The least-number principle.
LEMMA LeastNatural ==
    ASSUME NEW T \in SUBSET Nat, T # {}
    PROVE  \E n \in T : \A m \in T : n <= m
<1> DEFINE R == {x \in Nat \X Nat : x[1] < x[2]}
<1>1. IsWellFoundedOn(R, Nat)
  BY NatLessThanWellFounded DEF OpToRel
<1> HIDE DEF R
<1>2. PICK n \in T : \A m \in T : ~(<<m, n>> \in R)
  BY <1>1, WFMin
<1>3. ASSUME NEW m \in T PROVE n <= m
  <2>1. m \in Nat /\ n \in Nat /\ <<m, n>> \in Nat \X Nat
    BY <1>2
  <2>2. ~(<<m, n>>[1] < <<m, n>>[2])
    BY <1>2, <2>1 DEF R
  <2>3. ~(m < n)
    BY <2>2
  <2>4. QED
    BY <2>1, <2>3
<1>4. QED
  BY <1>2, <1>3

Kept(t, kept, i) ==
    IF i = 0 THEN <<>>
    ELSE IF traces[i].tenant = t THEN kept[i - 1] ELSE Append(kept[i - 1], traces[i])

\* The recursive definition of Others has a solution.
LEMMA KeptExists ==
    ASSUME NEW t, NEW n \in Nat
    PROVE  \E kept : kept = [i \in 0..n |-> Kept(t, kept, i)]
<1> DEFINE T == {m \in Nat : ~ \E kept : kept = [i \in 0..m |-> Kept(t, kept, i)]}
<1>1. SUFFICES ASSUME T # {} PROVE FALSE
  OBVIOUS
<1>2. PICK m \in T : \A k \in T : m <= k
  BY <1>1, LeastNatural
<1>3. m \in Nat /\ ~ \E kept : kept = [i \in 0..m |-> Kept(t, kept, i)]
  BY <1>2
<1>4. CASE m = 0
  <2> DEFINE f == [i \in 0..0 |-> <<>>]
  <2>1. \A i \in 0..0 : Kept(t, f, i) = <<>>
    BY DEF Kept
  <2>2. f = [i \in 0..0 |-> Kept(t, f, i)]
    BY <2>1
  <2>3. QED
    BY <1>3, <1>4, <2>2
<1>5. CASE m # 0
  <2>1. m - 1 \in Nat /\ m - 1 < m
    BY <1>3, <1>5
  <2>2. m - 1 \notin T
    BY <1>2, <1>3, <2>1
  <2>3. PICK f : f = [i \in 0..(m - 1) |-> Kept(t, f, i)]
    BY <2>1, <2>2
  <2> DEFINE g == [i \in 0..m |-> IF i = m THEN Kept(t, f, m) ELSE f[i]]
  <2>4. ASSUME NEW i \in 0..m PROVE g[i] = Kept(t, g, i)
    <3>1. i \in Nat /\ i <= m
      BY <1>3
    <3>2. CASE i = 0
      <4>1. g[i] = f[i] /\ 0 \in 0..(m - 1)
        BY <1>3, <1>5, <3>2
      <4>2. f[0] = Kept(t, f, 0)
        BY <2>3, <4>1
      <4>3. QED
        BY <3>2, <4>1, <4>2 DEF Kept
    <3>3. CASE i # 0
      <4>1. i - 1 \in 0..m /\ i - 1 # m
        BY <1>3, <3>1, <3>3
      <4>2. g[i - 1] = f[i - 1]
        BY <4>1
      <4>3. Kept(t, g, i) = Kept(t, f, i)
        BY <3>3, <4>2 DEF Kept
      <4>4. CASE i = m
        BY <4>3, <4>4
      <4>5. CASE i # m
        <5>1. i \in 0..(m - 1)
          BY <1>3, <3>1, <4>5
        <5>2. f[i] = Kept(t, f, i)
          BY <2>3, <5>1
        <5>3. QED
          BY <4>3, <4>5, <5>2
      <4>6. QED
        BY <4>4, <4>5
    <3>4. QED
      BY <3>2, <3>3
  <2>5. g = [i \in 0..m |-> Kept(t, g, i)]
    BY <2>4
  <2> HIDE DEF g
  <2>6. QED
    BY <1>3, <2>5
<1>6. QED
  BY <1>4, <1>5

\* The sequence s holds the first m traces without those of t, where g takes them from.
Left(t, s, g, m) ==
    /\ g \in [1..Len(s) -> 1..m]
    /\ \A k \in 1..Len(s) : s[k] = traces[g[k]] /\ traces[g[k]].tenant # t /\ k <= g[k]
    /\ \A j, k \in 1..Len(s) : j < k => g[j] < g[k]
    /\ \A i \in 1..m : traces[i].tenant # t => \E k \in 1..Len(s) : g[k] = i

LEMMA OthersAreLeft ==
    ASSUME traces \in Seq(TraceRecords), NEW t
    PROVE  /\ Others(t) \in Seq(TraceRecords)
           /\ \E g : Left(t, Others(t), g, Len(traces))
<1> DEFINE n == Len(traces)
           f == CHOOSE kept : kept = [i \in 0..n |-> Kept(t, kept, i)]
           Good(i) == f[i] \in Seq(TraceRecords) /\ \E g : Left(t, f[i], g, i)
<1>1. n \in Nat
  BY LenProperties
<1>2. f = [i \in 0..n |-> Kept(t, f, i)]
  BY <1>1, KeptExists
<1>3. Others(t) = f[n]
  BY DEF Others, Kept
<1>a. \A i \in 1..n : traces[i] \in TraceRecords
  BY ElementOfSeq
<1> HIDE DEF f, n
<1> DEFINE T == {i \in 0..n : ~Good(i)}
<1>4. ASSUME T # {} PROVE FALSE
  <2>1. T \in SUBSET Nat
    BY <1>1
  <2>2. PICK m \in T : \A k \in T : m <= k
    BY <1>4, <2>1, LeastNatural
  <2>3. m \in 0..n /\ ~Good(m)
    BY <2>2
  <2>4. f[m] = Kept(t, f, m)
    BY <1>2, <2>3
  <2>5. CASE m = 0
    <3>1. f[0] = <<>>
      BY <2>4, <2>5 DEF Kept
    <3>2. f[0] \in Seq(TraceRecords) /\ Len(f[0]) = 0
      BY <3>1, EmptySeq
    <3>3. 1..0 = {}
      OBVIOUS
    <3>4. Left(t, f[0], [k \in 1..0 |-> 1], 0)
      BY <3>2, <3>3 DEF Left
    <3>5. QED
      BY <2>3, <2>5, <3>2, <3>4
  <2>6. CASE m # 0
    <3>1. m - 1 \in 0..n /\ ~(m <= m - 1) /\ m \in 1..n /\ m \in Nat /\ m - 1 \in Nat
      BY <1>1, <2>3, <2>6
    <3>2. Good(m - 1)
      BY <2>2, <3>1
    <3> DEFINE s == f[m - 1]
               l == Len(s)
    <3>3. PICK g : Left(t, s, g, m - 1)
      BY <3>2
    <3>4. s \in Seq(TraceRecords) /\ l \in Nat
      BY <3>2, LenProperties
    <3>5. f[m] = IF traces[m].tenant = t THEN s ELSE Append(s, traces[m])
      BY <2>4, <2>6 DEF Kept
    <3> HIDE DEF s, l
    <3>6. CASE traces[m].tenant = t
      <4>1. g \in [1..l -> 1..m]
        BY <3>1, <3>3 DEF Left, l
      <4>2. \A i \in 1..m : traces[i].tenant # t => i \in 1..(m - 1)
        BY <3>1, <3>6
      <4>3. Left(t, s, g, m)
        BY <3>3, <4>1, <4>2 DEF Left, l
      <4>4. QED
        BY <2>3, <3>4, <3>5, <3>6, <4>3
    <3>7. CASE traces[m].tenant # t
      <4> DEFINE u == Append(s, traces[m])
                 h == [k \in 1..(l + 1) |-> IF k = l + 1 THEN m ELSE g[k]]
      <4>1. /\ u \in Seq(TraceRecords) /\ Len(u) = l + 1
            /\ u[l + 1] = traces[m] /\ \A k \in 1..l : u[k] = s[k]
        BY <1>a, <3>1, <3>4, AppendProperties DEF l
      <4>2. /\ g \in [1..l -> 1..(m - 1)]
            /\ \A k \in 1..l : s[k] = traces[g[k]] /\ traces[g[k]].tenant # t /\ k <= g[k]
            /\ \A j, k \in 1..l : j < k => g[j] < g[k]
            /\ \A i \in 1..(m - 1) : traces[i].tenant # t => \E k \in 1..l : g[k] = i
        BY <3>3 DEF Left, l
      <4> HIDE DEF u
      <4>3. \A k \in 1..(l + 1) : k = l + 1 \/ k \in 1..l
        BY <3>4
      <4>4. \A k \in 1..l : k \in 1..(l + 1) /\ k # l + 1 /\ g[k] \in 1..(m - 1) /\ g[k] < m
                            /\ g[k] \in 1..m
        BY <3>1, <3>4, <4>2
      <4>5. l + 1 <= m
        <5>1. CASE l = 0
          BY <3>1, <5>1
        <5>2. CASE l # 0
          <6>1. l \in 1..l
            BY <3>4, <5>2
          <6>2. l <= g[l] /\ g[l] \in 1..(m - 1)
            BY <4>2, <6>1
          <6>3. QED
            BY <3>1, <3>4, <6>2
        <5>3. QED
          BY <5>1, <5>2
      <4>6. l + 1 \in 1..(l + 1) /\ m \in 1..m
        BY <3>1, <3>4
      <4>7. h[l + 1] = m /\ \A k \in 1..l : h[k] = g[k]
        BY <4>4, <4>6
      <4>8. h \in [1..(l + 1) -> 1..m]
        BY <4>3, <4>4, <4>6
      <4> HIDE DEF h
      <4>9. ASSUME NEW k \in 1..(l + 1)
            PROVE  u[k] = traces[h[k]] /\ traces[h[k]].tenant # t /\ k <= h[k]
        BY <3>7, <4>1, <4>2, <4>3, <4>5, <4>7
      <4>10. ASSUME NEW j \in 1..(l + 1), NEW k \in 1..(l + 1), j < k
             PROVE  h[j] < h[k]
        <5>1. j \in 1..l
          BY <3>4, <4>10
        <5>2. QED
          BY <4>2, <4>3, <4>4, <4>7, <4>10, <5>1
      <4>11. ASSUME NEW i \in 1..m, traces[i].tenant # t
             PROVE  \E k \in 1..(l + 1) : h[k] = i
        <5>1. i = m \/ i \in 1..(m - 1)
          BY <3>1
        <5>2. QED
          BY <4>2, <4>4, <4>6, <4>7, <4>11, <5>1
      <4>12. Left(t, u, h, m)
        BY <4>1, <4>8, <4>9, <4>10, <4>11 DEF Left
      <4>13. QED
        BY <2>3, <3>5, <3>7, <4>1, <4>12 DEF u
    <3>8. QED
      BY <3>6, <3>7
  <2>7. QED
    BY <2>5, <2>6
<1>5. n \in 0..n
  BY <1>1
<1>6. Good(n)
  BY <1>4, <1>5
<1>7. QED
  BY <1>3, <1>6 DEF n

\* A property of all traces is one of what is left of them.
LEMMA OthersAreTraces ==
    ASSUME traces \in Seq(TraceRecords), NEW t
    PROVE  /\ Others(t) \in Seq(TraceRecords)
           /\ \A i \in DOMAIN Others(t) : \E j \in DOMAIN traces : Others(t)[i] = traces[j]
<1>1. Others(t) \in Seq(TraceRecords) /\ \E g : Left(t, Others(t), g, Len(traces))
  BY OthersAreLeft
<1>2. DOMAIN Others(t) = 1..Len(Others(t)) /\ DOMAIN traces = 1..Len(traces)
  BY <1>1, LenProperties
<1>3. QED
  BY <1>1, <1>2 DEF Left

\* A published trace is the first one, and the others move up; the last may go.
LEMMA PublishedFirst ==
    ASSUME traces \in Seq(TraceRecords), NEW r \in Requests, NEW ended,
           args[r] \in Ask, Publish(r, ended)
    PROVE  LET l == Len(traces) + 1
           IN  /\ traces' \in Seq(TraceRecords)
               /\ Len(traces') = IF l > MaxTraces THEN MaxTraces ELSE l
               /\ \A i \in 1..Len(traces') :
                     traces'[i] = IF i = 1 THEN Trace(r, ended) ELSE traces[i - 1]
<1> DEFINE new == Trace(r, ended)
           all == <<new>> \o traces
           n == IF Len(all) > MaxTraces THEN MaxTraces ELSE Len(all)
<1>1. new \in TraceRecords
  <2> DEFINE w == (IF active[args[r].id] = None THEN <<>> ELSE active[args[r].id] \o ended)
                      = made[r] \o ended
  <2>1. w \in BOOLEAN
    OBVIOUS
  <2>2. new = [by |-> r, id |-> args[r].id, tenant |-> args[r].tenant, whole |-> w]
    BY DEF Trace
  <2> HIDE DEF w, new
  <2>3. [by |-> r, id |-> args[r].id, tenant |-> args[r].tenant, whole |-> w] \in TraceRecords
    BY <2>1 DEF Ask, TraceRecords
  <2>4. QED
    BY <2>2, <2>3
<1> HIDE DEF new
<1>2. <<new>> \in Seq(TraceRecords) /\ Len(<<new>>) = 1 /\ <<new>>[1] = new
  BY <1>1
<1>3. /\ Len(traces) \in Nat /\ DOMAIN traces = 1..Len(traces)
      /\ all \in Seq(TraceRecords) /\ Len(all) = 1 + Len(traces)
      /\ \A i \in 1..(1 + Len(traces)) : all[i] = IF i <= 1 THEN <<new>>[i] ELSE traces[i - 1]
  BY <1>2, LenProperties, ConcatProperties
<1> DEFINE old == Len(traces)
<1>4. Len(all) = old + 1 /\ \A i \in 1..Len(all) : all[i] = IF i = 1 THEN new ELSE traces[i - 1]
  <2> HIDE DEF all
  <2>1. old \in Nat /\ 1 + old = old + 1
    BY <1>3
  <2> HIDE DEF old
  <2>2. \A i \in 1..(old + 1) : i <= 1 <=> i = 1
    BY <2>1
  <2>3. QED
    BY <1>2, <1>3, <2>1, <2>2 DEF old
<1> HIDE DEF all, old
<1>5. n \in Nat /\ n <= Len(all) /\ Len(all) \in Nat
  BY <1>3, LenProperties, SizesAssumption
<1>6. traces' = SubSeq(all, 1, n)
  BY DEF Publish, Newest, new, all
<1> HIDE DEF n
<1>7. \A i \in 1..n : all[i] \in TraceRecords /\ i \in 1..Len(all)
  BY <1>3, <1>5, ElementOfSeq
<1>8. /\ SubSeq(all, 1, n) \in Seq(TraceRecords)
      /\ Len(SubSeq(all, 1, n)) = n
      /\ \A i \in 1..n : SubSeq(all, 1, n)[i] = all[i]
  <2>1. /\ SubSeq(all, 1, n) \in Seq(TraceRecords)
        /\ Len(SubSeq(all, 1, n)) = IF 1 <= n THEN n - 1 + 1 ELSE 0
        /\ \A i \in 1..(n - 1 + 1) : SubSeq(all, 1, n)[i] = all[1 + i - 1]
    BY <1>5, <1>7, SubSeqProperties
  <2>2. n - 1 + 1 = n /\ \A i \in 1..n : 1 + i - 1 = i
    BY <1>5
  <2>3. QED
    BY <1>5, <2>1, <2>2
<1>9. QED
  BY <1>4, <1>5, <1>6, <1>7, <1>8 DEF n, new, old

\* A property of the new trace and of those before is one of all.
LEMMA PublishedTraces ==
    ASSUME traces \in Seq(TraceRecords), NEW r \in Requests, NEW ended,
           args[r] \in Ask, Publish(r, ended)
    PROVE  /\ traces' \in Seq(TraceRecords)
           /\ \A i \in DOMAIN traces' :
                traces'[i] = Trace(r, ended) \/ \E j \in DOMAIN traces : traces'[i] = traces[j]
<1> DEFINE l == Len(traces)
           k == Len(traces')
<1>1. /\ traces' \in Seq(TraceRecords)
      /\ k = IF l + 1 > MaxTraces THEN MaxTraces ELSE l + 1
      /\ \A i \in 1..k : traces'[i] = IF i = 1 THEN Trace(r, ended) ELSE traces[i - 1]
  BY PublishedFirst
<1>2. DOMAIN traces' = 1..k /\ DOMAIN traces = 1..l /\ l \in Nat
  BY <1>1, LenProperties
<1> HIDE DEF l, k
<1>3. \A i \in 1..k : i # 1 => i - 1 \in 1..l
  BY <1>1, <1>2, SizesAssumption
<1>4. QED
  BY <1>1, <1>2, <1>3

-----------------------------------------------------------------------------
(* The steps of a request.                                                 *)

RequestStep(r) ==
    \/ \E ask \in Asks[r] : Begin(r, ask)
    \/ Step(r)
    \/ Abandon(r) \/ LimiterFails(r) \/ ListingFails(r) \/ StreamFails(r)

\* A request changes what is its own, and gets its arguments when it begins.
LEMMA RequestFrame ==
    ASSUME TypeOK, Shape, NEW r \in Requests, RequestStep(r)
    PROVE  /\ \A q \in Requests \ {r} : /\ pc'[q] = pc[q] /\ args'[q] = args[q]
                                        /\ limiter'[q] = limiter[q] /\ listing'[q] = listing[q]
                                        /\ made'[q] = made[q]
           /\ pc[r] # "idle" => args' = args /\ pc'[r] # "idle"
           /\ pc[r] = "idle" => \E ask \in Asks[r] : Begin(r, ask)
           /\ UNCHANGED clears
<1> USE DEF TypeOK, Goto, Limiter, Listing, limits, telemetry, bounds
<1>1. CASE \E ask \in Asks[r] : Begin(r, ask)
  BY <1>1 DEF Begin
<1>2. CASE Incr(r) \/ SetExpiry(r) \/ LimiterFails(r)
  BY <1>2 DEF Incr, SetExpiry, LimiterFails, Shape
<1>3. CASE RateLimited(r) \/ Admit(r) \/ Miss(r) \/ Start(r) \/ Abandon(r)
  BY <1>3 DEF RateLimited, Admit, Miss, Start, Abandon
<1>4. CASE Hit(r) \/ Refuse(r) \/ End(r)
  BY <1>4 DEF Hit, Refuse, End, Finalize
<1>5. CASE Connect(r) \/ Greet(r) \/ Disconnect(r)
  BY <1>5 DEF Connect, Greet, Disconnect
<1>6. CASE StartListing(r) \/ ListingConnects(r) \/ Listed(r) \/ ListingFails(r) \/ ListingTimesOut(r)
  BY <1>6 DEF StartListing, ListingConnects, Listed, ListingFails, ListingTimesOut, Shape
<1>7. CASE Retrieve(r) \/ Node(r)
  BY <1>7 DEF Retrieve, Node, Record, AfterNode
<1>8. CASE ListingFailed(r) \/ ConnectTimesOut(r) \/ StreamFails(r)
  BY <1>8 DEF ListingFailed, ConnectTimesOut, StreamFails, ListingLeft, EndEarly, Finalize, Streaming, Nodes
<1>9. QED
  BY <1>1, <1>2, <1>3, <1>4, <1>5, <1>6, <1>7, <1>8 DEF RequestStep, Step

\* What a step does to the trace of its request.
LEMMA TelemetryMoves ==
    ASSUME TypeOK, Shape, NEW r \in Requests, RequestStep(r)
    PROVE  \/ \E ask \in Asks[r] : Begin(r, ask)
           \/ /\ UNCHANGED telemetry
              /\ pc'[r] = pc[r] \/ (pc[r] \in UnderWay /\ pc'[r] \in UnderWay \cup {"limited", "abandoned"})
           \/ /\ pc[r] \in UnderWay /\ pc'[r] \in UnderWay /\ UNCHANGED <<traces, log, cleared>>
              /\ \E node \in Nodes : Record(r, node)
           \/ /\ pc[r] \in UnderWay /\ pc'[r] \in {"refused", "done", "failed"}
              /\ \E ended \in Seq(Span) : Finalize(r, ended)
<1> USE DEF TypeOK, Goto, Limiter, Listing, UnderWay, Labels, Streaming, Nodes, Ended
<1>1. CASE Incr(r) \/ SetExpiry(r) \/ LimiterFails(r)
  BY <1>1 DEF Incr, SetExpiry, LimiterFails
<1>2. CASE RateLimited(r) \/ Admit(r) \/ Miss(r) \/ Start(r) \/ Abandon(r)
  BY <1>2 DEF RateLimited, Admit, Miss, Start, Abandon
<1>3. CASE Hit(r) \/ Refuse(r) \/ End(r)
  <2>1. Finalize(r, <<>>) /\ pc[r] \in {"gather", "lookup", "store"} /\ pc'[r] \in {"done", "refused"}
    BY <1>3 DEF Hit, Refuse, End
  <2>2. <<>> \in Seq(Span)
    BY EmptySeq
  <2>3. QED
    BY <2>1, <2>2
<1>4. CASE Connect(r) \/ Greet(r) \/ Disconnect(r)
  BY <1>4 DEF Connect, Greet, Disconnect
<1>5. CASE StartListing(r) \/ ListingConnects(r) \/ Listed(r) \/ ListingFails(r) \/ ListingTimesOut(r)
  BY <1>5 DEF StartListing, ListingConnects, Listed, ListingFails, ListingTimesOut
<1>6. CASE Retrieve(r)
  BY <1>6 DEF Retrieve
<1>7. CASE Node(r)
  BY <1>7 DEF Node, AfterNode
<1>8. OpenSpan(r) \in Seq(Span) /\ <<>> \in Seq(Span)
  <2>1. <<>> \in Seq(Span)
    BY EmptySeq
  <2>2. ASSUME pc[r] \in Nodes PROVE <<[by |-> r, node |-> pc[r]]>> \in Seq(Span)
    <3>1. [by |-> r, node |-> pc[r]] \in Span
      BY <2>2 DEF Span
    <3>2. QED
      BY <3>1
  <2>3. QED
    BY <2>1, <2>2 DEF OpenSpan
<1>9. CASE ListingFailed(r) \/ ConnectTimesOut(r) \/ StreamFails(r)
  <2>1. \E ended \in Seq(Span) : EndEarly(r, ended)
    BY <1>8, <1>9 DEF ListingFailed, ConnectTimesOut, StreamFails, ListingLeft
  <2>2. pc[r] \in UnderWay
    BY <1>9 DEF ListingFailed, ConnectTimesOut, StreamFails, ListingLeft
  <2>3. QED
    BY <2>1, <2>2 DEF EndEarly
<1>10. QED
  BY <1>1, <1>2, <1>3, <1>4, <1>5, <1>6, <1>7, <1>9 DEF RequestStep, Step

\* Arguments do not change once they are there.
LEMMA ArgsStay ==
    ASSUME TypeOK, Shape, NEW r \in Requests, RequestStep(r), NEW q \in Requests, args[q] # None
    PROVE  args'[q] = args[q]
<1>1. CASE q # r
  BY <1>1, RequestFrame
<1>2. CASE q = r
  <2>1. pc[r] # "idle"
    BY <1>2 DEF Shape
  <2>2. QED
    BY <1>2, <2>1, RequestFrame
<1>3. QED
  BY <1>1, <1>2

\* The connections that a step of a request takes or gives back.
LEMMA PoolMoves ==
    ASSUME TypeOK, NEW r \in Requests, RequestStep(r)
    PROVE  \/ /\ free' = free
              /\ pc[r] \in Streaming <=> pc'[r] \in Streaming
              /\ listing[r] = "connected" <=> listing'[r] = "connected"
           \/ /\ free > 0 /\ free' = free - 1
              /\ pc[r] \notin Streaming /\ pc'[r] \in Streaming
              /\ listing[r] = "connected" <=> listing'[r] = "connected"
           \/ /\ free > 0 /\ free' = free - 1
              /\ pc[r] \in Streaming <=> pc'[r] \in Streaming
              /\ listing[r] # "connected" /\ listing'[r] = "connected"
           \/ /\ free' = free + 1
              /\ pc[r] \in Streaming /\ pc'[r] \notin Streaming
              /\ listing[r] = "connected" <=> listing'[r] = "connected"
           \/ /\ free' = free + 1
              /\ pc[r] \in Streaming <=> pc'[r] \in Streaming
              /\ listing[r] = "connected" /\ listing'[r] # "connected"
<1> USE DEF TypeOK, Goto, Limiter, Listing, Streaming, Nodes
<1>1. CASE \E ask \in Asks[r] : Begin(r, ask)
  BY <1>1 DEF Begin
<1>2. CASE Incr(r) \/ SetExpiry(r) \/ LimiterFails(r)
  BY <1>2 DEF Incr, SetExpiry, LimiterFails
<1>3. CASE RateLimited(r) \/ Admit(r) \/ Miss(r) \/ Start(r) \/ Abandon(r)
  BY <1>3 DEF RateLimited, Admit, Miss, Start, Abandon
<1>4. CASE Hit(r) \/ Refuse(r) \/ End(r)
  BY <1>4 DEF Hit, Refuse, End
<1>5. CASE Connect(r) \/ Greet(r) \/ Disconnect(r)
  BY <1>5 DEF Connect, Greet, Disconnect
<1>6. CASE StartListing(r) \/ ListingConnects(r) \/ ListingTimesOut(r)
  BY <1>6 DEF StartListing, ListingConnects, ListingTimesOut, Result
<1>7. CASE Listed(r) \/ ListingFails(r)
  BY <1>7 DEF Listed, ListingFails, Result
<1>8. CASE Retrieve(r) \/ Node(r)
  BY <1>8 DEF Retrieve, Node, AfterNode
<1>9. CASE ListingFailed(r) \/ ConnectTimesOut(r)
  BY <1>9 DEF ListingFailed, ConnectTimesOut, EndEarly
<1>10. CASE StreamFails(r)
  BY <1>10 DEF StreamFails, ListingLeft, EndEarly
<1>11. QED
  BY <1>1, <1>2, <1>3, <1>4, <1>5, <1>6, <1>7, <1>8, <1>9, <1>10 DEF RequestStep, Step

\* What a step of a request does to its rate limit.
LEMMA LimiterMoves ==
    ASSUME TypeOK, Shape, NEW r \in Requests, RequestStep(r)
    PROVE  \/ failures' = failures + 1 /\ UNCHANGED <<counter, expires>>
           \/ LimiterFails(r) /\ failures' = failures + 1
           \/ Incr(r) /\ UNCHANGED failures
           \/ SetExpiry(r) /\ UNCHANGED failures
           \/ /\ UNCHANGED <<counter, expires, failures>>
              /\ limiter[r] # "expire" \/ limiter' = limiter
<1> USE DEF Limiter, limits, telemetry, bounds
<1>1. CASE \E ask \in Asks[r] : Begin(r, ask)
  BY <1>1 DEF Begin, Goto, Shape
<1>2. CASE Incr(r) \/ SetExpiry(r) \/ LimiterFails(r)
  BY <1>2 DEF Incr, SetExpiry, LimiterFails, Fail
<1>3. CASE RateLimited(r) \/ Admit(r) \/ Miss(r) \/ Start(r) \/ Abandon(r)
  BY <1>3 DEF RateLimited, Admit, Miss, Start, Abandon
<1>4. CASE Hit(r) \/ Refuse(r) \/ End(r)
  BY <1>4 DEF Hit, Refuse, End
<1>5. CASE Connect(r) \/ Greet(r) \/ Disconnect(r)
  BY <1>5 DEF Connect, Greet, Disconnect
<1>6. CASE StartListing(r) \/ ListingConnects(r) \/ ListingTimesOut(r)
  BY <1>6 DEF StartListing, ListingConnects, ListingTimesOut
<1>7. CASE Listed(r) \/ ListingFails(r)
  BY <1>7 DEF Listed, ListingFails, Fail
<1>8. CASE Retrieve(r) \/ Node(r)
  BY <1>8 DEF Retrieve, Node
<1>9. CASE ListingFailed(r) \/ ConnectTimesOut(r)
  BY <1>9 DEF ListingFailed, ConnectTimesOut, EndEarly
<1>10. CASE StreamFails(r)
  BY <1>10 DEF StreamFails, ListingLeft, EndEarly, Fail
<1>11. QED
  BY <1>1, <1>2, <1>3, <1>4, <1>5, <1>6, <1>7, <1>8, <1>9, <1>10 DEF RequestStep, Step

-----------------------------------------------------------------------------
(* A step of a request keeps the invariant.                                *)

LEMMA StepControlTypes ==
    ASSUME TypeOK, Shape, NEW r \in Requests, RequestStep(r)
    PROVE  /\ pc' \in [Requests -> Labels]
           /\ limiter' \in [Requests -> {"none", "incr", "expire", "over", "under"}]
           /\ listing' \in [Requests -> {"none", "waiting", "connected", "listed", "failed"}]
           /\ args' \in [Requests -> Ask \cup {None}]
<1> USE DEF TypeOK, Goto, Limiter, Listing, limits, telemetry, bounds, Labels, Streaming, Nodes, Ended
<1>1. CASE \E ask \in Asks[r] : Begin(r, ask)
  <2>1. PICK ask \in Asks[r] : Begin(r, ask)
    BY <1>1
  <2>2. ask \in Ask
    BY <2>1, AsksAssumption
  <2>3. QED
    BY <2>1, <2>2 DEF Begin
<1>2. CASE Incr(r) \/ SetExpiry(r) \/ LimiterFails(r)
  BY <1>2 DEF Incr, SetExpiry, LimiterFails, Verdict
<1>3. CASE RateLimited(r) \/ Admit(r) \/ Miss(r) \/ Start(r) \/ Abandon(r)
  BY <1>3 DEF RateLimited, Admit, Miss, Start, Abandon
<1>4. CASE Hit(r) \/ Refuse(r) \/ End(r)
  BY <1>4 DEF Hit, Refuse, End
<1>5. CASE Connect(r) \/ Greet(r) \/ Disconnect(r)
  BY <1>5 DEF Connect, Greet, Disconnect
<1>6. CASE StartListing(r) \/ ListingConnects(r) \/ ListingTimesOut(r)
  BY <1>6 DEF StartListing, ListingConnects, ListingTimesOut, Result
<1>7. CASE Listed(r) \/ ListingFails(r)
  BY <1>7 DEF Listed, ListingFails, Result
<1>8. CASE Retrieve(r) \/ Node(r)
  BY <1>8, ZenonT(60) DEF Retrieve, Node, AfterNode
<1>9. CASE ListingFailed(r) \/ ConnectTimesOut(r)
  BY <1>9 DEF ListingFailed, ConnectTimesOut, EndEarly
<1>10. CASE StreamFails(r)
  BY <1>10 DEF StreamFails, ListingLeft, EndEarly
<1>11. QED
  BY <1>1, <1>2, <1>3, <1>4, <1>5, <1>6, <1>7, <1>8, <1>9, <1>10 DEF RequestStep, Step

LEMMA StepLimiterTypes ==
    ASSUME TypeOK, Shape, NEW r \in Requests, RequestStep(r)
    PROVE  /\ counter' \in [Tenants -> Nat]
           /\ expires' \in [Tenants -> BOOLEAN]
           /\ failures' \in 0..MaxFailures
<1>1. failures' = failures \/ (failures < MaxFailures /\ failures' = failures + 1)
  <2>1. failures < MaxFailures \/ failures' = failures
    BY DEF RequestStep, Step, Begin, Incr, SetExpiry, LimiterFails, RateLimited, Admit, Miss,
           Start, Abandon, Hit, Refuse, End, Connect, Greet, Disconnect, StartListing, ListingConnects,
           ListingTimesOut, Listed, ListingFails, Retrieve, Node, ListingFailed, ConnectTimesOut,
           StreamFails, ListingLeft, Fail, bounds
  <2>2. QED
    BY <2>1, LimiterMoves
<1>2. failures' \in 0..MaxFailures
  BY <1>1, BoundsAssumption DEF TypeOK
<1>3. \A t \in Tenants : [counter EXCEPT ![t] = @ + 1] \in [Tenants -> Nat]
  BY DEF TypeOK
<1>4. \A t \in Tenants : [expires EXCEPT ![t] = TRUE] \in [Tenants -> BOOLEAN]
  BY DEF TypeOK
<1>5. limiter[r] # "none" => args[r].tenant \in Tenants
  BY DEF Ask, Shape, TypeOK
<1>6. CASE LimiterFails(r)
  BY <1>2, <1>3, <1>4, <1>5, <1>6, ZenonT(60) DEF LimiterFails, TypeOK
<1>7. CASE Incr(r)
  BY <1>2, <1>3, <1>5, <1>7 DEF Incr, TypeOK
<1>8. CASE SetExpiry(r)
  BY <1>2, <1>4, <1>5, <1>8 DEF SetExpiry, Limiter, TypeOK
<1>9. QED
  BY <1>2, <1>6, <1>7, <1>8, LimiterMoves DEF TypeOK

\* The requests of a set, when one of them may have come or gone.
LEMMA OneComesOrGoes ==
    ASSUME NEW A \in SUBSET Requests, NEW B \in SUBSET Requests, NEW r \in Requests,
           \A q \in Requests \ {r} : q \in A <=> q \in B
    PROVE  /\ Cardinality(A) \in Nat /\ Cardinality(B) \in Nat
           /\ (r \in A <=> r \in B) => Cardinality(B) = Cardinality(A)
           /\ (r \notin A /\ r \in B) => Cardinality(B) = Cardinality(A) + 1
           /\ (r \in A /\ r \notin B) => Cardinality(A) = Cardinality(B) + 1
<1>1. IsFiniteSet(A) /\ IsFiniteSet(B)
  BY BoundsAssumption, FS_Subset
<1>2. Cardinality(A) \in Nat /\ Cardinality(B) \in Nat
  BY <1>1, FS_CardinalityType
<1>3. ASSUME r \in A <=> r \in B PROVE Cardinality(B) = Cardinality(A)
  <2>1. A = B
    BY <1>3
  <2>2. QED
    BY <2>1
<1>4. ASSUME r \notin A, r \in B PROVE Cardinality(B) = Cardinality(A) + 1
  <2>1. B = A \cup {r}
    BY <1>4
  <2>2. QED
    BY <1>1, <1>4, <2>1, FS_AddElement
<1>5. ASSUME r \in A, r \notin B PROVE Cardinality(A) = Cardinality(B) + 1
  <2>1. A = B \cup {r}
    BY <1>5
  <2>2. QED
    BY <1>1, <1>5, <2>1, FS_AddElement
<1>6. QED
  BY <1>2, <1>3, <1>4, <1>5

LEMMA StepConnections ==
    ASSUME TypeOK, Shape, ConnectionsKept, NEW r \in Requests, RequestStep(r)
    PROVE  ConnectionsKept' /\ free' \in 0..PoolSize
<1> DEFINE S == {q \in Requests : pc[q] \in Streaming}
           T == {q \in Requests : pc'[q] \in Streaming}
           L == {q \in Requests : listing[q] = "connected"}
           M == {q \in Requests : listing'[q] = "connected"}
           s == Cardinality(S)
           t == Cardinality(T)
           l == Cardinality(L)
           m == Cardinality(M)
<1>1. \A q \in Requests \ {r} : pc'[q] = pc[q] /\ listing'[q] = listing[q]
  BY RequestFrame
<1>2. /\ s \in Nat /\ t \in Nat
      /\ (r \in S <=> r \in T) => t = s
      /\ (r \notin S /\ r \in T) => t = s + 1
      /\ (r \in S /\ r \notin T) => s = t + 1
  <2>1. S \in SUBSET Requests /\ T \in SUBSET Requests /\ \A q \in Requests \ {r} : q \in S <=> q \in T
    BY <1>1
  <2> HIDE DEF S, T
  <2>2. QED
    BY <2>1, OneComesOrGoes
<1>3. /\ l \in Nat /\ m \in Nat
      /\ (r \in L <=> r \in M) => m = l
      /\ (r \notin L /\ r \in M) => m = l + 1
      /\ (r \in L /\ r \notin M) => l = m + 1
  <2>1. L \in SUBSET Requests /\ M \in SUBSET Requests /\ \A q \in Requests \ {r} : q \in L <=> q \in M
    BY <1>1
  <2> HIDE DEF L, M
  <2>2. QED
    BY <2>1, OneComesOrGoes
<1>4. \/ free' = free /\ (r \in S <=> r \in T) /\ (r \in L <=> r \in M)
      \/ free > 0 /\ free' = free - 1 /\ r \notin S /\ r \in T /\ (r \in L <=> r \in M)
      \/ free > 0 /\ free' = free - 1 /\ (r \in S <=> r \in T) /\ r \notin L /\ r \in M
      \/ free' = free + 1 /\ r \in S /\ r \notin T /\ (r \in L <=> r \in M)
      \/ free' = free + 1 /\ (r \in S <=> r \in T) /\ r \in L /\ r \notin M
  BY PoolMoves
<1>5. free \in 0..PoolSize /\ PoolSize \in Nat
  BY SizesAssumption DEF TypeOK
<1>6. free + s + l = PoolSize
  BY DEF ConnectionsKept
<1>7. ConnectionsKept' <=> free' + t + m = PoolSize
  BY DEF ConnectionsKept
<1> HIDE DEF S, T, L, M, s, t, l, m
<1>8. free' + t + m = PoolSize /\ free' \in Int /\ free' >= 0
  BY <1>2, <1>3, <1>4, <1>5, <1>6
<1>9. free' <= PoolSize
  <2> DEFINE f == free'
  <2>1. t \in Nat /\ m \in Nat /\ f \in Int /\ f + t + m = PoolSize
    BY <1>2, <1>3, <1>8
  <2> HIDE DEF f
  <2>2. f <= PoolSize
    BY <1>5, <2>1
  <2>3. QED
    BY <2>2 DEF f
<1>10. QED
  BY <1>5, <1>7, <1>8, <1>9

\* The spans of the requests and the active spans stay sequences of spans.
LEMMA StepTelemetryTypes ==
    ASSUME TypeOK, Shape, NEW r \in Requests, RequestStep(r)
    PROVE  /\ active' \in [TraceIds -> Seq(Span) \cup {None}]
           /\ made' \in [Requests -> Seq(Span)]
           /\ log' \in Seq(Requests) /\ cleared' \subseteq ToSet(log')
           /\ traces' \in Seq(TraceRecords)
<1>1. traces \in Seq(TraceRecords) /\ active \in [TraceIds -> Seq(Span) \cup {None}]
      /\ made \in [Requests -> Seq(Span)] /\ log \in Seq(Requests) /\ cleared \subseteq ToSet(log)
  BY DEF TypeOK, Shape
<1>2. CASE \E ask \in Asks[r] : Begin(r, ask)
  <2>1. PICK ask \in Asks[r] : Begin(r, ask)
    BY <1>2
  <2>2. <<>> \in Seq(Span)
    BY EmptySeq
  <2>3. QED
    BY <1>1, <2>1, <2>2 DEF Begin
<1>3. CASE UNCHANGED telemetry
  BY <1>1, <1>3 DEF telemetry
<1>4. CASE UNCHANGED <<traces, log, cleared>> /\ \E node \in Nodes : Record(r, node)
  <2>1. PICK node \in Nodes : Record(r, node)
    BY <1>4
  <2> DEFINE span == [by |-> r, node |-> node]
             id == args[r].id
  <2>2. span \in Span
    BY DEF Span
  <2>3. made' = [made EXCEPT ![r] = Append(@, span)]
        /\ active' = IF active[id] = None THEN active ELSE [active EXCEPT ![id] = Append(@, span)]
    BY <2>1 DEF Record
  <2> HIDE DEF span, id
  <2>4. \A s \in Seq(Span) : Append(s, span) \in Seq(Span)
    BY <2>2, AppendProperties
  <2>5. made' \in [Requests -> Seq(Span)]
    BY <1>1, <2>3, <2>4
  <2>6. active' \in [TraceIds -> Seq(Span) \cup {None}]
    BY <1>1, <2>3, <2>4
  <2>7. QED
    BY <1>1, <1>4, <2>5, <2>6
<1>5. CASE pc[r] \in UnderWay /\ \E ended \in Seq(Span) : Finalize(r, ended)
  <2>1. PICK ended \in Seq(Span) : Finalize(r, ended)
    BY <1>5
  <2>2. args[r] \in Ask
    BY <1>5 DEF Shape, UnderWay
  <2>3. traces' \in Seq(TraceRecords)
    BY <1>1, <2>1, <2>2, PublishedTraces DEF Finalize
  <2>4. <<>> \in Seq(Span)
    BY EmptySeq
  <2>5. made' \in [Requests -> Seq(Span)]
    BY <1>1, <2>1, <2>4 DEF Finalize
  <2>6. active' \in [TraceIds -> Seq(Span) \cup {None}]
    BY <1>1, <2>1, <2>2 DEF Finalize
  <2>7. log' = <<r>> \o log /\ cleared' = cleared
    BY <2>1 DEF Finalize
  <2>8. <<r>> \in Seq(Requests) /\ Len(<<r>>) = 1
    OBVIOUS
  <2>9. log' \in Seq(Requests) /\ Len(log') = 1 + Len(log)
        /\ \A i \in 1..(1 + Len(log)) : log'[i] = IF i <= 1 THEN <<r>>[i] ELSE log[i - 1]
    BY <1>1, <2>7, <2>8, ConcatProperties
  <2>10. ASSUME NEW q \in ToSet(log) PROVE q \in ToSet(log')
    <3>1. PICK i \in DOMAIN log : log[i] = q
      BY DEF ToSet
    <3>2. i \in 1..Len(log) /\ Len(log) \in Nat
      BY <1>1, <3>1, LenProperties
    <3> DEFINE n == Len(log)
    <3>3. i + 1 \in 1..(1 + n) /\ ~(i + 1 <= 1) /\ (i + 1) - 1 = i
      <4>1. i \in 1..n /\ n \in Nat
        BY <3>2
      <4> HIDE DEF n
      <4>2. QED
        BY <4>1
    <3>4. log'[i + 1] = q
      BY <2>9, <3>1, <3>3
    <3>5. i + 1 \in DOMAIN log'
      BY <2>9, <3>3, LenProperties
    <3>6. QED
      BY <3>4, <3>5 DEF ToSet
  <2>11. QED
    BY <1>1, <2>3, <2>5, <2>6, <2>7, <2>9, <2>10
<1>6. QED
  BY <1>2, <1>3, <1>4, <1>5, TelemetryMoves

LEMMA StepTypeOK ==
    ASSUME TypeOK, Shape, ConnectionsKept, NEW r \in Requests, RequestStep(r)
    PROVE  TypeOK'
<1>1. \A i \in DOMAIN traces' : traces'[i].by \in Requests /\ traces'[i].whole \in BOOLEAN
  <2>1. traces' \in Seq(TraceRecords)
    BY StepTelemetryTypes
  <2>2. \A i \in DOMAIN traces' : traces'[i] \in TraceRecords
    BY <2>1, LenProperties, ElementOfSeq
  <2>3. QED
    BY <2>2 DEF TraceRecords
<1>2. clears' \in 0..MaxClears
  BY RequestFrame DEF TypeOK
<1>3. QED
  BY <1>1, <1>2, StepControlTypes, StepLimiterTypes, StepConnections, StepTelemetryTypes DEF TypeOK

LEMMA StepShape ==
    ASSUME TypeOK, Shape, NEW r \in Requests, RequestStep(r)
    PROVE  Shape'
<1>1. traces' \in Seq(TraceRecords)
  BY StepTelemetryTypes
<1>2. ASSUME NEW q \in Requests
      PROVE  /\ pc'[q] = "idle" => /\ args'[q] = None /\ limiter'[q] = "none" /\ listing'[q] = "none"
                                   /\ made'[q] = <<>>
             /\ pc'[q] # "idle" => args'[q] \in Ask
  <2>1. CASE q # r
    BY <2>1, RequestFrame DEF Shape
  <2>2. CASE q = r /\ pc[r] # "idle"
    BY <2>2, RequestFrame DEF Shape
  <2>3. CASE q = r /\ pc[r] = "idle"
    <3>1. PICK ask \in Asks[r] : Begin(r, ask)
      BY <2>3, RequestFrame
    <3>2. ask \in Ask
      BY <3>1, AsksAssumption
    <3>3. pc'[q] = "gather" /\ args'[q] = ask
      BY <2>3, <3>1 DEF Begin, Goto, TypeOK
    <3>4. QED
      BY <3>2, <3>3
  <2>4. QED
    BY <2>1, <2>2, <2>3
<1>3. QED
  BY <1>1, <1>2 DEF Shape

\* Requests that come with one id are never told apart again.
LEMMA StillAlone ==
    ASSUME TypeOK, Shape, NEW r \in Requests, RequestStep(r), NEW id, NEW by,
           \A q \in Requests : args'[q] # None /\ args'[q].id = id => q = by
    PROVE  \A q \in Requests : args[q] # None /\ args[q].id = id => q = by
BY ArgsStay

LEMMA StepAlike ==
    ASSUME TypeOK, Shape, Alike, NEW r \in Requests, RequestStep(r)
    PROVE  Alike'
<1> SUFFICES ASSUME NEW q \in Requests, pc'[q] \in UnderWay,
                    \A p \in Requests : args'[p] # None /\ args'[p].id = args'[q].id => p = q
             PROVE  active'[args'[q].id] = made'[q]
  BY DEF Alike, UnderWay, Labels, Streaming, Ended, Nodes
<1>1. \A p \in Requests : pc[p] # "idle" =>
         args[p] \in Ask /\ args[p] # None
  BY NoneAssumption DEF Shape
<1>2. ASSUME pc[q] \in UnderWay
      PROVE  args'[q] = args[q] /\ active[args[q].id] = made[q]
  <2>1. args'[q] = args[q]
    BY <1>1, <1>2, ArgsStay DEF UnderWay
  <2>2. \A p \in Requests : args[p] # None /\ args[p].id = args[q].id => p = q
    <3> DEFINE id == args[q].id
    <3>1. \A p \in Requests : args'[p] # None /\ args'[p].id = id => p = q
      BY <2>1
    <3> HIDE DEF id
    <3>2. \A p \in Requests : args[p] # None /\ args[p].id = id => p = q
      BY <3>1, StillAlone
    <3>3. QED
      BY <3>2 DEF id
  <2>3. QED
    BY <1>2, <2>1, <2>2 DEF Alike
<1>3. CASE \E ask \in Asks[r] : Begin(r, ask)
  <2>1. PICK ask \in Asks[r] : Begin(r, ask)
    BY <1>3
  <2>2. ask \in Ask /\ ask # None
    BY <2>1, AsksAssumption, NoneAssumption
  <2>3. /\ pc[r] = "idle" /\ args'[r] = ask /\ made' = made
        /\ active' = [active EXCEPT ![ask.id] = <<>>]
    BY <2>1 DEF Begin, Goto, TypeOK
  <2>4. CASE q = r
    BY <2>2, <2>3, <2>4 DEF Ask, Shape, TypeOK
  <2>5. CASE q # r
    <3>1. pc[q] \in UnderWay
      BY <2>5, RequestFrame
    <3>2. args'[q].id # ask.id
      BY <2>2, <2>3, <2>5
    <3>3. args[q].id \in TraceIds
      BY <1>1, <3>1 DEF Ask, UnderWay
    <3>4. QED
      BY <1>2, <2>3, <3>1, <3>2, <3>3 DEF TypeOK
  <2>6. QED
    BY <2>4, <2>5
<1>4. CASE /\ UNCHANGED telemetry
           /\ pc'[r] = pc[r] \/ (pc[r] \in UnderWay /\ pc'[r] \in UnderWay \cup {"limited", "abandoned"})
  <2>1. pc[q] \in UnderWay
    BY <1>4, RequestFrame
  <2>2. QED
    BY <1>2, <1>4, <2>1 DEF telemetry
<1>5. CASE /\ pc[r] \in UnderWay /\ pc'[r] \in UnderWay /\ UNCHANGED <<traces, log, cleared>>
           /\ \E node \in Nodes : Record(r, node)
  <2>1. PICK node \in Nodes : Record(r, node)
    BY <1>5
  <2> DEFINE span == [by |-> r, node |-> node]
             id == args[r].id
  <2>2. /\ made' = [made EXCEPT ![r] = Append(@, span)]
        /\ active' = IF active[id] = None THEN active ELSE [active EXCEPT ![id] = Append(@, span)]
    BY <2>1 DEF Record
  <2>3. id \in TraceIds /\ args[r] # None
    BY <1>1, <1>5 DEF Ask, UnderWay
  <2>4. pc[q] \in UnderWay
    BY <1>5, RequestFrame
  <2>5. args[q].id \in TraceIds
    BY <1>1, <2>4 DEF Ask, UnderWay
  <2> HIDE DEF span
  <2>6. CASE q = r
    <3>1. active[id] = made[r] /\ made[r] # None
      BY <1>2, <2>4, <2>6, NoneAssumption DEF TypeOK
    <3>2. active'[id] = Append(made[r], span) /\ made'[r] = Append(made[r], span)
      BY <2>2, <2>3, <3>1 DEF TypeOK
    <3>3. QED
      BY <1>2, <2>4, <2>6, <3>2
  <2>7. CASE q # r
    <3>1. args'[r] = args[r]
      BY <2>3, ArgsStay
    <3>2. args[q].id # id
      BY <1>2, <2>3, <2>4, <2>7, <3>1
    <3>3. active'[args[q].id] = active[args[q].id] /\ made'[q] = made[q]
      BY <2>2, <2>3, <2>5, <2>7, <3>2 DEF TypeOK
    <3>4. QED
      BY <1>2, <2>4, <3>3
  <2>8. QED
    BY <2>6, <2>7
<1>6. CASE /\ pc[r] \in UnderWay /\ pc'[r] \in {"refused", "done", "failed"}
           /\ \E ended \in Seq(Span) : Finalize(r, ended)
  <2>1. q # r
    BY <1>6 DEF UnderWay, Ended
  <2>2. pc[q] \in UnderWay
    BY <2>1, RequestFrame
  <2>3. args[r] # None /\ args'[r] = args[r] /\ args[r].id \in TraceIds /\ args[q].id \in TraceIds
    BY <1>1, <1>6, <2>2, ArgsStay DEF Ask, UnderWay
  <2>4. args[q].id # args[r].id
    BY <1>2, <2>1, <2>2, <2>3
  <2>5. active'[args[q].id] = active[args[q].id] /\ made'[q] = made[q]
    BY <1>6, <2>1, <2>3, <2>4 DEF Finalize, TypeOK
  <2>6. QED
    BY <1>2, <2>2, <2>5
<1>7. QED
  BY <1>3, <1>4, <1>5, <1>6, TelemetryMoves

LEMMA StepOwnSpans ==
    ASSUME TypeOK, Shape, Alike, OwnSpans, NEW r \in Requests, RequestStep(r)
    PROVE  OwnSpans'
<1> SUFFICES ASSUME NEW i \in DOMAIN traces',
                    \A q \in Requests : args'[q] # None /\ args'[q].id = traces'[i].id => q = traces'[i].by
             PROVE  traces'[i].whole
  BY DEF OwnSpans
<1>1. \A q \in Requests : args[q] # None /\ args[q].id = traces'[i].id => q = traces'[i].by
  BY StillAlone
<1>2. ASSUME NEW j \in DOMAIN traces, traces'[i] = traces[j] PROVE traces'[i].whole
  BY <1>1, <1>2 DEF OwnSpans
<1>3. CASE UNCHANGED traces
  BY <1>2, <1>3
<1>4. CASE pc[r] \in UnderWay /\ \E ended \in Seq(Span) : Finalize(r, ended)
  <2>1. PICK ended \in Seq(Span) : Finalize(r, ended)
    BY <1>4
  <2>2. args[r] \in Ask /\ traces \in Seq(TraceRecords)
    BY <1>4 DEF Shape, UnderWay
  <2>3. traces'[i] = Trace(r, ended) \/ \E j \in DOMAIN traces : traces'[i] = traces[j]
    BY <2>1, <2>2, PublishedTraces DEF Finalize
  <2>4. CASE traces'[i] = Trace(r, ended)
    <3>1. traces'[i].id = args[r].id /\ traces'[i].by = r
      <4>1. Trace(r, ended).id = args[r].id /\ Trace(r, ended).by = r
        BY DEF Trace
      <4>2. QED
        BY <2>4, <4>1
    <3>2. active[args[r].id] = made[r]
      BY <1>1, <1>4, <3>1 DEF Alike
    <3>3. active[args[r].id] # None
      BY <3>2, NoneAssumption DEF TypeOK
    <3> DEFINE same == (IF active[args[r].id] = None THEN <<>> ELSE active[args[r].id] \o ended)
                          = made[r] \o ended
    <3>4. same
      BY <3>2, <3>3
    <3>5. Trace(r, ended) = [by |-> r, id |-> args[r].id, tenant |-> args[r].tenant, whole |-> same]
      BY DEF Trace
    <3> HIDE DEF same
    <3>6. Trace(r, ended).whole = same
      BY <3>5
    <3>7. QED
      BY <2>4, <3>4, <3>6
  <2>5. QED
    BY <1>2, <2>3, <2>4
<1>5. QED
  BY <1>3, <1>4, TelemetryMoves DEF Begin, telemetry

LEMMA StepSpansReleased ==
    ASSUME TypeOK, Shape, SpansReleased, NEW r \in Requests, RequestStep(r)
    PROVE  SpansReleased'
<1> SUFFICES ASSUME NEW id \in TraceIds, active'[id] # None
             PROVE  \E q \in Requests : /\ args'[q] # None /\ args'[q].id = id
                                        /\ pc'[q] \notin {"refused", "done", "failed"}
  BY DEF SpansReleased
<1>1. \A p \in Requests : pc[p] # "idle" =>
         args[p] \in Ask /\ args[p] # None
  BY NoneAssumption DEF Shape
<1>2. ASSUME active[id] # None, pc[r] \in {"refused", "done", "failed"} \/ pc'[r] \notin {"refused", "done", "failed"}
      PROVE  \E q \in Requests : /\ args'[q] # None /\ args'[q].id = id
                                 /\ pc'[q] \notin {"refused", "done", "failed"}
  <2>1. PICK q \in Requests : /\ args[q] # None /\ args[q].id = id
                              /\ pc[q] \notin {"refused", "done", "failed"}
    BY <1>2 DEF SpansReleased
  <2>2. args'[q] = args[q]
    BY <2>1, ArgsStay
  <2>3. pc'[q] \notin {"refused", "done", "failed"}
    BY <1>2, <2>1, RequestFrame
  <2>4. QED
    BY <2>1, <2>2, <2>3
<1>3. CASE \E ask \in Asks[r] : Begin(r, ask)
  <2>1. PICK ask \in Asks[r] : Begin(r, ask)
    BY <1>3
  <2>2. ask \in Ask /\ ask # None
    BY <2>1, AsksAssumption, NoneAssumption
  <2>3. /\ args'[r] = ask /\ pc'[r] = "gather"
        /\ active' = [active EXCEPT ![ask.id] = <<>>]
    BY <2>1 DEF Begin, Goto, TypeOK
  <2>4. CASE id = ask.id
    BY <2>2, <2>3, <2>4
  <2>5. CASE id # ask.id
    <3>1. active[id] # None
      BY <2>2, <2>3, <2>5 DEF TypeOK
    <3>2. QED
      BY <1>2, <2>3, <3>1
  <2>6. QED
    BY <2>4, <2>5
<1>4. CASE /\ UNCHANGED telemetry
           /\ pc'[r] = pc[r] \/ (pc[r] \in UnderWay /\ pc'[r] \in UnderWay \cup {"limited", "abandoned"})
  BY <1>2, <1>4 DEF telemetry, UnderWay, Ended
<1>5. CASE /\ pc[r] \in UnderWay /\ pc'[r] \in UnderWay /\ UNCHANGED <<traces, log, cleared>>
           /\ \E node \in Nodes : Record(r, node)
  <2>1. active[id] # None
    BY <1>1, <1>5 DEF Record, UnderWay, TypeOK
  <2>2. QED
    BY <1>2, <1>5, <2>1 DEF UnderWay, Ended
<1>6. CASE /\ pc[r] \in UnderWay /\ pc'[r] \in {"refused", "done", "failed"}
           /\ \E ended \in Seq(Span) : Finalize(r, ended)
  <2>1. args[r].id \in TraceIds /\ active' = [active EXCEPT ![args[r].id] = None]
    BY <1>1, <1>6 DEF Ask, Finalize, UnderWay
  <2>2. active[id] # None /\ id # args[r].id
    BY <2>1 DEF TypeOK
  <2>3. PICK q \in Requests : /\ args[q] # None /\ args[q].id = id
                              /\ pc[q] \notin {"refused", "done", "failed"}
    BY <2>2 DEF SpansReleased
  <2>4. q # r
    BY <2>2, <2>3
  <2>5. QED
    BY <2>3, <2>4, RequestFrame
<1>7. QED
  BY <1>3, <1>4, <1>5, <1>6, TelemetryMoves

LEMMA StepWindowsEnd ==
    ASSUME TypeOK, Shape, WindowsEnd, NEW r \in Requests, RequestStep(r)
    PROVE  WindowsEnd'
<1> SUFFICES ASSUME NEW t \in Tenants, counter'[t] > 0
             PROVE  \/ expires'[t] \/ failures' > 0
                    \/ \E q \in Requests : limiter'[q] = "expire" /\ args'[q].tenant = t
  BY DEF WindowsEnd
<1>1. ASSUME failures' = failures + 1 PROVE failures' > 0
  BY <1>1 DEF TypeOK
<1>2. \A q \in Requests : limiter[q] # "none" => args[q] # None /\ args'[q] = args[q]
  BY ArgsStay, NoneAssumption DEF Shape, TypeOK
<1>3. CASE Incr(r) /\ UNCHANGED failures
  <2>1. PICK u : u = args[r].tenant
    OBVIOUS
  <2>2. /\ limiter[r] = "incr" /\ expires' = expires
        /\ counter' = [counter EXCEPT ![u] = @ + 1]
        /\ limiter' = [limiter EXCEPT ![r] = IF counter[u] = 0 THEN "expire" ELSE Verdict(counter[u] + 1)]
    BY <1>3, <2>1 DEF Incr
  <2>3. u \in Tenants /\ args'[r].tenant = u
    <3>1. args[r] \in Ask /\ args'[r] = args[r]
      BY <1>2, <2>2, NoneAssumption DEF Shape, TypeOK
    <3>2. QED
      BY <2>1, <3>1 DEF Ask
  <2>4. CASE t = u /\ counter[u] = 0
    BY <2>2, <2>3, <2>4 DEF TypeOK
  <2>5. CASE ~(t = u /\ counter[u] = 0)
    <3>1. counter[t] > 0
      BY <2>2, <2>3, <2>5 DEF TypeOK
    <3>2. CASE expires[t] \/ failures > 0
      BY <1>3, <2>2, <3>2
    <3>3. CASE \E q \in Requests : limiter[q] = "expire" /\ args[q].tenant = t
      <4>1. PICK q \in Requests : limiter[q] = "expire" /\ args[q].tenant = t
        BY <3>3
      <4>2. q # r
        BY <2>2, <4>1
      <4>3. limiter'[q] = "expire" /\ args'[q].tenant = t
        BY <4>1, <4>2, RequestFrame
      <4>4. QED
        BY <4>3
    <3>4. QED
      BY <3>1, <3>2, <3>3 DEF WindowsEnd
  <2>6. QED
    BY <2>4, <2>5
<1>4. CASE SetExpiry(r) /\ UNCHANGED failures
  <2>1. limiter[r] = "expire" /\ counter' = counter
        /\ expires' = [expires EXCEPT ![args[r].tenant] = TRUE]
    BY <1>4 DEF SetExpiry, Limiter
  <2>2. args[r].tenant \in Tenants
    BY <1>2, <2>1, NoneAssumption DEF Ask, Shape, TypeOK
  <2>3. CASE t = args[r].tenant
    BY <2>1, <2>3 DEF TypeOK
  <2>4. CASE t # args[r].tenant
    <3>1. expires'[t] = expires[t]
      BY <2>1, <2>2, <2>4 DEF TypeOK
    <3>2. \A q \in Requests : limiter[q] = "expire" /\ args[q].tenant = t => limiter'[q] = "expire" /\ args'[q].tenant = t
      BY <1>2, <2>4, RequestFrame
    <3>3. QED
      BY <1>4, <2>1, <3>1, <3>2 DEF WindowsEnd
  <2>5. QED
    BY <2>3, <2>4
<1>5. CASE /\ UNCHANGED <<counter, expires, failures>>
           /\ limiter[r] # "expire" \/ limiter' = limiter
  <2>1. \A q \in Requests : limiter[q] = "expire" /\ args[q].tenant = t => limiter'[q] = "expire" /\ args'[q].tenant = t
    BY <1>2, <1>5, RequestFrame
  <2>2. QED
    BY <1>5, <2>1 DEF WindowsEnd
<1>6. QED
  BY <1>1, <1>3, <1>4, <1>5, LimiterMoves

LEMMA StepIInv ==
    ASSUME IInv, NEW r \in Requests, RequestStep(r)
    PROVE  IInv'
BY StepTypeOK, StepShape, StepConnections, StepAlike, StepOwnSpans, StepSpansReleased, StepWindowsEnd
   DEF IInv

-----------------------------------------------------------------------------
(* So do the steps that are nobody's.                                      *)

LEMMA ClearTracesIInv ==
    ASSUME IInv, NEW t \in Tenants, ClearTraces(t)
    PROVE  IInv'
<1> USE DEF IInv
<1>1. /\ Others(t) \in Seq(TraceRecords)
      /\ \A i \in DOMAIN Others(t) : \E j \in DOMAIN traces : Others(t)[i] = traces[j]
  BY OthersAreTraces DEF Shape
<1>2. /\ traces' = Others(t)
      /\ cleared' \subseteq ToSet(log)
      /\ clears' = clears + 1 /\ clears < MaxClears
      /\ UNCHANGED <<counter, expires, limiter, pc, listing, args, free, active, made, log, failures>>
  BY DEF ClearTraces, limits, TypeOK
<1>3. TypeOK'
  <2>1. \A i \in DOMAIN traces' : traces'[i].by \in Requests /\ traces'[i].whole \in BOOLEAN
    BY <1>1, <1>2 DEF TypeOK
  <2>2. clears' \in 0..MaxClears
    BY <1>2, BoundsAssumption DEF TypeOK
  <2>3. QED
    BY <1>2, <2>1, <2>2 DEF TypeOK
<1>4. Shape'
  BY <1>1, <1>2 DEF Shape
<1>5. Alike'
  BY <1>2 DEF Alike
<1>6. ConnectionsKept'
  BY <1>2 DEF ConnectionsKept
<1>7. OwnSpans'
  BY <1>1, <1>2 DEF OwnSpans
<1>8. SpansReleased'
  BY <1>2 DEF SpansReleased
<1>9. WindowsEnd'
  BY <1>2 DEF WindowsEnd
<1>10. QED
  BY <1>3, <1>4, <1>5, <1>6, <1>7, <1>8, <1>9

LEMMA WindowEndIInv ==
    ASSUME IInv, NEW t \in Tenants, WindowEnd(t)
    PROVE  IInv'
<1> USE DEF IInv
<1>1. /\ counter' = [counter EXCEPT ![t] = 0] /\ expires' = [expires EXCEPT ![t] = FALSE]
      /\ UNCHANGED <<limiter, pc, listing, args, free, active, traces, made, log, cleared, failures, clears>>
  BY DEF WindowEnd, telemetry, bounds
<1>2. TypeOK'
  BY <1>1 DEF TypeOK
<1>3. Shape' /\ Alike' /\ ConnectionsKept' /\ OwnSpans' /\ SpansReleased'
  BY <1>1 DEF Shape, Alike, ConnectionsKept, OwnSpans, SpansReleased
<1>4. ASSUME NEW u \in Tenants, counter'[u] > 0
      PROVE  \/ expires'[u] \/ failures' > 0
             \/ \E q \in Requests : limiter'[q] = "expire" /\ args'[q].tenant = u
  <2>1. u # t
    BY <1>1, <1>4 DEF TypeOK
  <2>2. counter[u] > 0 /\ expires'[u] = expires[u]
    BY <1>1, <1>4, <2>1 DEF TypeOK
  <2>3. QED
    BY <1>1, <2>2 DEF WindowsEnd
<1>5. WindowsEnd'
  BY <1>4 DEF WindowsEnd
<1>6. QED
  BY <1>2, <1>3, <1>5

LEMMA CrashIInv ==
    ASSUME IInv, Crash
    PROVE  IInv'
<1> USE DEF IInv
<1>1. \A r \in Requests : /\ pc'[r] \in {"idle"} \cup Ended
                          /\ pc'[r] = "idle" <=> pc[r] = "idle"
  BY DEF Crash, Ended, TypeOK
<1>2. /\ limiter' = [r \in Requests |-> "none"] /\ listing' = [r \in Requests |-> "none"]
      /\ free' = PoolSize /\ active' = [id \in TraceIds |-> None]
      /\ traces' = <<>> /\ log' = <<>> /\ cleared' = {} /\ made' = [r \in Requests |-> <<>>]
      /\ UNCHANGED <<counter, expires, args, clears>>
      /\ failures' = failures + 1 /\ failures < MaxFailures
  BY DEF Crash, Fail
<1>3. traces' \in Seq(TraceRecords) /\ log' \in Seq(Requests) /\ <<>> \in Seq(Span) /\ DOMAIN traces' = {}
  BY <1>2, EmptySeq
<1>4. failures' \in 0..MaxFailures /\ failures' > 0 /\ free' \in 0..PoolSize
  BY <1>2, BoundsAssumption, SizesAssumption DEF TypeOK
<1>5. TypeOK'
  <2>1. pc' \in [Requests -> Labels]
    BY DEF Crash, Labels, Ended, TypeOK
  <2>2. /\ made' \in [Requests -> Seq(Span)] /\ active' \in [TraceIds -> Seq(Span) \cup {None}]
        /\ cleared' \subseteq ToSet(log')
    BY <1>2, <1>3
  <2>3. limiter' \in [Requests -> {"none", "incr", "expire", "over", "under"}]
        /\ listing' \in [Requests -> {"none", "waiting", "connected", "listed", "failed"}]
    BY <1>2
  <2>4. QED
    BY <1>2, <1>3, <1>4, <2>1, <2>2, <2>3 DEF TypeOK
<1>6. Shape'
  BY <1>1, <1>2, <1>3 DEF Shape
<1>7. Alike'
  BY <1>1 DEF Alike, UnderWay
<1>8. ConnectionsKept'
  <2>1. {r \in Requests : pc'[r] \in Streaming} = {}
    BY <1>1 DEF Streaming, Nodes, Ended
  <2>2. {r \in Requests : listing'[r] = "connected"} = {}
    BY <1>2
  <2>3. Cardinality({}) = 0
    BY FS_EmptySet
  <2>4. PoolSize + 0 + 0 = PoolSize
    BY SizesAssumption
  <2>5. QED
    BY <1>2, <2>1, <2>2, <2>3, <2>4 DEF ConnectionsKept
<1>9. OwnSpans'
  BY <1>3 DEF OwnSpans
<1>10. SpansReleased'
  BY <1>2 DEF SpansReleased
<1>11. WindowsEnd'
  BY <1>4 DEF WindowsEnd
<1>12. QED
  BY <1>5, <1>6, <1>7, <1>8, <1>9, <1>10, <1>11

-----------------------------------------------------------------------------
(* Theorems.                                                               *)

LEMMA InitIInv ==
    ASSUME Init
    PROVE  IInv
<1> USE DEF Init
<1>1. <<>> \in Seq(Span) /\ <<>> \in Seq(Requests) /\ traces \in Seq(TraceRecords) /\ DOMAIN traces = {}
  BY EmptySeq
<1>2. PoolSize \in Nat /\ MaxFailures \in Nat /\ MaxClears \in Nat
  BY SizesAssumption, BoundsAssumption
<1>3. TypeOK
  BY <1>1, <1>2 DEF TypeOK, Labels
<1>4. Shape
  BY <1>1 DEF Shape
<1>5. Alike
  BY DEF Alike, UnderWay
<1>6. ConnectionsKept
  <2>1. {r \in Requests : pc[r] \in Streaming} = {}
    BY DEF Streaming, Nodes
  <2>2. {r \in Requests : listing[r] = "connected"} = {}
    OBVIOUS
  <2>3. Cardinality({}) = 0
    BY FS_EmptySet
  <2>4. PoolSize + 0 + 0 = PoolSize
    BY <1>2
  <2>5. QED
    BY <2>1, <2>2, <2>3, <2>4 DEF ConnectionsKept
<1>7. OwnSpans
  BY <1>1 DEF OwnSpans
<1>8. SpansReleased /\ WindowsEnd
  BY DEF SpansReleased, WindowsEnd
<1>9. QED
  BY <1>3, <1>4, <1>5, <1>6, <1>7, <1>8 DEF IInv

\* The types, the connections in use, the active spans and the windows of the rate
\* limiter stay together through every handler, failure, time-out and crash.
THEOREM Invariance == Spec => []IInv
<1>1. Init => IInv
  BY InitIInv
<1>2. IInv /\ [Next]_vars => IInv'
  <2> SUFFICES ASSUME IInv, [Next]_vars PROVE IInv'
    OBVIOUS
  <2>1. CASE \E r \in Requests : RequestStep(r)
    BY <2>1, StepIInv
  <2>2. CASE \E t \in Tenants : ClearTraces(t)
    BY <2>2, ClearTracesIInv
  <2>3. CASE \E t \in Tenants : WindowEnd(t)
    BY <2>3, WindowEndIInv
  <2>4. CASE Crash
    BY <2>4, CrashIInv
  <2>5. CASE UNCHANGED vars
    BY <2>5 DEF vars, IInv, TypeOK, Shape, Alike, ConnectionsKept, OwnSpans, SpansReleased, WindowsEnd
  <2>6. QED
    BY <2>1, <2>2, <2>3, <2>4, <2>5 DEF Next, RequestStep
<1>3. QED
  BY <1>1, <1>2, PTL DEF Spec

\* Every variable keeps its type; in particular the pool never has fewer than no
\* connections or more than it was opened with.
THEOREM TypeCorrect == Spec => []TypeOK
BY Invariance, PTL DEF IInv

\* No connection is lost or returned twice, for any number of requests and failures.
THEOREM PoolIsKept == Spec => []ConnectionsKept
BY Invariance, PTL DEF IInv

\* A trace holds its request's spans and no others, unless two requests share an id.
THEOREM SpansAreApart == Spec => []OwnSpans
BY Invariance, PTL DEF IInv

\* Active spans are those of a request that has not ended, or that was turned away by
\* the rate limit or left before its stream began.
THEOREM SpansAreReleased == Spec => []SpansReleased
BY Invariance, PTL DEF IInv

\* A rate counter has a time to live, or is about to get one, unless a call has failed.
THEOREM LimitsRunOut == Spec => []WindowsEnd
BY Invariance, PTL DEF IInv

-----------------------------------------------------------------------------
(* The ring of traces and the log of those who finalized one.              *)

\* Each trace has a place in the log that is not before its own.
Place(place) ==
    /\ place \in [1..Len(traces) -> 1..Len(log)]
    /\ \A i \in 1..Len(traces) :
          traces[i].by = log[place[i]] /\ traces[i].by \notin cleared /\ i <= place[i]
    /\ \A i, j \in 1..Len(traces) : i < j => place[i] < place[j]
    /\ \A n \in 1..Len(log) :
          \/ log[n] \in cleared
          \/ \E i \in 1..Len(traces) : place[i] = n
          \/ n > MaxTraces /\ \A i \in 1..Len(traces) : place[i] < n

Placed == Len(traces) <= MaxTraces /\ \E place : Place(place)

\* Who finalized a trace has ended, and the trace is his tenant's.
Logged ==
    /\ \A n \in 1..Len(log) : pc[log[n]] \in Ended
    /\ \A i \in 1..Len(traces) :
          /\ args[traces[i].by] # None
          /\ traces[i].tenant = args[traces[i].by].tenant

RingIInv == IInv /\ Logged /\ Placed

LEMMA FinalizePlaced ==
    ASSUME RingIInv, NEW r \in Requests, NEW ended \in Seq(Span), Finalize(r, ended),
           pc[r] \in UnderWay
    PROVE  Placed'
<1> DEFINE l == Len(traces)
           m == Len(log)
           k == Len(traces')
<1>1. /\ traces \in Seq(TraceRecords) /\ log \in Seq(Requests) /\ cleared \subseteq ToSet(log)
      /\ args[r] \in Ask
      /\ log' = <<r>> \o log /\ cleared' = cleared /\ Publish(r, ended)
  BY DEF RingIInv, IInv, TypeOK, Shape, Finalize, UnderWay
<1>2. l \in Nat /\ m \in Nat /\ l <= MaxTraces /\ MaxTraces \in Nat /\ MaxTraces > 0
  BY <1>1, LenProperties, SizesAssumption DEF RingIInv, Placed
<1>3. /\ k = IF l + 1 > MaxTraces THEN MaxTraces ELSE l + 1
      /\ \A i \in 1..k : traces'[i] = IF i = 1 THEN Trace(r, ended) ELSE traces[i - 1]
  BY <1>1, PublishedFirst
<1>4. /\ Len(log') = m + 1 /\ log'[1] = r
      /\ \A n \in 1..(m + 1) : n # 1 => log'[n] = log[n - 1]
  <2>1. <<r>> \in Seq(Requests) /\ Len(<<r>>) = 1 /\ <<r>>[1] = r
    OBVIOUS
  <2>2. /\ Len(<<r>> \o log) = 1 + m
        /\ \A n \in 1..(1 + m) : (<<r>> \o log)[n] = IF n <= 1 THEN <<r>>[n] ELSE log[n - 1]
    BY <1>1, <2>1, ConcatProperties
  <2> HIDE DEF m
  <2>3. 1 + m = m + 1 /\ 1 \in 1..(1 + m) /\ \A n \in 1..(m + 1) : n # 1 => ~(n <= 1)
    BY <1>2
  <2>4. QED
    BY <1>1, <2>1, <2>2, <2>3
<1>5. r \notin cleared
  <2>1. \A n \in 1..m : log[n] # r
    BY DEF RingIInv, Logged, UnderWay
  <2>2. r \notin ToSet(log)
    BY <1>1, <2>1, LenProperties DEF ToSet
  <2>3. QED
    BY <1>1, <2>2
<1>6. PICK place : Place(place)
  BY DEF RingIInv, Placed
<1>7. /\ place \in [1..l -> 1..m]
      /\ \A i \in 1..l : traces[i].by = log[place[i]] /\ traces[i].by \notin cleared /\ i <= place[i]
      /\ \A i, j \in 1..l : i < j => place[i] < place[j]
      /\ \A n \in 1..m :
            \/ log[n] \in cleared
            \/ \E i \in 1..l : place[i] = n
            \/ n > MaxTraces /\ \A i \in 1..l : place[i] < n
  BY <1>6 DEF Place
<1>a. PICK new : new = [i \in 1..k |-> IF i = 1 THEN 1 ELSE place[i - 1] + 1]
  OBVIOUS
<1> HIDE DEF l, m, k
<1>8. k \in Nat /\ k <= MaxTraces /\ 1 \in 1..k /\ k <= l + 1 /\ (k # l + 1 => l = MaxTraces /\ k = l)
  BY <1>2, <1>3
<1>9. \A i \in 1..k : i # 1 => i - 1 \in 1..l /\ i - 1 \in Nat
  BY <1>2, <1>8
<1>10. new[1] = 1 /\ \A i \in 1..k : i # 1 => new[i] = place[i - 1] + 1
  BY <1>8, <1>a
<1>11. \A i \in 1..l : place[i] \in 1..m /\ place[i] \in Nat /\ place[i] + 1 \in 1..(m + 1)
                       /\ place[i] + 1 # 1 /\ place[i] + 1 - 1 = place[i]
  BY <1>2, <1>7
<1>12. new \in [1..k -> 1..(m + 1)]
  BY <1>2, <1>9, <1>11, <1>a
<1>13. ASSUME NEW i \in 1..k
       PROVE  traces'[i].by = log'[new[i]] /\ traces'[i].by \notin cleared' /\ i <= new[i]
  <2>1. CASE i = 1
    <3>1. Trace(r, ended).by = r
      BY DEF Trace
    <3>2. QED
      BY <1>1, <1>3, <1>4, <1>5, <1>8, <1>10, <2>1, <3>1
  <2>2. CASE i # 1
    <3>1. traces'[i] = traces[i - 1] /\ i - 1 \in 1..l /\ new[i] = place[i - 1] + 1
      BY <1>3, <1>9, <1>10, <2>2
    <3>2. log'[new[i]] = log[place[i - 1]]
      BY <1>4, <1>11, <3>1
    <3>3. i - 1 <= place[i - 1] /\ place[i - 1] \in Nat
      BY <1>7, <1>11, <3>1
    <3>4. i <= place[i - 1] + 1
      BY <1>8, <3>3
    <3>5. QED
      BY <1>1, <1>7, <3>1, <3>2, <3>4
  <2>3. QED
    BY <2>1, <2>2
<1>14. ASSUME NEW i \in 1..k, NEW j \in 1..k, i < j
       PROVE  new[i] < new[j]
  <2>1. j # 1 /\ j - 1 \in 1..l /\ new[j] = place[j - 1] + 1 /\ place[j - 1] \in 1..m
    BY <1>8, <1>9, <1>10, <1>11, <1>14
  <2>2. CASE i = 1
    BY <1>2, <1>10, <2>1, <2>2
  <2>3. CASE i # 1
    <3>1. i - 1 \in 1..l /\ new[i] = place[i - 1] + 1 /\ place[i - 1] \in 1..m
      BY <1>9, <1>10, <1>11, <2>3
    <3>2. i - 1 < j - 1
      BY <1>8, <1>14
    <3>3. place[i - 1] < place[j - 1]
      BY <1>7, <2>1, <3>1, <3>2
    <3>4. QED
      BY <1>2, <2>1, <3>1, <3>3
  <2>4. QED
    BY <2>2, <2>3
<1>15. ASSUME NEW n \in 1..(m + 1)
       PROVE  \/ log'[n] \in cleared'
              \/ \E i \in 1..k : new[i] = n
              \/ n > MaxTraces /\ \A i \in 1..k : new[i] < n
  <2>1. CASE n = 1
    BY <1>8, <1>10, <2>1
  <2>2. CASE n # 1
    <3>1. n - 1 \in 1..m /\ log'[n] = log[n - 1] /\ n \in Nat /\ n > 1
      BY <1>2, <1>4, <2>2
    <3>2. CASE log[n - 1] \in cleared
      BY <1>1, <3>1, <3>2
    <3>3. ASSUME NEW i \in 1..l, place[i] = n - 1
          PROVE  \/ \E j \in 1..k : new[j] = n
                 \/ n > MaxTraces /\ \A j \in 1..k : new[j] < n
      <4>1. CASE i + 1 \in 1..k
        <5>1. i + 1 # 1 /\ i + 1 - 1 = i
          BY <1>2
        <5>2. new[i + 1] = place[i] + 1
          BY <1>10, <4>1, <5>1
        <5>3. QED
          BY <3>1, <3>3, <4>1, <5>2
      <4>2. CASE i + 1 \notin 1..k
        <5>1. i = l /\ k = l /\ l = MaxTraces
          BY <1>2, <1>8, <4>2
        <5>2. i <= n - 1
          BY <1>7, <3>3
        <5>3. n > MaxTraces
          BY <1>2, <3>1, <5>1, <5>2
        <5>4. ASSUME NEW j \in 1..k PROVE new[j] < n
          <6>1. CASE j = 1
            BY <1>10, <3>1, <6>1
          <6>2. CASE j # 1
            <7>1. j - 1 \in 1..l /\ j - 1 < i /\ new[j] = place[j - 1] + 1 /\ place[j - 1] \in Nat
              BY <1>2, <1>8, <1>9, <1>10, <1>11, <5>1, <6>2
            <7>2. place[j - 1] < place[i]
              BY <1>7, <7>1
            <7>3. QED
              BY <3>1, <3>3, <7>1, <7>2
          <6>3. QED
            BY <6>1, <6>2
        <5>5. QED
          BY <5>3, <5>4
      <4>3. QED
        BY <4>1, <4>2
    <3>4. CASE n - 1 > MaxTraces /\ \A i \in 1..l : place[i] < n - 1
      <4>1. n > MaxTraces
        BY <1>2, <3>1, <3>4
      <4>2. ASSUME NEW j \in 1..k PROVE new[j] < n
        <5>1. CASE j = 1
          BY <1>10, <3>1, <5>1
        <5>2. CASE j # 1
          <6>1. new[j] = place[j - 1] + 1 /\ place[j - 1] < n - 1 /\ place[j - 1] \in Nat
            BY <1>9, <1>10, <1>11, <3>4, <5>2
          <6>2. QED
            BY <3>1, <6>1
        <5>3. QED
          BY <5>1, <5>2
      <4>3. QED
        BY <4>1, <4>2
    <3>5. QED
      BY <1>7, <3>1, <3>2, <3>3, <3>4
  <2>3. QED
    BY <2>1, <2>2
<1>16. Place(new)'
  BY <1>4, <1>12, <1>13, <1>14, <1>15 DEF Place, k
<1>17. QED
  BY <1>8, <1>16 DEF Placed, k

\* Clearing a tenant's traces takes them from their places.
LEMMA ClearTracesPlaced ==
    ASSUME RingIInv, NEW t \in Tenants, ClearTraces(t)
    PROVE  Placed'
<1> DEFINE l == Len(traces)
           m == Len(log)
           k == Len(traces')
<1>1. /\ traces \in Seq(TraceRecords) /\ log \in Seq(Requests)
      /\ traces' = Others(t) /\ log' = log
      /\ cleared' = cleared \cup {q \in ToSet(log) : args[q].tenant = t}
  BY DEF RingIInv, IInv, TypeOK, Shape, ClearTraces
<1>2. /\ l \in Nat /\ m \in Nat /\ k \in Nat /\ l <= MaxTraces /\ MaxTraces \in Nat
  BY <1>1, LenProperties, OthersAreLeft, SizesAssumption DEF RingIInv, Placed
<1>3. PICK g : Left(t, Others(t), g, l)
  BY <1>1, OthersAreLeft
<1>4. /\ g \in [1..k -> 1..l]
      /\ \A i \in 1..k : traces'[i] = traces[g[i]] /\ traces[g[i]].tenant # t /\ i <= g[i]
      /\ \A i, j \in 1..k : i < j => g[i] < g[j]
      /\ \A i \in 1..l : traces[i].tenant # t => \E j \in 1..k : g[j] = i
  BY <1>1, <1>3 DEF Left
<1>5. PICK place : Place(place)
  BY DEF RingIInv, Placed
<1>6. /\ place \in [1..l -> 1..m]
      /\ \A i \in 1..l : traces[i].by = log[place[i]] /\ traces[i].by \notin cleared /\ i <= place[i]
      /\ \A i, j \in 1..l : i < j => place[i] < place[j]
      /\ \A n \in 1..m :
            \/ log[n] \in cleared
            \/ \E i \in 1..l : place[i] = n
            \/ n > MaxTraces /\ \A i \in 1..l : place[i] < n
  BY <1>5 DEF Place
<1>7. \A i \in 1..l : traces[i].tenant = args[traces[i].by].tenant
  BY DEF RingIInv, Logged
<1>8. \A n \in 1..m : log[n] \in ToSet(log)
  BY <1>1, LenProperties DEF ToSet
<1>a. PICK new : new = [i \in 1..k |-> place[g[i]]]
  OBVIOUS
<1> HIDE DEF l, m, k
<1>9. new \in [1..k -> 1..m] /\ \A i \in 1..k : new[i] = place[g[i]] /\ g[i] \in 1..l
  BY <1>4, <1>6, <1>a
<1>10. k <= l
  <2>1. CASE k = 0
    BY <1>2, <2>1
  <2>2. CASE k # 0
    <3>1. k \in 1..k
      BY <1>2, <2>2
    <3>2. k <= g[k] /\ g[k] \in 1..l
      BY <1>4, <1>9, <3>1
    <3>3. QED
      BY <1>2, <3>2
  <2>3. QED
    BY <2>1, <2>2
<1>11. ASSUME NEW i \in 1..k
       PROVE  traces'[i].by = log[new[i]] /\ traces'[i].by \notin cleared' /\ i <= new[i]
  <2>1. g[i] \in 1..l /\ place[g[i]] \in 1..m
    BY <1>6, <1>9
  <2>2. i <= g[i] /\ g[i] <= place[g[i]]
    BY <1>4, <1>6, <2>1
  <2>3. i <= place[g[i]]
    BY <1>2, <2>1, <2>2
  <2>4. traces'[i].by = log[new[i]] /\ traces'[i].by \notin cleared
    BY <1>4, <1>6, <1>9, <2>1
  <2>5. args[traces'[i].by].tenant # t
    BY <1>4, <1>7, <2>1
  <2>6. QED
    BY <1>1, <1>9, <2>3, <2>4, <2>5
<1>12. ASSUME NEW i \in 1..k, NEW j \in 1..k, i < j
       PROVE  new[i] < new[j]
  BY <1>4, <1>6, <1>9, <1>12
<1>13. ASSUME NEW n \in 1..m
       PROVE  \/ log[n] \in cleared'
              \/ \E i \in 1..k : new[i] = n
              \/ n > MaxTraces /\ \A i \in 1..k : new[i] < n
  <2>1. CASE log[n] \in cleared
    BY <1>1, <2>1
  <2>2. ASSUME NEW i \in 1..l, place[i] = n
        PROVE  log[n] \in cleared' \/ \E j \in 1..k : new[j] = n
    <3>1. CASE traces[i].tenant = t
      <4>1. args[log[n]].tenant = t
        BY <1>6, <1>7, <2>2, <3>1
      <4>2. QED
        BY <1>1, <1>8, <4>1
    <3>2. CASE traces[i].tenant # t
      BY <1>4, <1>9, <2>2, <3>2
    <3>3. QED
      BY <3>1, <3>2
  <2>3. CASE n > MaxTraces /\ \A i \in 1..l : place[i] < n
    BY <1>9, <2>3
  <2>4. QED
    BY <1>6, <2>1, <2>2, <2>3
<1>14. Place(new)'
  BY <1>1, <1>9, <1>11, <1>12, <1>13 DEF Place, k, m
<1>15. k <= MaxTraces
  BY <1>2, <1>10
<1>16. QED
  BY <1>14, <1>15 DEF Placed, k

LEMMA ClearTracesLogged ==
    ASSUME RingIInv, NEW t \in Tenants, ClearTraces(t)
    PROVE  Logged'
<1>1. traces \in Seq(TraceRecords) /\ UNCHANGED <<log, pc, args>> /\ traces' = Others(t)
  BY DEF RingIInv, IInv, Shape, ClearTraces
<1>2. Others(t) \in Seq(TraceRecords) /\ \E g : Left(t, Others(t), g, Len(traces))
  BY <1>1, OthersAreLeft
<1>3. \A i \in 1..Len(Others(t)) : \E j \in 1..Len(traces) : Others(t)[i] = traces[j]
  BY <1>2 DEF Left
<1>4. QED
  BY <1>1, <1>3 DEF RingIInv, Logged

LEMMA StepRing ==
    ASSUME RingIInv, NEW r \in Requests, RequestStep(r)
    PROVE  Logged' /\ Placed'
<1>0. /\ IInv /\ TypeOK /\ Shape /\ traces \in Seq(TraceRecords) /\ log \in Seq(Requests)
      /\ \A n \in 1..Len(log) : log[n] \in Requests
      /\ \A i \in 1..Len(traces) : traces[i].by \in Requests
  <2>1. IInv /\ TypeOK /\ Shape /\ traces \in Seq(TraceRecords) /\ log \in Seq(Requests)
    BY DEF RingIInv, IInv, TypeOK, Shape
  <2>2. \A i \in 1..Len(traces) : traces[i] \in TraceRecords
    BY <2>1, ElementOfSeq
  <2>3. \A n \in 1..Len(log) : log[n] \in Requests
    BY <2>1, ElementOfSeq
  <2>4. QED
    BY <2>1, <2>2, <2>3 DEF TraceRecords
<1>1. \A q \in Requests : args[q] # None => args'[q] = args[q]
  BY <1>0, ArgsStay
<1>2. \A q \in Requests : pc[q] \in Ended => pc'[q] \in Ended
  <2>1. ASSUME NEW q \in Requests, pc[q] \in Ended PROVE pc'[q] \in Ended
    <3>1. CASE q # r
      BY <1>0, <2>1, <3>1, RequestFrame
    <3>2. CASE q = r
      <4>1. pc[r] \notin UnderWay /\ pc[r] # "idle"
        BY <2>1, <3>2 DEF UnderWay, Ended
      <4>2. ~ \E ask \in Asks[r] : Begin(r, ask)
        BY <4>1 DEF Begin, Goto
      <4>3. pc'[r] = pc[r]
        BY <1>0, <4>1, <4>2, TelemetryMoves
      <4>4. QED
        BY <2>1, <3>2, <4>3
    <3>3. QED
      BY <3>1, <3>2
  <2>2. QED
    BY <2>1
<1>3. CASE UNCHANGED <<traces, log, cleared>>
  <2>1. Logged'
    BY <1>0, <1>1, <1>2, <1>3 DEF RingIInv, Logged
  <2>2. Placed'
    BY <1>3 DEF RingIInv, Placed, Place
  <2>3. QED
    BY <2>1, <2>2
<1>4. ASSUME NEW ended \in Seq(Span), Finalize(r, ended), pc[r] \in UnderWay,
             pc'[r] \in {"refused", "done", "failed"}
      PROVE  Logged' /\ Placed'
  <2>1. Placed'
    BY <1>4, FinalizePlaced
  <2>2. args[r] \in Ask /\ args'[r] = args[r] /\ args[r] # None
    BY <1>0, <1>1, <1>4, NoneAssumption DEF UnderWay, Shape
  <2>3. Publish(r, ended) /\ log' = <<r>> \o log
    BY <1>4 DEF Finalize
  <2>4. ASSUME NEW i \in 1..Len(traces')
        PROVE  args'[traces'[i].by] # None /\ traces'[i].tenant = args'[traces'[i].by].tenant
    <3>1. DOMAIN traces' = 1..Len(traces') /\ DOMAIN traces = 1..Len(traces)
      BY <1>0, <2>2, <2>3, PublishedTraces, LenProperties
    <3>2. CASE traces'[i] = Trace(r, ended)
      <4>1. Trace(r, ended).by = r /\ Trace(r, ended).tenant = args[r].tenant
        BY DEF Trace
      <4>2. QED
        BY <2>2, <3>2, <4>1
    <3>3. ASSUME NEW j \in 1..Len(traces), traces'[i] = traces[j]
          PROVE  args'[traces'[i].by] # None /\ traces'[i].tenant = args'[traces'[i].by].tenant
      BY <1>0, <1>1, <3>3 DEF RingIInv, Logged
    <3>4. \A k \in DOMAIN traces' :
            traces'[k] = Trace(r, ended) \/ \E j \in DOMAIN traces : traces'[k] = traces[j]
      BY <1>0, <2>2, <2>3, PublishedTraces
    <3>5. QED
      BY <3>1, <3>2, <3>3, <3>4
  <2>5. ASSUME NEW n \in 1..Len(log') PROVE pc'[log'[n]] \in Ended
    <3> DEFINE m == Len(log)
    <3>1. <<r>> \in Seq(Requests) /\ Len(<<r>>) = 1 /\ <<r>>[1] = r /\ m \in Nat
      BY <1>0, LenProperties
    <3>2. /\ Len(<<r>> \o log) = 1 + m
          /\ \A k \in 1..(1 + m) : (<<r>> \o log)[k] = IF k <= 1 THEN <<r>>[k] ELSE log[k - 1]
      BY <1>0, <3>1, ConcatProperties
    <3>3. \A k \in 1..m : pc'[log[k]] \in Ended
      BY <1>0, <1>2 DEF RingIInv, Logged
    <3> HIDE DEF m
    <3>4. n \in 1..(1 + m) /\ (n = 1 \/ (~(n <= 1) /\ n - 1 \in 1..m))
      BY <2>3, <2>5, <3>1, <3>2
    <3>5. CASE n = 1
      <4>1. log'[n] = r
        BY <2>3, <3>1, <3>2, <3>4, <3>5
      <4>2. QED
        BY <1>4, <4>1 DEF Ended
    <3>6. CASE n # 1
      BY <2>3, <3>2, <3>3, <3>4, <3>6
    <3>7. QED
      BY <3>5, <3>6
  <2>6. Logged'
    BY <2>4, <2>5 DEF Logged
  <2>7. QED
    BY <2>1, <2>6
<1>5. CASE \E ask \in Asks[r] : Begin(r, ask)
  BY <1>3, <1>5 DEF Begin
<1>6. QED
  BY <1>0, <1>3, <1>4, <1>5, TelemetryMoves DEF telemetry

LEMMA PlacedTraces == ASSUME RingIInv PROVE RecentTraces
<1>1. DOMAIN traces = 1..Len(traces) /\ DOMAIN log = 1..Len(log)
  BY LenProperties DEF RingIInv, IInv, TypeOK, Shape
<1>2. QED
  BY <1>1 DEF RingIInv, Placed, Place, RecentTraces

\* The ring of traces and the log of those who finalized one stay in step.
THEOREM RingInvariance == Spec => []RingIInv
<1>1. Init => RingIInv
  <2>1. ASSUME Init PROVE RingIInv
    <3>1. traces = <<>> /\ log = <<>> /\ Len(<<>>) = 0 /\ 1..0 = {} /\ 0 <= MaxTraces
      BY <2>1, SizesAssumption DEF Init
    <3>2. Place([i \in 1..0 |-> 1])
      BY <3>1 DEF Place
    <3>3. Logged /\ Placed
      BY <3>1, <3>2 DEF Logged, Placed
    <3>4. QED
      BY <2>1, <3>3, InitIInv DEF RingIInv
  <2>2. QED
    BY <2>1
<1>2. RingIInv /\ IInv' /\ [Next]_vars => RingIInv'
  <2> SUFFICES ASSUME RingIInv, IInv', [Next]_vars PROVE Logged' /\ Placed'
    BY DEF RingIInv
  <2>1. CASE \E r \in Requests : RequestStep(r)
    BY <2>1, StepRing
  <2>2. CASE \E t \in Tenants : ClearTraces(t)
    BY <2>2, ClearTracesLogged, ClearTracesPlaced
  <2>3. CASE \/ \E t \in Tenants : WindowEnd(t)
             \/ UNCHANGED vars
    <3>1. UNCHANGED <<traces, log, cleared, pc, args>>
      BY <2>3 DEF WindowEnd, telemetry, vars
    <3>2. QED
      BY <3>1 DEF RingIInv, Logged, Placed, Place
  <2>4. CASE Crash
    <3>1. traces' = <<>> /\ log' = <<>> /\ Len(<<>>) = 0 /\ 1..0 = {} /\ 0 <= MaxTraces
      BY <2>4, SizesAssumption DEF Crash
    <3>2. Place([i \in 1..0 |-> 1])'
      BY <3>1 DEF Place
    <3>3. QED
      BY <3>1, <3>2 DEF Logged, Placed
  <2>5. QED
    BY <2>1, <2>2, <2>3, <2>4 DEF Next, RequestStep
<1>3. QED
  BY <1>1, <1>2, Invariance, PTL DEF Spec

\* The ring shows the newest traces, in order, and none that was cleared.
THEOREM NewestAreKept == Spec => []RecentTraces
BY RingInvariance, PlacedTraces, PTL
=============================================================================
