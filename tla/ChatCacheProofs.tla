-------------------------- MODULE ChatCacheProofs --------------------------
(***************************************************************************)
(* Proofs about ChatCache: from a tenant's second epoch on, a cached       *)
(* answer reflects every acknowledged write.                               *)
(***************************************************************************)
EXTENDS ChatCache, DocumentStoreProofs

-----------------------------------------------------------------------------
(* The inductive invariant.                                                *)

Doers(t) == {r \in Requests : pc[r] = "done" /\ args[r].tenant = t}

\* Each increment of an epoch is that of a request which is done.
Counted == \A t \in Tenants : tenantVer[t] <= Cardinality(Doers(t))

\* A request that may have taken vectors away and has not answered "done".
Behind == {"bump", "saved", "failed", "crashed"}
Unfinished(d) ==
    \E r \in Requests : pc[r] \in Behind /\ Touches(r, args[d].tenant, args[d].filename)

\* What is in the cache, and what is on its way there.
Pending(c) == [tenant |-> asker[c], ver |-> cver[c], docs |-> source[c]]
Answers == cache \cup {Pending(c) : c \in {x \in Chats : cpc[x] = "store"}}

\* No answer is of an epoch to come.
Epochs ==
    /\ \A c \in Chats : cpc[c] # "idle" =>
          /\ asker[c] \in Tenants
          /\ cver[c] >= 2 => cver[c] <= tenantVer[asker[c]]
    /\ \A a \in Answers : a.ver >= 2 => a.tenant \in Tenants /\ a.ver <= tenantVer[a.tenant]

\* As long as its epoch lasts, and no increment was lost, an answer agrees with the
\* vectors on every finished document, but for what a request still has to answer for.
Faithful ==
    \A a \in Answers : a.ver >= 2 /\ tenantVer[a.tenant] = a.ver /\ NoBumpLost(a.tenant) =>
        \A d \in DocIds : pc[d] = "done" /\ args[d].tenant = a.tenant =>
            /\ d \in Retrievable(a.tenant) => d \in a.docs
            /\ d \in a.docs => d \in Retrievable(a.tenant) \/ Unfinished(d)

\* What is owed to a chat is finished; what was retired does not come back.
Settlement ==
    \A c \in Chats :
        /\ \A d \in owed[c].retired \cup owed[c].current : pc[d] = "done"
        /\ owed[c].retired \cap Retrievable(asker[c]) = {}

\* All answers that a chat could find are fresh enough for it.
Agrees ==
    \A c \in Chats : cpc[c] = "lookup" /\ cver[c] >= 2 =>
        \A a \in Answers : KeyOf(a) = Key(asker[c], cver[c]) =>
            /\ a.docs \cap owed[c].retired = {}
            /\ owed[c].current \cap Retrievable(asker[c]) \subseteq a.docs

ChatIInv == /\ IInv /\ ChatTypeOK /\ Counted /\ Epochs /\ Faithful /\ Settlement /\ Agrees
            /\ FreshFromSecondEpoch

-----------------------------------------------------------------------------
(* What a write does to the documents that are finished.                   *)

\* A finished document is written no more, and a step that takes its vectors away
\* leaves somebody behind who has to answer for it.
LEMMA FinishedDocuments ==
    ASSUME IInv, NEW r \in Requests, RequestStep(r), NEW d \in Requests, pc[d] = "done", NEW t
    PROVE  /\ pc'[d] = "done" /\ args'[d] = args[d]
           /\ d \in Retrievable(t)' => d \in Retrievable(t)
           /\ d \in Retrievable(t) /\ d \notin Retrievable(t)' => Unfinished(d)'
<1>1. d # r /\ pc'[d] = "done" /\ args'[d] = args[d]
  BY RequestFrame DEF Working
<1>2. ASSUME d \in Retrievable(t)' PROVE d \in Retrievable(t)
  <2>1. PICK v \in vectors' : v.tenant = t /\ v.doc = d
    BY <1>2 DEF Retrievable
  <2>2. v \in vectors
    BY <1>1, <2>1, VectorsChange
    DEF VectorsWithoutDoc, VectorsWithoutFile, VectorsWithoutTenant, NewPoint
  <2>3. QED
    BY <2>1, <2>2 DEF Retrievable
<1>3. ASSUME d \in Retrievable(t), d \notin Retrievable(t)' PROVE Unfinished(d)'
  <2>1. PICK v \in vectors : v.tenant = t /\ v.doc = d
    BY <1>3 DEF Retrievable
  <2>2. v \notin vectors'
    BY <1>3, <2>1 DEF Retrievable
  <2>3. v = NewPoint(d) /\ args[d].tenant = t
    <3>1. v = NewPoint(v.doc)
      BY DEF IInv, PointOwner
    <3>2. v = NewPoint(d)
      BY <2>1, <3>1
    <3>3. QED
      BY <2>1, <3>2 DEF NewPoint
  <2>4. v.filename = args[d].filename
    BY <2>3 DEF NewPoint
  <2>5. pc[r] # "idle" => args' = args
    BY RequestFrame
  <2>6. pc'[r] \in Behind /\ Touches(r, args[d].tenant, args[d].filename) /\ pc[r] # "idle"
    <3>1. CASE pc[r] \in {"undoQuota", "undoFailure", "undoCommitted"}
               /\ vectors' = VectorsWithoutDoc(args[r].tenant, r)
      BY <1>1, <2>1, <2>2, <3>1 DEF VectorsWithoutDoc
    <3>2. CASE pc[r] = "cleanup" /\ pc'[r] \in {"bump", "saved"}
               /\ vectors' = VectorsWithoutDoc(args[r].tenant, prev[r])
      <4>1. prev[r] = d /\ prev[r] # None
        BY <2>1, <2>2, <3>2, RequestsAssumption DEF VectorsWithoutDoc
      <4>2. QED
        BY <3>2, <4>1 DEF IInv, PrevGone, Touches, Behind
    <3>3. CASE pc[r] = "delVectors" /\ pc'[r] \in {"bump", "failed"}
               /\ vectors' = VectorsWithoutFile(args[r].tenant, args[r].filename)
      BY <2>1, <2>2, <2>3, <2>4, <3>3 DEF VectorsWithoutFile, Touches, Behind
    <3>4. CASE pc[r] = "clearVectors" /\ pc'[r] \in {"bump", "failed"}
               /\ vectors' = VectorsWithoutTenant(args[r].tenant)
      BY <2>1, <2>2, <2>3, <3>4 DEF VectorsWithoutTenant, Touches, Behind, IInv, ArgsFit
    <3>5. QED
      BY <2>2, <3>1, <3>2, <3>3, <3>4, VectorsChange
  <2>7. QED
    BY <2>5, <2>6 DEF Unfinished, Touches
<1>4. QED
  BY <1>1, <1>2, <1>3

\* Whoever has to answer for a document does so until it is done.
LEMMA BehindStays ==
    ASSUME IInv, NEW r \in Requests, RequestStep(r), NEW q \in Requests, pc[q] \in Behind
    PROVE  args'[q] = args[q] /\ pc'[q] \in Behind \cup {"done"}
BY RequestFrame DEF Behind, Working

LEMMA DoersFinite == \A t : IsFiniteSet(Doers(t)) /\ Cardinality(Doers(t)) \in Nat
<1> TAKE t
<1>1. Doers(t) \subseteq Requests
  BY DEF Doers
<1>2. QED
  BY <1>1, RequestsAssumption, SubsetCardinality

\* Who is done stays done.
LEMMA DoersStay ==
    ASSUME IInv, NEW r \in Requests, RequestStep(r), NEW t
    PROVE  /\ Doers(t) \subseteq Doers(t)'
           /\ Cardinality(Doers(t)) <= Cardinality(Doers(t)')
           /\ Cardinality(Doers(t)') \in Nat /\ IsFiniteSet(Doers(t)')
           /\ Cardinality(Doers(t)') = Cardinality(Doers(t)) => Doers(t)' = Doers(t)
           /\ r \in Doers(t)' => Cardinality(Doers(t)) + 1 <= Cardinality(Doers(t)')
<1>1. \A q \in Doers(t) : q \in Doers(t)' /\ q # r
  BY RequestFrame DEF Doers, Working
<1> DEFINE D == Doers(t)
           E == Doers(t)'
<1>2. IsFiniteSet(E)
  <2>1. E \subseteq Requests
    BY DEF Doers
  <2>2. QED
    BY <2>1, RequestsAssumption, SubsetCardinality
<1>3. D \subseteq E /\ r \notin D
  BY <1>1
<1> HIDE DEF D, E
<1>4. /\ IsFiniteSet(D) /\ Cardinality(D) \in Nat /\ Cardinality(E) \in Nat
      /\ Cardinality(D) <= Cardinality(E)
  BY <1>2, <1>3, SubsetCardinality
<1>5. ASSUME NEW x \in E, x \notin D PROVE Cardinality(D) + 1 <= Cardinality(E)
  <2>1. D \cup {x} \subseteq E
    BY <1>3, <1>5
  <2>2. Cardinality(D \cup {x}) = Cardinality(D) + 1
    BY <1>4, <1>5, FS_AddElement
  <2>3. Cardinality(D \cup {x}) <= Cardinality(E)
    BY <1>2, <2>1, SubsetCardinality
  <2>4. QED
    BY <2>2, <2>3
<1>6. ASSUME Cardinality(E) = Cardinality(D) PROVE E = D
  <2>1. ~(Cardinality(D) + 1 <= Cardinality(E))
    BY <1>4, <1>6
  <2>2. QED
    BY <1>3, <1>5, <2>1
<1>7. r \in E => Cardinality(D) + 1 <= Cardinality(E)
  BY <1>3, <1>5
<1>8. QED
  BY <1>2, <1>3, <1>4, <1>6, <1>7 DEF D, E

\* The epoch only grows, and never beyond those who are done.
LEMMA CountedStep ==
    ASSUME IInv, Counted, NEW r \in Requests, RequestStep(r)
    PROVE  Counted' /\ \A t \in Tenants : tenantVer[t] <= tenantVer'[t]
<1> SUFFICES ASSUME NEW t \in Tenants
             PROVE  tenantVer'[t] <= Cardinality(Doers(t)') /\ tenantVer[t] <= tenantVer'[t]
  BY DEF Counted
<1> DEFINE n == Cardinality(Doers(t))
           m == Cardinality(Doers(t)')
           v == tenantVer[t]
           w == tenantVer'[t]
<1>1. n \in Nat /\ m \in Nat /\ n <= m /\ (r \in Doers(t)' => n + 1 <= m)
  BY DoersStay, DoersFinite
<1>2. v \in Nat /\ v <= n
  BY DEF Counted, IInv, TypeOK
<1>3. w = v \/ (w = v + 1 /\ r \in Doers(t)')
  <2>1. CASE tenantVer' = tenantVer
    BY <2>1
  <2>2. CASE /\ pc[r] = "bump" /\ pc'[r] = "done" /\ args[r].tenant \in Tenants
             /\ tenantVer' = [tenantVer EXCEPT ![args[r].tenant] = @ + 1]
    <3>1. args'[r] = args[r]
      BY <2>2, RequestFrame
    <3>2. CASE args[r].tenant = t
      BY <2>2, <3>1, <3>2 DEF Doers, IInv, TypeOK
    <3>3. CASE args[r].tenant # t
      BY <2>2, <3>3 DEF IInv, TypeOK
    <3>4. QED
      BY <3>2, <3>3
  <2>3. QED
    BY <2>1, <2>2, EpochChanges
<1> HIDE DEF n, m, v, w
<1>4. w <= m /\ v <= w
  BY <1>1, <1>2, <1>3
<1>5. QED
  BY <1>4 DEF m, v, w

\* As long as an epoch lasts and no increment is lost, nobody else gets done.
LEMMA SameDoers ==
    ASSUME IInv, Counted, NEW r \in Requests, RequestStep(r), NEW t \in Tenants,
           tenantVer'[t] = tenantVer[t], NoBumpLost(t)'
    PROVE  NoBumpLost(t) /\ Doers(t)' = Doers(t)
<1> DEFINE n == Cardinality(Doers(t))
           m == Cardinality(Doers(t)')
           v == tenantVer[t]
<1>1. n \in Nat /\ m \in Nat /\ n <= m /\ (m = n => Doers(t)' = Doers(t))
  BY DoersStay, DoersFinite
<1>2. v \in Nat /\ v <= n /\ v = m
  BY DEF Counted, IInv, TypeOK, NoBumpLost, Doers
<1>3. NoBumpLost(t) <=> v = n
  BY DEF NoBumpLost, Doers
<1> HIDE DEF n, m, v
<1>4. m = n /\ v = n
  BY <1>1, <1>2
<1>5. QED
  BY <1>1, <1>3, <1>4

-----------------------------------------------------------------------------
(* A step of the knowledge base keeps the invariant of the chats.          *)

LEMMA SameAnswers ==
    ASSUME UNCHANGED chatVars
    PROVE  Answers' = Answers
<1>1. \A c : Pending(c)' = Pending(c)
  BY DEF Pending, chatVars
<1>2. {x \in Chats : cpc'[x] = "store"} = {x \in Chats : cpc[x] = "store"} /\ cache' = cache
  BY DEF chatVars
<1>3. QED
  BY <1>1, <1>2 DEF Answers

LEMMA StoreStepFaithful ==
    ASSUME ChatIInv, NEW r \in Requests, RequestStep(r), UNCHANGED chatVars
    PROVE  Faithful'
<1> SUFFICES ASSUME NEW a \in Answers, a.ver >= 2, tenantVer'[a.tenant] = a.ver,
                    NoBumpLost(a.tenant)', NEW d \in DocIds, pc'[d] = "done",
                    args'[d].tenant = a.tenant
             PROVE  /\ d \in Retrievable(a.tenant)' => d \in a.docs
                    /\ d \in a.docs => d \in Retrievable(a.tenant)' \/ Unfinished(d)'
  BY SameAnswers DEF Faithful
<1>1. IInv /\ Counted /\ Epochs /\ Faithful /\ d \in Requests
  BY DEF ChatIInv, DocIds
<1>2. PICK t \in Tenants : t = a.tenant
  BY <1>1 DEF Epochs
<1>3. tenantVer[t] = a.ver
  <2> DEFINE v == tenantVer[t]
             n == a.ver
  <2>1. v \in Nat /\ n <= v /\ v <= n
    BY <1>1, <1>2, CountedStep DEF Epochs, IInv, TypeOK
  <2>2. n \in Nat
    BY <1>1 DEF ChatIInv, ChatTypeOK, Answers, Answer, Pending
  <2> HIDE DEF v, n
  <2>3. v = n
    BY <2>1, <2>2
  <2>4. QED
    BY <2>3 DEF v, n
<1>4. NoBumpLost(t)'
  BY <1>2 DEF NoBumpLost
<1>5. NoBumpLost(t) /\ Doers(t)' = Doers(t)
  BY <1>1, <1>2, <1>3, <1>4, SameDoers
<1>6. pc[d] = "done" /\ args[d].tenant = t
  BY <1>1, <1>2, <1>5 DEF Doers
<1>7. /\ d \in Retrievable(t) => d \in a.docs
      /\ d \in a.docs => d \in Retrievable(t) \/ Unfinished(d)
  BY <1>1, <1>2, <1>3, <1>5, <1>6 DEF Faithful
<1>8. /\ d \in Retrievable(t)' => d \in Retrievable(t)
      /\ d \in Retrievable(t) /\ d \notin Retrievable(t)' => Unfinished(d)'
      /\ args'[d] = args[d]
  BY <1>1, <1>6, FinishedDocuments
<1>9. ASSUME Unfinished(d) PROVE Unfinished(d)'
  <2>1. PICK q \in Requests : pc[q] \in Behind /\ Touches(q, args[d].tenant, args[d].filename)
    BY <1>9 DEF Unfinished
  <2>2. args'[q] = args[q] /\ pc'[q] \in Behind \cup {"done"}
    BY <1>1, <2>1, BehindStays
  <2>3. pc'[q] # "done"
    <3>1. q \notin Doers(t)
      BY <2>1 DEF Doers, Behind
    <3>2. args'[q].tenant = t
      BY <1>6, <2>1, <2>2 DEF Touches
    <3>3. QED
      BY <1>5, <3>1, <3>2 DEF Doers
  <2>4. QED
    BY <1>8, <2>1, <2>2, <2>3 DEF Unfinished, Touches
<1>10. Retrievable(a.tenant)' = Retrievable(t)'
  BY <1>2 DEF Retrievable
<1>11. QED
  BY <1>7, <1>8, <1>9, <1>10

LEMMA StoreStepChatIInv ==
    ASSUME ChatIInv, NEW r \in Requests, RequestStep(r), UNCHANGED chatVars
    PROVE  ChatIInv'
<1>1. UNCHANGED <<cpc, asker, cver, source, cache, owed>> /\ Answers' = Answers
  BY SameAnswers DEF chatVars
<1>2. IInv /\ ChatTypeOK /\ Counted /\ Epochs /\ Settlement /\ Agrees /\ FreshFromSecondEpoch
  BY DEF ChatIInv
<1>3. IInv'
  BY <1>2, StepIInv DEF RequestStep, Next
<1>4. ChatTypeOK'
  BY <1>1, <1>2, <1>3 DEF ChatTypeOK, IInv
<1>5. Counted' /\ \A t \in Tenants : tenantVer[t] <= tenantVer'[t]
  BY <1>2, CountedStep
<1>6. Epochs'
  <2>1. \A t \in Tenants : tenantVer[t] \in Nat /\ tenantVer'[t] \in Nat
    BY <1>2, <1>3 DEF IInv, TypeOK
  <2>2. ASSUME NEW n \in Nat, NEW t \in Tenants, n <= tenantVer[t] PROVE n <= tenantVer'[t]
    BY <1>5, <2>1, <2>2
  <2>3. (\A c \in Chats : cver[c] \in Nat) /\ \A a \in Answers : a.ver \in Nat
    BY <1>2 DEF ChatTypeOK, Answers, Answer, Pending
  <2>4. QED
    BY <1>1, <1>2, <2>2, <2>3 DEF Epochs
<1>7. \A d \in Requests : pc[d] = "done" =>
         /\ pc'[d] = "done"
         /\ \A t : d \in Retrievable(t)' => d \in Retrievable(t)
  BY <1>2, FinishedDocuments
<1>8. \A c \in Chats : \A d \in owed[c].retired \cup owed[c].current : d \in Requests /\ pc[d] = "done"
  BY <1>2 DEF Settlement, ChatTypeOK, DocIds
<1>9. \A c \in Chats : \A t : t = asker[c] =>
         /\ owed[c].retired \cap Retrievable(t) = {} => owed[c].retired \cap Retrievable(t)' = {}
         /\ owed[c].current \cap Retrievable(t)' \subseteq Retrievable(t)
  BY <1>7, <1>8
<1>10. Settlement'
  <2>1. ASSUME NEW c \in Chats PROVE owed'[c].retired \cap Retrievable(asker[c])' = {}
    <3>1. PICK t : t = asker[c] /\ t = asker'[c]
      BY <1>1
    <3>2. owed[c].retired \cap Retrievable(t) = {}
      BY <1>2, <3>1 DEF Settlement
    <3>3. Retrievable(asker[c])' = Retrievable(t)'
      BY <3>1 DEF Retrievable
    <3>4. QED
      BY <1>1, <1>9, <3>1, <3>2, <3>3
  <2>2. \A c \in Chats : \A d \in owed[c].retired \cup owed[c].current : pc'[d] = "done"
    BY <1>7, <1>8
  <2>3. QED
    BY <1>1, <2>1, <2>2 DEF Settlement
<1>11. Agrees'
  <2> SUFFICES ASSUME NEW c \in Chats, cpc[c] = "lookup", cver[c] >= 2,
                      NEW a \in Answers, KeyOf(a) = Key(asker[c], cver[c])
               PROVE  /\ a.docs \cap owed[c].retired = {}
                      /\ owed[c].current \cap Retrievable(asker[c])' \subseteq a.docs
    BY <1>1 DEF Agrees, KeyOf, Key
  <2>1. PICK t : t = asker[c] /\ t = asker'[c]
    BY <1>1
  <2>2. a.docs \cap owed[c].retired = {} /\ owed[c].current \cap Retrievable(t) \subseteq a.docs
    BY <1>2, <2>1 DEF Agrees
  <2>3. Retrievable(asker[c])' = Retrievable(t)'
    BY <2>1 DEF Retrievable
  <2>4. QED
    BY <1>9, <2>1, <2>2, <2>3
<1>12. FreshFromSecondEpoch'
  <2> SUFFICES ASSUME NEW c \in Chats, cpc[c] = "cached", cver[c] >= 2
               PROVE  /\ source[c] \cap owed[c].retired = {}
                      /\ owed[c].current \cap Retrievable(asker[c])' \subseteq source[c]
    BY <1>1 DEF FreshFromSecondEpoch, Fresh
  <2>1. PICK t : t = asker[c] /\ t = asker'[c]
    BY <1>1
  <2>2. source[c] \cap owed[c].retired = {} /\ owed[c].current \cap Retrievable(t) \subseteq source[c]
    BY <1>2, <2>1 DEF FreshFromSecondEpoch, Fresh
  <2>3. Retrievable(asker[c])' = Retrievable(t)'
    BY <2>1 DEF Retrievable
  <2>4. QED
    BY <1>9, <2>1, <2>2, <2>3
<1>13. QED
  BY <1>3, <1>4, <1>5, <1>6, <1>10, <1>11, <1>12, StoreStepFaithful DEF ChatIInv

-----------------------------------------------------------------------------
(* So does a step of a chat.                                               *)

Begins(c) ==
    /\ cpc[c] = "idle" /\ cpc'[c] = "lookup" /\ Answers' \subseteq Answers
    /\ \E t \in Tenants : /\ asker'[c] = t /\ owed'[c] = Owed(t)
                          /\ cver'[c] = 1 \/ cver'[c] = CacheVersion(t)
Served(c) ==
    /\ cpc[c] = "lookup" /\ cpc'[c] = "cached" /\ Answers' \subseteq Answers
    /\ \E a \in Hits(c) : source'[c] = a.docs
    /\ asker'[c] = asker[c] /\ cver'[c] = cver[c] /\ owed'[c] = owed[c]
Retrieves(c) ==
    /\ cpc[c] = "retrieve" /\ cpc'[c] = "store"
    /\ Answers' \subseteq Answers \cup {[tenant |-> asker[c], ver |-> cver[c],
                                         docs |-> Retrievable(asker[c])]}
    /\ asker'[c] = asker[c] /\ cver'[c] = cver[c] /\ owed'[c] = owed[c]
MovesOn(c) ==
    /\ cpc[c] # "idle" /\ cpc'[c] \in {"retrieve", "ended"} /\ Answers' \subseteq Answers
    /\ asker'[c] = asker[c] /\ cver'[c] = cver[c] /\ owed'[c] = owed[c]

\* A chat changes what is its own, and what is cached.
LEMMA ChatMoves ==
    ASSUME ChatTypeOK, NEW c \in Chats, ChatStep(c)
    PROVE  /\ \A x \in Chats \ {c} : /\ cpc'[x] = cpc[x] /\ asker'[x] = asker[x] /\ cver'[x] = cver[x]
                                     /\ source'[x] = source[x] /\ owed'[x] = owed[x]
           /\ UNCHANGED vars
           /\ Begins(c) \/ Served(c) \/ Retrieves(c) \/ MovesOn(c)
<1>1. \A x \in Chats \ {c} : /\ cpc'[x] = cpc[x] /\ asker'[x] = asker[x] /\ cver'[x] = cver[x]
                             /\ source'[x] = source[x] /\ owed'[x] = owed[x]
  BY DEF ChatTypeOK, ChatStep, ChatGoto, StartChat, StartChatVersionUnread, LookupHit, LookupMiss,
     LookupFails, Retrieve, Store, EndUnstored
<1>2. \A x \in Chats \ {c} : Pending(x)' = Pending(x)
  BY <1>1 DEF Pending
<1>3. Answers' \subseteq Answers \cup cache' \cup {p \in {Pending(c)'} : cpc'[c] = "store"}
  BY <1>1, <1>2 DEF Answers
<1>4. ASSUME cache' = cache, cpc'[c] # "store" PROVE Answers' \subseteq Answers
  BY <1>3, <1>4 DEF Answers
<1>5. UNCHANGED vars
  BY DEF ChatStep, StartChat, StartChatVersionUnread, LookupHit, LookupMiss, LookupFails, Retrieve,
     Store, EndUnstored
<1>6. ASSUME NEW t \in Tenants, StartChat(c, t) \/ StartChatVersionUnread(c, t) PROVE Begins(c)
  BY <1>4, <1>6 DEF StartChat, StartChatVersionUnread, ChatGoto, Begins, ChatTypeOK
<1>7. CASE LookupHit(c)
  BY <1>1, <1>4, <1>5, <1>7 DEF LookupHit, ChatGoto, Served, ChatTypeOK
<1>8. CASE LookupMiss(c) \/ LookupFails(c) \/ EndUnstored(c)
  BY <1>1, <1>4, <1>5, <1>8 DEF LookupMiss, LookupFails, EndUnstored, ChatGoto, MovesOn, ChatTypeOK
<1>9. CASE Retrieve(c)
  <2>1. /\ cpc[c] = "retrieve" /\ cpc'[c] = "store" /\ source'[c] = Retrievable(asker[c])
        /\ cache' = cache /\ asker' = asker /\ cver' = cver /\ owed' = owed
    BY <1>9 DEF Retrieve, ChatGoto, ChatTypeOK
  <2>2. Pending(c)' = [tenant |-> asker[c], ver |-> cver[c], docs |-> Retrievable(asker[c])]
    BY <2>1 DEF Pending
  <2>3. QED
    BY <1>1, <1>3, <1>5, <2>1, <2>2 DEF Answers, Retrieves
<1>10. CASE Store(c)
  <2>1. /\ cpc[c] = "store" /\ cpc'[c] = "ended" /\ asker' = asker /\ cver' = cver /\ owed' = owed
        /\ cache' = (cache \ Hits(c)) \cup {Pending(c)}
    BY <1>10 DEF Store, ChatGoto, ChatTypeOK, Pending
  <2>2. Answers' \subseteq Answers
    BY <1>3, <2>1 DEF Answers
  <2>3. QED
    BY <1>1, <1>5, <2>1, <2>2 DEF MovesOn
<1>11. QED
  BY <1>1, <1>5, <1>6, <1>7, <1>8, <1>9, <1>10 DEF ChatStep

\* It reads the knowledge base and leaves it as it is.
LEMMA SameStore ==
    ASSUME IInv, UNCHANGED vars
    PROVE  /\ IInv'
           /\ \A t : Retrievable(t)' = Retrievable(t) /\ (NoBumpLost(t)' <=> NoBumpLost(t))
           /\ \A d : Unfinished(d)' <=> Unfinished(d)
           /\ Counted' <=> Counted
<1>1. IInv'
  BY StepIInv
<1>2. \A t : Doers(t)' = Doers(t)
  BY DEF Doers, vars
<1>3. Counted' <=> Counted
  BY <1>2 DEF Counted, vars
<1>4. \A t : Retrievable(t)' = Retrievable(t) /\ (NoBumpLost(t)' <=> NoBumpLost(t))
  BY DEF Retrievable, NoBumpLost, vars
<1>5. \A d : Unfinished(d)' <=> Unfinished(d)
  BY DEF Unfinished, Touches, vars
<1>6. QED
  BY <1>1, <1>3, <1>4, <1>5

LEMMA OwedType ==
    ASSUME NEW t
    PROVE  /\ Owed(t) \in [retired : SUBSET DocIds, current : SUBSET DocIds]
           /\ \A d \in Owed(t).retired \cup Owed(t).current :
                 /\ NoBumpLost(t) /\ d \in DocIds /\ args[d].tenant = t /\ pc[d] = "done"
                 /\ ~Unfinished(d)
           /\ Owed(t).retired \cap Retrievable(t) = {}
           /\ Owed(t).current \subseteq Retrievable(t)
<1> DEFINE R == Acknowledged(t) \ Retrievable(t)
           C == Acknowledged(t) \cap Retrievable(t)
<1>1. \A d \in Acknowledged(t) : /\ d \in DocIds /\ args[d].tenant = t /\ pc[d] = "done"
                                 /\ ~Unfinished(d)
  BY DEF Acknowledged, Unfinished, Behind
<1>2. CASE NoBumpLost(t)
  <2>1. Owed(t) = [retired |-> R, current |-> C]
    BY <1>2 DEF Owed
  <2>2. R \in SUBSET DocIds /\ C \in SUBSET DocIds
    BY <1>1
  <2>3. R \cup C \subseteq Acknowledged(t) /\ R \cap Retrievable(t) = {} /\ C \subseteq Retrievable(t)
    OBVIOUS
  <2> HIDE DEF R, C
  <2>4. QED
    BY <1>1, <1>2, <2>1, <2>2, <2>3
<1>3. CASE ~NoBumpLost(t)
  BY <1>3 DEF Owed, Nothing
<1>4. QED
  BY <1>2, <1>3

LEMMA ChatStepTypes ==
    ASSUME ChatIInv, NEW c \in Chats, ChatStep(c)
    PROVE  ChatTypeOK'
<1>1. ChatTypeOK /\ IInv
  BY DEF ChatIInv
<1>2. TypeOK'
  BY <1>1, ChatMoves, SameStore DEF IInv
<1>3. \A t \in Tenants : CacheVersion(t) \in Nat
  BY <1>1 DEF CacheVersion, IInv, TypeOK
<1>4. \A t : Retrievable(t) \in SUBSET DocIds
  BY <1>1 DEF Retrievable, IInv, TypeOK, Point
<1>5. /\ cpc' \in [Chats -> {"idle", "lookup", "retrieve", "store", "cached", "ended"}]
      /\ asker' \in [Chats -> Tenants \cup {None}]
  BY <1>1, SMTT(30) DEF ChatTypeOK, ChatStep, ChatGoto, StartChat, StartChatVersionUnread, LookupHit,
     LookupMiss, LookupFails, Retrieve, Store, EndUnstored
<1>6. cver' \in [Chats -> Nat]
  <2>1. cver' = cver \/ \E n \in Nat : cver' = [cver EXCEPT ![c] = n]
    BY <1>3, SMTT(30) DEF ChatStep, StartChat, StartChatVersionUnread, LookupHit, LookupMiss,
       LookupFails, Retrieve, Store, EndUnstored
  <2>2. QED
    BY <1>1, <2>1 DEF ChatTypeOK
<1>7. source' \in [Chats -> SUBSET DocIds]
  <2>1. \A a \in Hits(c) : a.docs \in SUBSET DocIds
    BY <1>1 DEF Hits, ChatTypeOK, Answer
  <2>2. QED
    BY <1>1, <1>4, <2>1, SMTT(30) DEF ChatTypeOK, ChatStep, StartChat, StartChatVersionUnread, LookupHit,
       LookupMiss, LookupFails, Retrieve, Store, EndUnstored
<1>8. cache' \subseteq Answer
  <2>1. CASE Store(c)
    <3>1. asker[c] \in Tenants
      BY <1>1, <2>1 DEF ChatIInv, Epochs, Store, ChatGoto
    <3>2. Pending(c) \in Answer
      BY <1>1, <3>1 DEF Pending, Answer, ChatTypeOK
    <3>3. QED
      BY <1>1, <2>1, <3>2 DEF Store, Pending, ChatTypeOK
  <2>2. CASE ~Store(c)
    <3>1. cache' = cache
      BY <2>2 DEF ChatStep, StartChat, StartChatVersionUnread, LookupHit, LookupMiss,
         LookupFails, Retrieve, EndUnstored
    <3>2. QED
      BY <1>1, <3>1 DEF ChatTypeOK
  <2>3. QED
    BY <2>1, <2>2
<1>9. owed' \in [Chats -> [retired : SUBSET DocIds, current : SUBSET DocIds]]
  <2>1. owed' = owed \/ \E t \in Tenants : owed' = [owed EXCEPT ![c] = Owed(t)]
    BY SMTT(30) DEF ChatStep, StartChat, StartChatVersionUnread, LookupHit, LookupMiss,
       LookupFails, Retrieve, Store, EndUnstored
  <2>2. \A t : Owed(t) \in [retired : SUBSET DocIds, current : SUBSET DocIds]
    BY OwedType
  <2>3. QED
    BY <1>1, <2>1, <2>2 DEF ChatTypeOK
<1>10. QED
  BY <1>2, <1>5, <1>6, <1>7, <1>8, <1>9 DEF ChatTypeOK

LEMMA ChatStepEpochs ==
    ASSUME ChatIInv, NEW c \in Chats, ChatStep(c)
    PROVE  Epochs' /\ Settlement'
<1>1. ChatTypeOK /\ IInv /\ Epochs /\ Settlement
  BY DEF ChatIInv
<1>2. /\ \A x \in Chats \ {c} : /\ cpc'[x] = cpc[x] /\ asker'[x] = asker[x] /\ cver'[x] = cver[x]
                                /\ source'[x] = source[x] /\ owed'[x] = owed[x]
      /\ UNCHANGED vars
      /\ Begins(c) \/ Served(c) \/ Retrieves(c) \/ MovesOn(c)
  BY <1>1, ChatMoves
<1>3. tenantVer' = tenantVer /\ pc' = pc /\ \A t : Retrievable(t)' = Retrievable(t)
  BY <1>1, <1>2, SameStore DEF vars
<1>4. CASE Begins(c)
  <2>1. PICK t \in Tenants : /\ asker'[c] = t /\ owed'[c] = Owed(t)
                             /\ cver'[c] = 1 \/ cver'[c] = CacheVersion(t)
    BY <1>4 DEF Begins
  <2>2. cver'[c] >= 2 => cver'[c] <= tenantVer[t]
    <3> DEFINE v == tenantVer[t]
               n == cver'[c]
    <3>1. v \in Nat /\ (n = 1 \/ n = IF v = 0 THEN 1 ELSE v)
      BY <1>1, <2>1 DEF CacheVersion, IInv, TypeOK
    <3> HIDE DEF v, n
    <3>2. n >= 2 => n <= v
      BY <3>1
    <3>3. QED
      BY <3>2 DEF v, n
  <2>3. Answers' \subseteq Answers
    BY <1>4 DEF Begins
  <2>4. Epochs'
    BY <1>1, <1>2, <1>3, <2>1, <2>2, <2>3 DEF Epochs
  <2>5. /\ \A d \in owed'[c].retired \cup owed'[c].current : pc[d] = "done"
        /\ owed'[c].retired \cap Retrievable(t) = {}
    BY <2>1, OwedType
  <2>6. \A x \in Chats : Retrievable(asker[x])' = Retrievable(asker'[x])
    BY <1>2 DEF Retrievable, vars
  <2>7. Settlement'
    BY <1>1, <1>2, <1>3, <2>1, <2>5, <2>6 DEF Settlement
  <2>8. QED
    BY <2>4, <2>7
<1>5. CASE ~Begins(c)
  <2>1. /\ cpc[c] # "idle" /\ asker'[c] = asker[c] /\ cver'[c] = cver[c] /\ owed'[c] = owed[c]
        /\ Answers' \subseteq Answers \cup {[tenant |-> asker[c], ver |-> cver[c],
                                             docs |-> Retrievable(asker[c])]}
    BY <1>2, <1>5 DEF Served, Retrieves, MovesOn
  <2>2. Epochs'
    BY <1>1, <1>2, <1>3, <2>1 DEF Epochs
  <2>3. \A x \in Chats : Retrievable(asker[x])' = Retrievable(asker[x])
    BY <1>2, <2>1 DEF Retrievable, vars
  <2>4. \A x \in Chats : owed'[x] = owed[x]
    BY <1>2, <2>1
  <2>5. Settlement'
    BY <1>1, <1>3, <2>3, <2>4 DEF Settlement
  <2>6. QED
    BY <2>2, <2>5
<1>6. QED
  BY <1>4, <1>5

LEMMA ChatStepFaithful ==
    ASSUME ChatIInv, NEW c \in Chats, ChatStep(c)
    PROVE  Faithful'
<1>1. ChatTypeOK /\ IInv /\ Faithful
  BY DEF ChatIInv
<1>2. UNCHANGED vars /\ (Begins(c) \/ Served(c) \/ Retrieves(c) \/ MovesOn(c))
  BY <1>1, ChatMoves
<1>3. /\ tenantVer' = tenantVer /\ pc' = pc /\ args' = args
      /\ \A t : Retrievable(t)' = Retrievable(t) /\ (NoBumpLost(t)' <=> NoBumpLost(t))
      /\ \A d : Unfinished(d)' <=> Unfinished(d)
  BY <1>1, <1>2, SameStore DEF vars
<1>4. Answers' \subseteq Answers \cup {[tenant |-> asker[c], ver |-> cver[c],
                                        docs |-> Retrievable(asker[c])]}
  BY <1>2 DEF Begins, Served, Retrieves, MovesOn
<1> SUFFICES ASSUME NEW a \in Answers', a.ver >= 2, tenantVer[a.tenant] = a.ver,
                    NoBumpLost(a.tenant), NEW d \in DocIds, pc[d] = "done",
                    args[d].tenant = a.tenant
             PROVE  /\ d \in Retrievable(a.tenant) => d \in a.docs
                    /\ d \in a.docs => d \in Retrievable(a.tenant) \/ Unfinished(d)
  BY <1>3 DEF Faithful
<1>5. CASE a \in Answers
  BY <1>1, <1>5 DEF Faithful
<1>6. CASE a = [tenant |-> asker[c], ver |-> cver[c], docs |-> Retrievable(asker[c])]
  BY <1>6
<1>7. QED
  BY <1>4, <1>5, <1>6

\* What a chat is owed when it begins is what every answer of its epoch agrees with.
LEMMA BeginAgrees ==
    ASSUME ChatIInv, NEW t \in Tenants, NEW a \in Answers, KeyOf(a) = Key(t, CacheVersion(t)),
           CacheVersion(t) >= 2
    PROVE  /\ a.docs \cap Owed(t).retired = {}
           /\ Owed(t).current \cap Retrievable(t) \subseteq a.docs
<1>1. IInv /\ Faithful
  BY DEF ChatIInv
<1>2. a.tenant = t /\ a.ver = CacheVersion(t) /\ a.ver >= 2 /\ tenantVer[t] = a.ver
  BY <1>1 DEF KeyOf, Key, CacheVersion, IInv, TypeOK
<1>3. ASSUME NEW d \in Owed(t).retired PROVE d \notin a.docs
  <2>1. /\ NoBumpLost(t) /\ d \in DocIds /\ args[d].tenant = t /\ pc[d] = "done"
        /\ ~Unfinished(d) /\ d \notin Retrievable(t)
    BY <1>3, OwedType
  <2>2. QED
    BY <1>1, <1>2, <2>1 DEF Faithful
<1>4. ASSUME NEW d \in Owed(t).current PROVE d \in a.docs
  <2>1. /\ NoBumpLost(t) /\ d \in DocIds /\ args[d].tenant = t /\ pc[d] = "done"
        /\ d \in Retrievable(t)
    BY <1>4, OwedType
  <2>2. QED
    BY <1>1, <1>2, <2>1 DEF Faithful
<1>5. QED
  BY <1>3, <1>4

LEMMA ChatStepAgrees ==
    ASSUME ChatIInv, NEW c \in Chats, ChatStep(c)
    PROVE  Agrees'
<1>1. ChatTypeOK /\ IInv /\ Agrees /\ Settlement
  BY DEF ChatIInv
<1>2. /\ \A x \in Chats \ {c} : /\ cpc'[x] = cpc[x] /\ asker'[x] = asker[x] /\ cver'[x] = cver[x]
                                /\ source'[x] = source[x] /\ owed'[x] = owed[x]
      /\ UNCHANGED vars
      /\ Begins(c) \/ Served(c) \/ Retrieves(c) \/ MovesOn(c)
  BY <1>1, ChatMoves
<1>3. \A t : Retrievable(t)' = Retrievable(t)
  BY <1>1, <1>2, SameStore
<1> SUFFICES ASSUME NEW x \in Chats, cpc'[x] = "lookup", cver'[x] >= 2,
                    NEW a \in Answers', KeyOf(a) = Key(asker'[x], cver'[x])
             PROVE  /\ a.docs \cap owed'[x].retired = {}
                    /\ owed'[x].current \cap Retrievable(asker[x])' \subseteq a.docs
  BY DEF Agrees, KeyOf, Key
<1>4. PICK t : t = asker'[x]
  OBVIOUS
<1>5. Retrievable(asker[x])' = Retrievable(t)
  BY <1>2, <1>4 DEF Retrievable, vars
<1>6. CASE x = c
  <2>1. Begins(c)
    BY <1>2, <1>6 DEF Served, Retrieves, MovesOn
  <2>2. t \in Tenants /\ owed'[x] = Owed(t) /\ (cver'[x] = 1 \/ cver'[x] = CacheVersion(t))
    BY <1>4, <1>6, <2>1 DEF Begins
  <2>3. cver'[x] = CacheVersion(t)
    BY <2>2
  <2>4. a \in Answers /\ KeyOf(a) = Key(t, CacheVersion(t)) /\ CacheVersion(t) >= 2
    BY <1>4, <2>1, <2>3 DEF Begins
  <2>5. QED
    BY <1>5, <2>2, <2>4, BeginAgrees
<1>7. CASE x # c
  <2>1. /\ cpc[x] = "lookup" /\ cver[x] >= 2 /\ owed'[x] = owed[x] /\ asker[x] = t
        /\ KeyOf(a) = Key(asker[x], cver[x])
    BY <1>2, <1>4, <1>7
  <2>2. CASE a \in Answers
    BY <1>1, <1>5, <2>1, <2>2 DEF Agrees
  <2>3. CASE a = [tenant |-> asker[c], ver |-> cver[c], docs |-> Retrievable(asker[c])]
    <3>1. a.docs = Retrievable(t)
      BY <2>1, <2>3 DEF KeyOf, Key
    <3>2. owed[x].retired \cap Retrievable(t) = {}
      BY <1>1, <2>1 DEF Settlement
    <3>3. QED
      BY <1>5, <2>1, <3>1, <3>2
  <2>4. QED
    BY <1>2, <2>2, <2>3 DEF Begins, Served, Retrieves, MovesOn
<1>8. QED
  BY <1>6, <1>7

LEMMA ChatStepFresh ==
    ASSUME ChatIInv, NEW c \in Chats, ChatStep(c)
    PROVE  FreshFromSecondEpoch'
<1>1. ChatTypeOK /\ IInv /\ Agrees /\ FreshFromSecondEpoch
  BY DEF ChatIInv
<1>2. /\ \A x \in Chats \ {c} : /\ cpc'[x] = cpc[x] /\ asker'[x] = asker[x] /\ cver'[x] = cver[x]
                                /\ source'[x] = source[x] /\ owed'[x] = owed[x]
      /\ UNCHANGED vars
      /\ Begins(c) \/ Served(c) \/ Retrieves(c) \/ MovesOn(c)
  BY <1>1, ChatMoves
<1> SUFFICES ASSUME NEW x \in Chats, cpc'[x] = "cached", cver'[x] >= 2
             PROVE  /\ source'[x] \cap owed'[x].retired = {}
                    /\ owed'[x].current \cap Retrievable(asker[x])' \subseteq source'[x]
  BY DEF FreshFromSecondEpoch, Fresh
<1>3. CASE x = c
  <2>1. Served(c)
    BY <1>2, <1>3 DEF Begins, Retrieves, MovesOn
  <2>2. PICK a \in Hits(c) : source'[c] = a.docs
    BY <2>1 DEF Served
  <2>3. /\ cpc[c] = "lookup" /\ cver[c] >= 2 /\ asker'[c] = asker[c] /\ owed'[c] = owed[c]
        /\ a \in Answers /\ KeyOf(a) = Key(asker[c], cver[c])
    BY <1>3, <2>1, <2>2 DEF Served, Hits, Answers
  <2>4. Retrievable(asker[c])' = Retrievable(asker[c])
    BY <1>2, <2>3 DEF Retrievable, vars
  <2>5. QED
    BY <1>1, <1>3, <2>2, <2>3, <2>4 DEF Agrees
<1>4. CASE x # c
  <2>1. /\ cpc[x] = "cached" /\ cver[x] >= 2 /\ owed'[x] = owed[x] /\ asker'[x] = asker[x]
        /\ source'[x] = source[x]
    BY <1>2, <1>4
  <2>2. Retrievable(asker[x])' = Retrievable(asker[x])
    BY <1>2, <2>1 DEF Retrievable, vars
  <2>3. QED
    BY <1>1, <2>1, <2>2 DEF FreshFromSecondEpoch, Fresh
<1>5. QED
  BY <1>3, <1>4

\* An answer that expires takes its obligations along.
LEMMA ExpireChatIInv ==
    ASSUME ChatIInv, NEW a \in cache, Expire(a)
    PROVE  ChatIInv'
<1>1. /\ UNCHANGED vars /\ cpc' = cpc /\ asker' = asker /\ cver' = cver /\ source' = source
      /\ owed' = owed /\ cache' \subseteq cache
  BY DEF Expire
<1>2. IInv /\ ChatTypeOK /\ Counted /\ Epochs /\ Faithful /\ Settlement /\ Agrees
      /\ FreshFromSecondEpoch
  BY DEF ChatIInv
<1>3. Answers' \subseteq Answers
  BY <1>1 DEF Answers, Pending
<1>4. IInv' /\ Counted'
  BY <1>1, <1>2, SameStore
<1>5. ChatTypeOK'
  BY <1>1, <1>2, <1>4 DEF ChatTypeOK, IInv
<1>6. Epochs'
  BY <1>1, <1>2, <1>3 DEF Epochs, vars
<1>7. /\ tenantVer' = tenantVer /\ pc' = pc /\ args' = args
      /\ \A t : Retrievable(t)' = Retrievable(t) /\ (NoBumpLost(t)' <=> NoBumpLost(t))
      /\ \A d : Unfinished(d)' <=> Unfinished(d)
  BY <1>1, <1>2, SameStore DEF vars
<1>8. Faithful'
  BY <1>2, <1>3, <1>7 DEF Faithful
<1>9. \A x : Retrievable(asker[x])' = Retrievable(asker[x])
  BY <1>1 DEF Retrievable, vars
<1>10. Settlement'
  BY <1>1, <1>2, <1>7, <1>9 DEF Settlement
<1>11. Agrees'
  BY <1>1, <1>2, <1>3, <1>9 DEF Agrees, KeyOf, Key
<1>12. FreshFromSecondEpoch'
  BY <1>1, <1>2, <1>9 DEF FreshFromSecondEpoch, Fresh
<1>13. QED
  BY <1>4, <1>5, <1>6, <1>8, <1>10, <1>11, <1>12 DEF ChatIInv

-----------------------------------------------------------------------------
LEMMA ChatInitIInv == ChatInit => ChatIInv
<1> SUFFICES ASSUME ChatInit PROVE ChatIInv
  OBVIOUS
<1>1. /\ Init /\ cpc = [c \in Chats |-> "idle"] /\ asker = [c \in Chats |-> None]
      /\ cver = [c \in Chats |-> 0] /\ source = [c \in Chats |-> {}] /\ cache = {}
      /\ owed = [c \in Chats |-> Nothing]
  BY DEF ChatInit
<1>2. IInv
  BY <1>1, InitIInv
<1>3. Nothing \in [retired : SUBSET DocIds, current : SUBSET DocIds]
  BY DEF Nothing
<1>4. ChatTypeOK
  BY <1>1, <1>2, <1>3 DEF ChatTypeOK, IInv
<1>5. Counted
  <2>1. ASSUME NEW t \in Tenants PROVE tenantVer[t] <= Cardinality(Doers(t))
    <3>1. tenantVer[t] = 0
      BY <1>1 DEF Init
    <3>2. QED
      BY <3>1, DoersFinite
  <2>2. QED
    BY <2>1 DEF Counted
<1>6. Answers = {} /\ \A c \in Chats : cpc[c] = "idle"
  BY <1>1 DEF Answers
<1>7. Settlement
  BY <1>1 DEF Settlement, Nothing
<1>8. Epochs /\ Faithful /\ Agrees /\ FreshFromSecondEpoch
  BY <1>6 DEF Epochs, Faithful, Agrees, FreshFromSecondEpoch
<1>9. QED
  BY <1>2, <1>4, <1>5, <1>7, <1>8 DEF ChatIInv

LEMMA ChatNextIInv ==
    ASSUME ChatIInv, [ChatNext]_allVars
    PROVE  ChatIInv'
<1>1. ASSUME NEW r \in Requests, RequestStep(r), UNCHANGED chatVars PROVE ChatIInv'
  BY <1>1, StoreStepChatIInv
<1>2. ASSUME NEW c \in Chats, ChatStep(c) PROVE ChatIInv'
  <2>1. IInv /\ ChatTypeOK /\ Counted /\ UNCHANGED vars
    BY <1>2, ChatMoves DEF ChatIInv
  <2>2. IInv' /\ Counted'
    BY <2>1, SameStore
  <2>3. QED
    BY <1>2, <2>2, ChatStepTypes, ChatStepEpochs, ChatStepFaithful, ChatStepAgrees, ChatStepFresh
    DEF ChatIInv
<1>3. ASSUME NEW a \in cache, Expire(a) PROVE ChatIInv'
  BY <1>3, ExpireChatIInv
<1>4. CASE UNCHANGED allVars
  <2>1. UNCHANGED <<vars, chatVars>>
    BY <1>4 DEF allVars
  <2>2. QED
    BY <2>1, SameAnswers, SameStore DEF ChatIInv, ChatTypeOK, IInv, Epochs, Faithful, Settlement,
       Agrees, FreshFromSecondEpoch, Fresh, KeyOf, Key, Retrievable, vars, chatVars
<1>5. QED
  BY <1>1, <1>2, <1>3, <1>4 DEF ChatNext, Next, RequestStep

\* Every state a knowledge base and its chats can reach satisfies the invariant.
THEOREM ChatInvariance == ChatSpec => []ChatIInv
<1>1. ChatInit => ChatIInv
  BY ChatInitIInv
<1>2. ChatIInv /\ [ChatNext]_allVars => ChatIInv'
  BY ChatNextIInv
<1>3. QED
  BY <1>1, <1>2, PTL DEF ChatSpec

\* Whatever interleaves, chats and the cache hold what their types say: the documents of an
\* answer are documents, and its tenant is one (get_cached_response, set_cached_response).
THEOREM ChatTypeCorrect == ChatSpec => []ChatTypeOK
<1>1. ChatIInv => ChatTypeOK
  BY DEF ChatIInv
<1>2. QED
  BY <1>1, ChatInvariance, PTL

\* From a tenant's second epoch on, an answer that chat_stream takes from the cache
\* reflects every write acknowledged before the chat began.
THEOREM CachedAnswersAreFresh == ChatSpec => []FreshFromSecondEpoch
<1>1. ChatIInv => FreshFromSecondEpoch
  BY DEF ChatIInv
<1>2. QED
  BY <1>1, ChatInvariance, PTL
=============================================================================
