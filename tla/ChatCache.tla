----------------------------- MODULE ChatCache -----------------------------
(***************************************************************************)
(* Chat requests on top of the knowledge base of DocumentStore: chat_stream*)
(* reads the cache epoch of its tenant, looks its answer up under a key    *)
(* that contains the epoch, and otherwise retrieves, generates and stores  *)
(* the answer under the key of the epoch it read at its start.             *)
(*                                                                         *)
(* A key also digests user, role, thread and query.  The chats of the      *)
(* model agree on those: they are repetitions of one question.  What an    *)
(* answer says is abstracted to the documents it was generated from.       *)
(***************************************************************************)
EXTENDS DocumentStore

CONSTANT Chats     \* chat requests

ASSUME ChatsAssumption == Chats \cap (Requests \cup {None}) = {}

VARIABLES
    cpc,      \* where each chat is
    asker,    \* its tenant
    cver,     \* the epoch it read
    source,   \* the documents its answer is made from
    cache,    \* cache:<scope digest>:<query digest> -> answer
    owed      \* observer: what the knowledge base had acknowledged at its start

chatVars == <<cpc, asker, cver, source, cache, owed>>
allVars == <<vars, chatVars>>

Answer == [tenant : Tenants, ver : Nat, docs : SUBSET DocIds]
Nothing == [retired |-> {}, current |-> {}]

ChatTypeOK ==
    /\ TypeOK
    /\ cpc \in [Chats -> {"idle", "lookup", "retrieve", "store",
                          "cached", "ended"}]
    /\ asker \in [Chats -> Tenants \cup {None}]
    /\ cver \in [Chats -> Nat]
    /\ source \in [Chats -> SUBSET DocIds]
    /\ cache \subseteq Answer
    /\ owed \in [Chats -> [retired : SUBSET DocIds, current : SUBSET DocIds]]

ChatInit ==
    /\ Init
    /\ cpc = [c \in Chats |-> "idle"]
    /\ asker = [c \in Chats |-> None]
    /\ cver = [c \in Chats |-> 0]
    /\ source = [c \in Chats |-> {}]
    /\ cache = {}
    /\ owed = [c \in Chats |-> Nothing]

ChatGoto(c, from, to) == cpc[c] = from /\ cpc' = [cpc EXCEPT ![c] = to]

\* get_tenant_cache_version: "int(version) if version else 1".
CacheVersion(t) == IF tenantVer[t] = 0 THEN 1 ELSE tenantVer[t]

\* build_chat_cache_key
Key(t, ver) == <<t, ver>>
KeyOf(answer) == Key(answer.tenant, answer.ver)
Hits(c) == {answer \in cache : KeyOf(answer) = Key(asker[c], cver[c])}

\* search_tenant_knowledge: the must-filter on tenant_id; any subset of the
\* tenant's documents could be the closest ones, and the model takes them all.
Retrievable(t) == {v.doc : v \in {p \in vectors : p.tenant = t}}

-----------------------------------------------------------------------------
(* What the API has told its users about the documents of a tenant, as long*)
(* as no error got in the way: a document is current once its ingestion has*)
(* answered, and retired once the request that removed it has.             *)

NoBumpLost(t) ==
    tenantVer[t] = Cardinality({r \in Requests : pc[r] = "done" /\ args[r].tenant = t})

Acknowledged(t) ==
    {d \in DocIds : /\ args[d].kind = "ingest" /\ args[d].tenant = t
                    /\ pc[d] = "done"
                    /\ \A r \in Requests : Touches(r, t, args[d].filename)
                                         => pc[r] \in {"done", "rejected", "undone"}}

Owed(t) ==
    IF NoBumpLost(t)
    THEN [retired |-> Acknowledged(t) \ Retrievable(t),
          current |-> Acknowledged(t) \cap Retrievable(t)]
    ELSE Nothing

-----------------------------------------------------------------------------
(* chat_stream.  Its Redis calls never raise: each failure has a default    *)
(* of its own, and may happen at any time.                                 *)

\* The gather of sanitization, rate limit and version read.
StartChat(c, t) ==
    /\ ChatGoto(c, "idle", "lookup")
    /\ asker' = [asker EXCEPT ![c] = t]
    /\ cver' = [cver EXCEPT ![c] = CacheVersion(t)]
    /\ owed' = [owed EXCEPT ![c] = Owed(t)]
    /\ UNCHANGED <<vars, source, cache>>

\* A version that cannot be read is taken for 1.
StartChatVersionUnread(c, t) ==
    /\ ChatGoto(c, "idle", "lookup")
    /\ asker' = [asker EXCEPT ![c] = t]
    /\ cver' = [cver EXCEPT ![c] = 1]
    /\ owed' = [owed EXCEPT ![c] = Owed(t)]
    /\ UNCHANGED <<vars, source, cache>>

\* Mutant: the entry is returned undecoded.
LookupHitEntry(c) ==
    \E answer \in Hits(c) :
        /\ ChatGoto(c, "lookup", "cached")
        /\ source' = [source EXCEPT ![c] = {answer}]
        /\ UNCHANGED <<vars, asker, cver, cache, owed>>

LookupHit(c) ==
    \E answer \in Hits(c) :
        /\ ChatGoto(c, "lookup", "cached")
        /\ source' = [source EXCEPT ![c] = answer.docs]
        /\ UNCHANGED <<vars, asker, cver, cache, owed>>

LookupMiss(c) ==
    /\ Hits(c) = {}
    /\ ChatGoto(c, "lookup", "retrieve")
    /\ UNCHANGED <<vars, asker, cver, source, cache, owed>>

\* A lookup that raises is a miss.
LookupFails(c) ==
    /\ ChatGoto(c, "lookup", "retrieve")
    /\ UNCHANGED <<vars, asker, cver, source, cache, owed>>

Retrieve(c) ==
    /\ ChatGoto(c, "retrieve", "store")
    /\ source' = [source EXCEPT ![c] = Retrievable(asker[c])]
    /\ UNCHANGED <<vars, asker, cver, cache, owed>>

\* Mutant: the epoch is read again when the answer is stored.
StoreUnderCurrentVersion(c) ==
    /\ ChatGoto(c, "store", "ended")
    /\ cache' = cache \cup {[tenant |-> asker[c], ver |-> CacheVersion(asker[c]),
                              docs |-> source[c]]}
    /\ UNCHANGED <<vars, asker, cver, source, owed>>

\* set_cached_response, at the end of the stream: SETEX overwrites.
Store(c) ==
    /\ ChatGoto(c, "store", "ended")
    /\ cache' = (cache \ Hits(c)) \cup
                {[tenant |-> asker[c], ver |-> cver[c], docs |-> source[c]]}
    /\ UNCHANGED <<vars, asker, cver, source, owed>>

\* No answer to store, or one that is lost: the client goes away, generation
\* raises or stays empty, SETEX raises.
EndUnstored(c) ==
    /\ ChatGoto(c, "retrieve", "ended") \/ ChatGoto(c, "store", "ended")
    /\ UNCHANGED <<vars, asker, cver, source, cache, owed>>

\* The hour of an entry is over.
Expire(answer) ==
    /\ answer \in cache
    /\ cache' = cache \ {answer}
    /\ UNCHANGED <<vars, cpc, asker, cver, source, owed>>

ChatStep(c) ==
    \/ \E t \in Tenants : StartChat(c, t) \/ StartChatVersionUnread(c, t)
    \/ LookupHit(c) \/ LookupMiss(c) \/ LookupFails(c)
    \/ Retrieve(c) \/ Store(c) \/ EndUnstored(c)

ChatNext ==
    \/ Next /\ UNCHANGED chatVars
    \/ \E c \in Chats : ChatStep(c)
    \/ \E answer \in cache : Expire(answer)

ChatSpec == ChatInit /\ [][ChatNext]_allVars

-----------------------------------------------------------------------------
(* Properties                                                              *)

Fresh(c) ==
    /\ source[c] \cap owed[c].retired = {}
    /\ owed[c].current \cap Retrievable(asker[c]) \subseteq source[c]

\* From the second epoch on, a cached answer reflects every ingestion, deletion
\* and clear that was acknowledged before the chat began: nothing retired, and
\* everything current (unless it was removed meanwhile).  The epoch is read before
\* the retrieval, and bumped after the last write, whatever else interleaves.
FreshFromSecondEpoch ==
    \A c \in Chats : cpc[c] = "cached" /\ cver[c] >= 2 => Fresh(c)

\* The same for every epoch ("This immediately invalidates all cached answers for
\* that tenant").
FreshAlways == \A c \in Chats : cpc[c] = "cached" => Fresh(c)
=============================================================================
