------------------------- MODULE ConversationProofs -------------------------
(***************************************************************************)
(* Proofs about Conversation: what a stream is shown belongs to its thread *)
(* and is not older than an acknowledged clear, the history consists of    *)
(* whole exchanges, and the graph rewrites a question once at most.        *)
(***************************************************************************)
EXTENDS Conversation, SequenceTheorems, TLAPS

-----------------------------------------------------------------------------
(* The inductive invariant.                                                *)

StreamAsks == [user : Users, thread : Threads, query : Queries, version : Nat]
ClearAsks == [user : Users, thread : Threads \cup {None}, query : {None}, version : {0}]

\* Streams and clears keep to their labels, and what they are about to their kind.
Shape ==
    /\ \A s \in Streams :
          /\ pc[s] \notin {"delete", "bump"}
          /\ pc[s] = "idle" => read[s] = {} /\ fence[s] = {}
          /\ pc[s] # "idle" => ask[s] \in StreamAsks
          /\ pc[s] \in Running => state[s] \in AgentState
    /\ \A c \in Clears :
          /\ pc[c] \in {"idle", "delete", "bump", "done"}
          /\ pc[c] \in {"idle", "delete"} => fence[c] = {}
          /\ pc[c] # "idle" => ask[c] \in ClearAsks

Speakers(said) == {said[i].by : i \in 1..Len(said)}
Spoken(id) == IF history[id] = None THEN {} ELSE Speakers(history[id].messages)

\* q and s are of one user and one thread.
Same(q, s) == pc[q] # "idle" /\ ask[q].user = ask[s].user /\ ask[q].thread = ask[s].thread

\* Whatever a stream reads, holds or has left behind was said in its own thread.
Scopes ==
    /\ \A s \in Streams : \A q \in read[s] : Same(q, s)
    /\ \A s \in Streams : pc[s] \in Running => \A q \in Speakers(state[s].messages) : Same(q, s)
    /\ \A id \in BackendThreads : \A q \in Spoken(id) : pc[q] # "idle" /\ ThreadOf(q) = id

\* An entry of the cache is the one its stream has stored.
Stored ==
    \A entry \in cache :
        pc[entry.by] = "done" /\ entry.key = Key(entry.by) /\ entry.saw = read[entry.by]

\* Nobody has a version from the future, but for the one that no key is read as.
Versions ==
    \A s \in Streams : pc[s] # "idle" =>
        ask[s].version = 1 \/ ask[s].version <= tenantVer[ask[s].user.tenant]

Whole(said) ==
    \A i \in 1..Len(said) : said[i].role = "user" =>
        i < Len(said) /\ said[i + 1] = [by |-> said[i].by, role |-> "assistant"]

\* A running stream holds whole exchanges and its own question, then also the answer.
Exchanges ==
    /\ WholeExchanges
    /\ \A s \in Streams :
          /\ pc[s] \in Running \ {"commit"} =>
                \E said \in Seq(Message) :
                    /\ Whole(said)
                    /\ state[s].messages = Append(said, [by |-> s, role |-> "user"])
          /\ pc[s] = "commit" => Whole(state[s].messages)

\* How rewrite_count, available_documents and the query keep the graph from a second
\* rewrite, and from the first one of a greeting.
Rewrites ==
    \A s \in Streams :
        LET plain == ask[s].query \notin Greetings \cup {"blank"}
        IN  /\ rewritten[s] <= 1 /\ (rewritten[s] > 0 => plain)
            /\ pc[s] \in {"idle", "lookup", "load", "rewrite"} => rewritten[s] = 0
            /\ pc[s] = "retrieve" =>
                  /\ state[s].rewrites = rewritten[s]
                  /\ rewritten[s] = 0 => state[s].query = ask[s].query
            /\ pc[s] = "grade" /\ state[s].available =>
                  state[s].rewrites = rewritten[s] /\ plain
            /\ pc[s] = "rewrite" => state[s].rewrites = 0 /\ plain

\* Nothing of the streams in the set of is left in a thread.
Free(of, user, thread) ==
    /\ \A q \in of : pc[q] \in {"store"} \cup Ended
    /\ Spoken(BackendThread(user, thread)) \cap of = {}
    /\ \A q \in Streams : pc[q] \in Running /\ ask[q].user = user /\ ask[q].thread = thread =>
          /\ Speakers(state[q].messages) \cap of = {}
          /\ pc[q] = "commit" => read[q] \cap of = {}

\* Nothing of them is cached under a version from the second on, or will be.
Fresh(of, user, thread, version) ==
    version >= 2 => \A q \in Streams :
        /\ pc[q] = "store" \/ \E entry \in cache : entry.by = q
        /\ ask[q].user = user /\ ask[q].thread = thread /\ ask[q].version = version
        => q \notin of /\ read[q] \cap of = {}

\* A run is finished once it has made its last checkpoint.
Unfinished ==
    \A s \in Streams :
        pc[s] \in {"idle", "lookup", "load"} \cup (Running \ {"commit"}) => s \notin ToSet(finished)

Clean ==
    /\ ClearedStaysCleared
    /\ \A s \in Streams : pc[s] # "idle" =>
          /\ Free(fence[s], ask[s].user, ask[s].thread)
          /\ Fresh(fence[s], ask[s].user, ask[s].thread, ask[s].version)
    /\ \A c \in Clears, thread \in Threads :
          pc[c] \in {"bump", "done"} /\ ask[c].thread \in {thread, None} =>
              /\ Free(fence[c], ask[c].user, thread)
              /\ pc[c] = "done" =>
                    Fresh(fence[c], ask[c].user, thread, tenantVer[ask[c].user.tenant])

IInv == TypeOK /\ Shape /\ Scopes /\ Stored /\ Versions /\ Exchanges /\ Rewrites
        /\ Unfinished /\ Clean

-----------------------------------------------------------------------------
(* Messages.                                                               *)

LEMMA SpeakersAppend ==
    ASSUME NEW said \in Seq(Message), NEW m \in Message
    PROVE  /\ Append(said, m) \in Seq(Message)
           /\ Speakers(Append(said, m)) = Speakers(said) \cup {m.by}
<1>1. /\ Append(said, m) \in Seq(Message) /\ Len(Append(said, m)) = Len(said) + 1
      /\ \A i \in 1..Len(said) : Append(said, m)[i] = said[i]
      /\ Append(said, m)[Len(said) + 1] = m
  BY AppendProperties
<1>2. Len(said) \in Nat
  BY LenProperties
<1>3. 1..(Len(said) + 1) = 1..Len(said) \cup {Len(said) + 1}
  BY <1>2
<1>4. QED
  BY <1>1, <1>2, <1>3 DEF Speakers

LEMMA NobodySpoke == Speakers(<<>>) = {}
BY DEF Speakers

\* The last messages of a thread are of those who spoke in it.
LEMMA RecentSpeakers ==
    ASSUME NEW said \in Seq(Message)
    PROVE  LET recent == SubSeq(said, IF Len(said) > 4 THEN Len(said) - 3 ELSE 1, Len(said))
           IN  {message.by : message \in ToSet(recent)} \subseteq Speakers(said)
<1> DEFINE n == Len(said)
           first == IF n > 4 THEN n - 3 ELSE 1
           recent == SubSeq(said, first, n)
<1>1. n \in Nat /\ DOMAIN said = 1..n
  BY LenProperties
<1> HIDE DEF n
<1>2. first \in Nat \ {0}
  BY <1>1
<1> HIDE DEF first
<1>3. \A i \in first..n : said[i] \in Message
  BY <1>1, <1>2, ElementOfSeq DEF n
<1>4. /\ recent \in Seq(Message)
      /\ Len(recent) = IF first <= n THEN n - first + 1 ELSE 0
      /\ \A i \in 1..(n - first + 1) : recent[i] = said[first + i - 1]
  BY <1>1, <1>2, <1>3, SubSeqProperties
<1>5. ASSUME NEW i \in DOMAIN recent PROVE recent[i].by \in Speakers(said)
  <2>1. i \in 1..Len(recent)
    BY <1>4, <1>5, LenProperties
  <2>2. first <= n /\ i \in 1..(n - first + 1)
    BY <1>4, <2>1
  <2>3. first + i - 1 \in 1..n
    BY <1>1, <1>2, <2>2
  <2>4. recent[i] = said[first + i - 1]
    BY <1>4, <2>2
  <2>5. QED
    BY <2>3, <2>4 DEF Speakers, n
<1>6. QED
  BY <1>5 DEF ToSet, first, n

\* An exchange that is added to whole exchanges leaves them whole.
LEMMA WholeAppend ==
    ASSUME NEW said \in Seq(Message), Whole(said), NEW s \in Streams
    PROVE  Whole(Append(Append(said, [by |-> s, role |-> "user"]),
                        [by |-> s, role |-> "assistant"]))
<1> DEFINE question == [by |-> s, role |-> "user"]
           answer == [by |-> s, role |-> "assistant"]
           asked == Append(said, question)
           whole == Append(asked, answer)
<1>1. question \in Message /\ answer \in Message
  BY DEF Message
<1>2. /\ asked \in Seq(Message) /\ Len(asked) = Len(said) + 1
      /\ \A i \in 1..Len(said) : asked[i] = said[i]
      /\ asked[Len(said) + 1] = question
  BY <1>1, AppendProperties
<1>3. /\ Len(whole) = Len(asked) + 1
      /\ \A i \in 1..Len(asked) : whole[i] = asked[i]
      /\ whole[Len(asked) + 1] = answer
  BY <1>1, <1>2, AppendProperties
<1>4. Len(said) \in Nat
  BY LenProperties
<1>5. question.by = s /\ question.role = "user" /\ answer.role = "assistant"
  OBVIOUS
<1> HIDE DEF asked, whole, question
<1>6. SUFFICES ASSUME NEW i \in 1..Len(whole), whole[i].role = "user"
               PROVE  i < Len(whole) /\ whole[i + 1] = [by |-> whole[i].by, role |-> "assistant"]
  BY DEF Whole, whole, asked, question
<1>7. CASE i \in 1..Len(said)
  <2>1. whole[i] = said[i] /\ i < Len(said) /\ said[i + 1] = [by |-> said[i].by, role |-> "assistant"]
    BY <1>2, <1>3, <1>4, <1>6, <1>7 DEF Whole
  <2>2. whole[i + 1] = said[i + 1] /\ i < Len(whole)
    BY <1>2, <1>3, <1>4, <1>7, <2>1
  <2>3. QED
    BY <2>1, <2>2
<1>8. CASE i = Len(said) + 1
  BY <1>2, <1>3, <1>4, <1>5, <1>8
<1>9. CASE i = Len(said) + 2
  BY <1>2, <1>3, <1>4, <1>5, <1>6, <1>9
<1>10. QED
  BY <1>2, <1>3, <1>4, <1>6, <1>7, <1>8, <1>9

LEMMA NothingIsWhole == Whole(<<>>)
BY DEF Whole

LEMMA Successor == \A n \in Nat : n + 1 \in Nat
OBVIOUS

-----------------------------------------------------------------------------
(* Types and labels.                                                       *)

LEMMA ThreadOfType ==
    ASSUME TypeOK, Shape, NEW s \in Streams, pc[s] # "idle"
    PROVE  /\ ask[s] \in StreamAsks /\ ask[s].user \in Users /\ ask[s].thread \in Threads
           /\ ask[s].query \in Queries /\ ask[s].version \in Nat
           /\ ask[s].user.tenant \in Tenants
           /\ ThreadOf(s) \in BackendThreads
BY DEF Shape, StreamAsks, Users, ThreadOf, BackendThreads

LEMMA RestoredType ==
    ASSUME TypeOK, Shape, NEW s \in Streams, pc[s] = "load"
    PROVE  /\ Restored(s) \in AgentState
           /\ Restored(s).query = ask[s].query /\ Restored(s).rewrites = 0
           /\ \E said \in Seq(Message) :
                 /\ said = IF history[ThreadOf(s)] = None THEN <<>>
                                                         ELSE history[ThreadOf(s)].messages
                 /\ Restored(s).messages = Append(said, [by |-> s, role |-> "user"])
<1> DEFINE old == history[ThreadOf(s)]
           said == IF old = None THEN <<>> ELSE old.messages
           there == IF old = None THEN FALSE ELSE old.available
<1>1. old \in Checkpoints \cup {None} /\ ask[s].query \in Queries
  BY ThreadOfType DEF TypeOK
<1>2. said \in Seq(Message) /\ there \in BOOLEAN
  BY <1>1, EmptySeq DEF Checkpoints
<1>3. [by |-> s, role |-> "user"] \in Message
  BY DEF Message
<1>4. Append(said, [by |-> s, role |-> "user"]) \in Seq(Message)
  BY <1>2, <1>3, AppendProperties
<1>5. Restored(s) = [messages |-> Append(said, [by |-> s, role |-> "user"]),
                     query |-> ask[s].query, rewrites |-> 0, context |-> FALSE,
                     available |-> there]
  BY DEF Restored
<1> HIDE DEF there, said
<1>6. Restored(s) \in AgentState
  <2>1. ask[s].query \in Queries \cup {""}
    BY <1>1
  <2>2. [messages |-> Append(said, [by |-> s, role |-> "user"]), query |-> ask[s].query,
         rewrites |-> 0, context |-> FALSE, available |-> there] \in AgentState
    BY <1>2, <1>4, <2>1 DEF AgentState
  <2>3. QED
    BY <1>5, <2>2
<1>7. /\ Restored(s).query = ask[s].query /\ Restored(s).rewrites = 0
      /\ Restored(s).messages = Append(said, [by |-> s, role |-> "user"])
  BY <1>5
<1>8. QED
  BY <1>2, <1>6, <1>7 DEF said

\* What the nodes make of a state.
LEMMA RetrievedType ==
    ASSUME TypeOK, Shape, NEW s \in Streams, pc[s] = "retrieve", NEW new \in Retrieved(s)
    PROVE  /\ new \in AgentState /\ new.messages = state[s].messages
           /\ Query(s) # "blank" => new.query = Query(s)
           /\ new.available => new.rewrites = state[s].rewrites
           /\ new.available => Query(s) \notin Greetings \cup {"blank"}
<1>1. state[s] \in AgentState /\ ask[s].query \in Queries
  BY ThreadOfType DEF Shape, Running
<1>2. Query(s) \in Queries \cup {""}
  BY <1>1 DEF Query, AgentState
<1>3. CASE Query(s) = "blank"
  <2>1. new = [state[s] EXCEPT !.context = FALSE, !.available = FALSE]
    BY <1>3 DEF Retrieved
  <2>2. QED
    BY <1>1, <1>3, <2>1 DEF AgentState
<1>4. CASE Query(s) # "blank" /\ Query(s) \in Greetings
  <2>1. new = [state[s] EXCEPT !.query = Query(s), !.rewrites = 0, !.context = FALSE,
                               !.available = FALSE]
    BY <1>4 DEF Retrieved
  <2>2. QED
    BY <1>1, <1>2, <1>4, <2>1 DEF AgentState
<1>5. CASE Query(s) # "blank" /\ Query(s) \notin Greetings
  <2>1. PICK found, listed \in BOOLEAN :
          new = [messages |-> state[s].messages, query |-> Query(s),
                 rewrites |-> state[s].rewrites, context |-> found, available |-> listed]
    BY <1>5 DEF Retrieved
  <2>2. QED
    BY <1>1, <1>2, <1>5, <2>1 DEF AgentState
<1>6. QED
  BY <1>3, <1>4, <1>5

LEMMA GeneratedType ==
    ASSUME NEW s \in Streams, NEW old \in AgentState
    PROVE  LET new == [old EXCEPT !.messages = Append(@, [by |-> s, role |-> "assistant"]),
                                  !.query = "", !.context = FALSE, !.rewrites = 0]
           IN  /\ new \in AgentState
               /\ new.messages = Append(old.messages, [by |-> s, role |-> "assistant"])
<1> DEFINE said == Append(old.messages, [by |-> s, role |-> "assistant"])
<1>1. old.messages \in Seq(Message) /\ [by |-> s, role |-> "assistant"] \in Message
  BY DEF AgentState, Message
<1>2. said \in Seq(Message)
  BY <1>1, AppendProperties
<1>3. [old EXCEPT !.messages = said, !.query = "", !.context = FALSE, !.rewrites = 0]
        \in AgentState
  <2> HIDE DEF said
  <2>1. QED
    BY <1>2 DEF AgentState
<1>4. [old EXCEPT !.messages = said, !.query = "", !.context = FALSE, !.rewrites = 0].messages
        = said
  <2> HIDE DEF said
  <2>1. QED
    BY DEF AgentState
<1>5. QED
  BY <1>3, <1>4

LEMMA CommittedType ==
    ASSUME TypeOK, Shape, NEW s \in Streams, pc[s] = "commit"
    PROVE  /\ Committed(s) \in [BackendThreads -> Checkpoints \cup {None}]
           /\ \A id \in BackendThreads \ {ThreadOf(s)} : Committed(s)[id] = history[id]
           /\ \/ Committed(s)[ThreadOf(s)] = history[ThreadOf(s)]
              \/ Committed(s)[ThreadOf(s)].messages = state[s].messages
<1>1. ThreadOf(s) \in BackendThreads /\ state[s] \in AgentState
  BY ThreadOfType DEF Shape, Running
<1>2. Checkpoint(s, state[s]) \in Checkpoints /\ Checkpoint(s, state[s]).messages = state[s].messages
  BY <1>1 DEF Checkpoint, Checkpoints, AgentState
<1>3. QED
  BY <1>1, <1>2 DEF Committed, TypeOK

\* A stream changes what is its own, and the history of its thread when it commits.
LEMMA StreamFrame ==
    ASSUME TypeOK, NEW s \in Streams, StreamStep(s)
    PROVE  /\ UNCHANGED <<rewriting, tenantVer>>
           /\ \A a \in Actors \ {s} : pc'[a] = pc[a] /\ ask'[a] = ask[a] /\ fence'[a] = fence[a]
           /\ \A q \in Streams \ {s} :
                 state'[q] = state[q] /\ read'[q] = read[q] /\ rewritten'[q] = rewritten[q]
           /\ pc[s] # "idle" => ask' = ask /\ fence' = fence
           /\ pc[s] # "store" => cache' = cache
           /\ pc[s] # "commit" => history' = history
           /\ pc[s] # "generate" => finished' = finished
           /\ pc[s] \notin {"lookup", "generate"} => read' = read
           /\ pc[s] # "rewrite" => rewritten' = rewritten
<1> USE DEF TypeOK, Goto, Actors
<1>1. CASE \E user \in Users, thread \in Threads, query \in Queries : Begin(s, user, thread, query)
  BY <1>1 DEF Begin
<1>2. CASE Hit(s) \/ Miss(s) \/ Load(s)
  BY <1>2 DEF Hit, Miss, Load
<1>3. CASE Retrieve(s) \/ Grade(s)
  BY <1>3 DEF Retrieve, Grade, NodeStep
<1>4. CASE Rewrite(s)
  BY <1>4 DEF Rewrite, NodeStep
<1>5. CASE Generate(s)
  BY <1>5 DEF Generate, NodeStep
<1>6. CASE Commit(s)
  BY <1>6 DEF Commit
<1>7. CASE Store(s) \/ EndUnstored(s)
  BY <1>7 DEF Store, EndUnstored
<1>8. CASE StreamFails(s)
  BY <1>8 DEF StreamFails
<1>9. QED
  BY <1>1, <1>2, <1>3, <1>4, <1>5, <1>6, <1>7, <1>8 DEF StreamStep

\* Where a stream goes, and with what.
LEMMA StreamMoves ==
    ASSUME TypeOK, Shape, NEW s \in Streams, StreamStep(s)
    PROVE  \/ /\ pc[s] = "idle" /\ pc'[s] = "lookup" /\ state' = state
              /\ ask'[s] \in StreamAsks
           \/ pc[s] = "lookup" /\ pc'[s] \in {"load", "done"} /\ state' = state
           \/ pc[s] = "load" /\ pc'[s] = "retrieve" /\ state'[s] = Restored(s)
           \/ pc[s] = "retrieve" /\ pc'[s] = "grade" /\ state'[s] \in Retrieved(s)
           \/ pc[s] = "grade" /\ pc'[s] \in {"generate", "rewrite"} /\ state'[s] = state[s]
           \/ /\ pc[s] = "rewrite" /\ pc'[s] = "retrieve" /\ state'[s] \in AgentState
              /\ state'[s].messages = state[s].messages
              /\ state'[s].rewrites = state[s].rewrites + 1
              /\ rewritten'[s] = rewritten[s] + 1
           \/ /\ pc[s] = "generate" /\ pc'[s] = "commit" /\ state'[s] \in AgentState
              /\ state'[s].messages = Append(state[s].messages, [by |-> s, role |-> "assistant"])
              /\ read'[s] \subseteq Speakers(state[s].messages)
           \/ pc[s] = "commit" /\ pc'[s] = "store" /\ history' = Committed(s)
           \/ pc[s] = "store" /\ pc'[s] = "done" /\ state' = state
           \/ /\ pc[s] \in {"lookup", "load"} \cup Running /\ pc'[s] = "failed"
              /\ read' = read /\ rewritten' = rewritten
              /\ history' \in {history, Committed(s)}
<1> USE DEF TypeOK, Goto
<1>0. s \in Actors
  BY DEF Actors
<1>1. ASSUME NEW user \in Users, NEW thread \in Threads, NEW query \in Queries,
             Begin(s, user, thread, query)
      PROVE  pc[s] = "idle" /\ pc'[s] = "lookup" /\ state' = state /\ ask'[s] \in StreamAsks
  <2> DEFINE about(version) == [user |-> user, thread |-> thread, query |-> query,
                                version |-> version]
  <2>1. CacheVersion(user.tenant) \in Nat /\ 1 \in Nat
    BY DEF Users, CacheVersion
  <2>2. \A version \in Nat : about(version) \in StreamAsks
    BY DEF StreamAsks
  <2>3. \/ ask' = [ask EXCEPT ![s] = about(CacheVersion(user.tenant))]
        \/ ask' = [ask EXCEPT ![s] = about(1)]
    BY <1>1 DEF Begin
  <2> HIDE DEF about
  <2>4. ask'[s] \in StreamAsks
    BY <1>0, <2>1, <2>2, <2>3
  <2>5. QED
    BY <1>0, <1>1, <2>4 DEF Begin
<1>2. CASE Hit(s) \/ Miss(s)
  BY <1>0, <1>2 DEF Hit, Miss
<1>3. CASE Load(s)
  BY <1>0, <1>3 DEF Load
<1>4. CASE Retrieve(s)
  BY <1>0, <1>4 DEF Retrieve, NodeStep
<1>5. CASE Grade(s)
  BY <1>0, <1>5 DEF Grade, NodeStep, Decide
<1>6. CASE Rewrite(s)
  <2>1. PICK query \in (Queries \ {"blank"}) \cup {""} :
          NodeStep(s, "rewrite", "retrieve", [state[s] EXCEPT !.query = query, !.rewrites = @ + 1])
    BY <1>6 DEF Rewrite
  <2>2. state[s] \in AgentState
    BY <2>1 DEF NodeStep, Shape, Running
  <2> DEFINE new == [state[s] EXCEPT !.query = query, !.rewrites = @ + 1]
  <2>3. new \in AgentState /\ new.messages = state[s].messages /\ new.rewrites = state[s].rewrites + 1
    <3>1. query \in Queries \cup {""}
      BY <2>1
    <3>2. state[s].rewrites \in Nat
      BY <2>2 DEF AgentState
    <3>3. state[s].rewrites + 1 \in Nat
      BY <3>2, Successor, Zenon
    <3>4. QED
      BY <2>2, <3>1, <3>3 DEF AgentState
  <2>4. state'[s] = new
    BY <2>1 DEF NodeStep
  <2> HIDE DEF new
  <2>5. QED
    BY <1>0, <1>6, <2>1, <2>3, <2>4, ZenonT(60) DEF NodeStep, Rewrite
<1>7. CASE Generate(s)
  <2>1. state[s] \in AgentState /\ state[s].messages \in Seq(Message)
    BY <1>7 DEF Generate, Shape, Running, AgentState
  <2> DEFINE said == state[s].messages
             recent == SubSeq(said, IF Len(said) > 4 THEN Len(said) - 3 ELSE 1, Len(said))
             new == [state[s] EXCEPT !.messages = Append(@, [by |-> s, role |-> "assistant"]),
                                     !.query = "", !.context = FALSE, !.rewrites = 0]
  <2>2. new \in AgentState /\ new.messages = Append(said, [by |-> s, role |-> "assistant"])
    BY <2>1, GeneratedType
  <2>3. {message.by : message \in ToSet(recent)} \subseteq Speakers(said)
    BY <2>1, RecentSpeakers
  <2>4. /\ NodeStep(s, "generate", "commit", new)
        /\ read' = [read EXCEPT ![s] = {message.by : message \in ToSet(recent)}]
    BY <1>7 DEF Generate
  <2> HIDE DEF new, recent
  <2>5. state'[s] = new /\ read'[s] = {message.by : message \in ToSet(recent)}
    BY <2>4 DEF NodeStep
  <2>6. QED
    BY <1>0, <2>2, <2>3, <2>4, <2>5 DEF NodeStep
<1>8. CASE Commit(s)
  BY <1>0, <1>8 DEF Commit
<1>9. CASE Store(s) \/ EndUnstored(s)
  BY <1>0, <1>9 DEF Store, EndUnstored
<1>10. CASE StreamFails(s)
  BY <1>0, <1>10 DEF StreamFails
<1>11. QED
  BY <1>1, <1>2, <1>3, <1>4, <1>5, <1>6, <1>7, <1>8, <1>9, <1>10 DEF StreamStep

\* What a clear does to threads, versions and its fence.
LEMMA ClearMoves ==
    ASSUME TypeOK, Shape, NEW c \in Clears, ClearStep(c)
    PROVE  /\ UNCHANGED <<rewriting, finished, cache, state, read, rewritten>>
           /\ \A a \in Actors \ {c} : pc'[a] = pc[a] /\ ask'[a] = ask[a] /\ fence'[a] = fence[a]
           /\ \/ /\ pc[c] = "idle" /\ pc'[c] = "delete" /\ UNCHANGED <<tenantVer, history, fence>>
                 /\ ask'[c] \in ClearAsks
              \/ /\ pc[c] = "delete" /\ pc'[c] = "bump" /\ UNCHANGED <<tenantVer, ask>>
                 /\ \A id \in BackendThreads : history'[id] \in {None, history[id]}
                 /\ fence'[c] # {} =>
                       /\ fence'[c] \subseteq Streams
                       /\ \A q \in fence'[c] : pc[q] \in {"store"} \cup Ended
                       /\ \A id \in Covered(c) : history'[id] = None
                       /\ \A q \in Streams : pc[q] \in Running => ThreadOf(q) \notin Covered(c)
              \/ /\ pc[c] = "bump" /\ pc'[c] = "done" /\ UNCHANGED <<ask, history>>
                 /\ \/ tenantVer' = [tenantVer EXCEPT ![ask[c].user.tenant] = @ + 1]
                    \/ tenantVer' = tenantVer /\ fence'[c] = {}
                 /\ fence' = fence \/ fence'[c] = {}
<1> USE DEF TypeOK, Goto, After, Bumped
<1>0. c \in Actors /\ pc[c] \in {"idle", "delete", "bump", "done"}
  BY DEF Actors, Shape
<1>1. CASE \E user \in Users, thread \in Threads \cup {None} : BeginClear(c, user, thread)
  <2>1. PICK user \in Users, thread \in Threads \cup {None} : BeginClear(c, user, thread)
    BY <1>1
  <2> DEFINE about == [user |-> user, thread |-> thread, query |-> None, version |-> 0]
  <2>2. about \in ClearAsks
    BY DEF ClearAsks
  <2>3. ask' = [ask EXCEPT ![c] = about]
    BY <2>1 DEF BeginClear
  <2> HIDE DEF about
  <2>4. ask'[c] \in ClearAsks
    BY <1>0, <2>2, <2>3
  <2>5. /\ UNCHANGED <<rewriting, tenantVer, history, finished, cache, state, read, rewritten, fence>>
        /\ pc[c] = "idle" /\ pc' = [pc EXCEPT ![c] = "delete"]
    BY <2>1 DEF BeginClear
  <2>6. QED
    BY <1>0, <2>3, <2>4, <2>5
<1>2. CASE DeleteHistory(c)
  <2> DEFINE loaded == {s \in Streams : /\ pc[s] \in Running \cup {"store"} \cup Ended
                                        /\ ThreadOf(s) \in Covered(c)}
  <2>1. /\ pc[c] = "delete" /\ pc' = [pc EXCEPT ![c] = "bump"]
        /\ UNCHANGED <<rewriting, tenantVer, finished, cache, ask, state, read, rewritten>>
        /\ history' = [id \in BackendThreads |-> IF id \in Covered(c) THEN None ELSE history[id]]
        /\ fence' = [fence EXCEPT ![c] =
                        IF \E s \in loaded : pc[s] \in Running THEN {} ELSE loaded]
    BY <1>2 DEF DeleteHistory
  <2>2. \A id \in Covered(c) : id \in BackendThreads => history'[id] = None
    BY <2>1
  <2>3. fence'[c] # {} => fence'[c] = loaded /\ \A s \in loaded : pc[s] \notin Running
    BY <1>0, <2>1
  <2>4. \A q \in Streams : pc[q] \in Running /\ ThreadOf(q) \in Covered(c) => q \in loaded
    OBVIOUS
  <2>5. \A id \in BackendThreads : history'[id] \in {None, history[id]}
    BY <2>1
  <2>6. Covered(c) \subseteq BackendThreads
    <3>1. ask[c].user \in Users
      BY <2>1 DEF Shape, ClearAsks
    <3>2. QED
      BY <3>1 DEF Covered, BackendThreads
  <2>7. \A q \in loaded : q \in Streams /\ pc[q] \in Running \cup {"store"} \cup Ended
    OBVIOUS
  <2> HIDE DEF loaded
  <2>8. fence'[c] # {} =>
          /\ fence'[c] \subseteq Streams
          /\ \A q \in fence'[c] : pc[q] \in {"store"} \cup Ended
          /\ \A id \in Covered(c) : history'[id] = None
          /\ \A q \in Streams : pc[q] \in Running => ThreadOf(q) \notin Covered(c)
    BY <2>2, <2>3, <2>4, <2>6, <2>7
  <2>9. \A a \in Actors \ {c} : pc'[a] = pc[a] /\ ask'[a] = ask[a] /\ fence'[a] = fence[a]
    BY <2>1
  <2>10. QED
    BY <1>0, <2>1, <2>5, <2>8, <2>9
<1>3. CASE DeleteHistoryFails(c)
  <2>1. pc[c] = "delete" /\ fence[c] = {}
    BY <1>3 DEF DeleteHistoryFails, Shape
  <2>2. \A id \in BackendThreads : history'[id] \in {None, history[id]}
    BY <1>3 DEF DeleteHistoryFails
  <2>3. QED
    BY <1>0, <1>3, <2>1, <2>2 DEF DeleteHistoryFails
<1>4. CASE Bump(c)
  BY <1>0, <1>4 DEF Bump
<1>5. CASE BumpFails(c)
  BY <1>0, <1>5 DEF BumpFails
<1>6. QED
  BY <1>1, <1>2, <1>3, <1>4, <1>5 DEF ClearStep

LEMMA NextTypeOK == ASSUME IInv, [Next]_vars PROVE TypeOK'
<1>1. TypeOK /\ Shape
  BY DEF IInv
<1> USE DEF TypeOK, Goto, Labels, Running, Ended
<1>2. CASE UNCHANGED vars
  BY <1>1, <1>2 DEF vars
<1>3. ASSUME NEW s \in Streams, StreamStep(s) PROVE TypeOK'
  <2>1. s \in Actors
    BY DEF Actors
  <2>2. Fail => failures' \in 0..MaxFailures
    BY <1>1, FailuresAssumption DEF Fail
  <2>3. CASE \E user \in Users, thread \in Threads, query \in Queries : Begin(s, user, thread, query)
    <3>1. PICK user \in Users, thread \in Threads, query \in Queries : Begin(s, user, thread, query)
      BY <2>3
    <3>2. ask'[s] \in StreamAsks
      BY <1>1, <1>3, <3>1, StreamMoves DEF Begin
    <3>3. ask' \in [Actors -> Asks \cup {None}]
      <4>1. ask' = [ask EXCEPT ![s] = ask'[s]]
        BY <1>1, <2>1, <3>1 DEF Begin
      <4>2. ask'[s] \in Asks
        BY <3>2 DEF StreamAsks, Asks
      <4>3. QED
        BY <1>1, <4>1, <4>2
    <3>4. Forbidden(user, thread) \subseteq Streams
      BY <1>1 DEF Forbidden, Actors
    <3>5. QED
      BY <1>1, <2>1, <2>2, <3>1, <3>3, <3>4, ZenonT(60) DEF Begin
  <2>4. CASE Hit(s)
    BY <1>1, <2>1, <2>4 DEF Hit
  <2>5. CASE Miss(s) \/ EndUnstored(s)
    BY <1>1, <2>5 DEF Miss, EndUnstored
  <2>6. CASE Load(s)
    BY <1>1, <2>6, RestoredType DEF Load
  <2>7. CASE Retrieve(s)
    BY <1>1, <2>7, RetrievedType DEF Retrieve, NodeStep
  <2>8. CASE Grade(s)
    BY <1>1, <2>8, ZenonT(60) DEF Grade, NodeStep, Decide
  <2>9. CASE Rewrite(s)
    <3>1. state'[s] \in AgentState /\ pc[s] = "rewrite"
      BY <1>1, <1>3, <2>9, StreamMoves, ZenonT(60) DEF Rewrite, NodeStep
    <3>2. state' \in [Streams -> AgentState \cup {None}]
      <4>1. state' = [state EXCEPT ![s] = state'[s]]
        BY <1>1, <2>9 DEF Rewrite, NodeStep
      <4>2. QED
        BY <1>1, <3>1, <4>1
    <3>3. rewritten' \in [Streams -> Nat]
      <4>1. rewritten' = [rewritten EXCEPT ![s] = rewritten[s] + 1]
        BY <2>9 DEF Rewrite
      <4>2. rewritten \in [Streams -> Nat]
        BY <1>1
      <4>3. rewritten[s] + 1 \in Nat
        BY <4>2, Successor, Zenon
      <4>4. QED
        BY <4>1, <4>2, <4>3, Zenon
    <3>4. /\ pc' \in [Actors -> Labels]
          /\ UNCHANGED <<rewriting, tenantVer, history, cache, ask, fence, failures, finished, read>>
      BY <1>1, <2>9 DEF Rewrite, NodeStep
    <3>5. QED
      BY <1>1, <3>2, <3>3, <3>4
  <2>10. CASE Generate(s)
    <3>1. state'[s] \in AgentState /\ pc[s] = "generate" /\ read'[s] \subseteq Speakers(state[s].messages)
      <4>1. pc[s] = "generate" /\ pc'[s] = "commit"
        BY <1>1, <2>1, <2>10 DEF Generate, NodeStep
      <4> HIDE DEF TypeOK
      <4>2. QED
        BY <1>1, <1>3, <4>1, StreamMoves
    <3>2. state' \in [Streams -> AgentState \cup {None}]
      <4>1. state' = [state EXCEPT ![s] = state'[s]]
        BY <1>1, <2>10 DEF Generate, NodeStep
      <4>2. QED
        BY <1>1, <3>1, <4>1
    <3>3. Speakers(state[s].messages) \subseteq Streams
      <4>1. state[s].messages \in Seq(Message)
        BY <1>1, <3>1 DEF Shape, AgentState
      <4>2. \A i \in 1..Len(state[s].messages) : state[s].messages[i] \in Message
        BY <4>1, ElementOfSeq
      <4>3. QED
        BY <4>2 DEF Speakers, Message
    <3>4. read' \in [Streams -> SUBSET Streams]
      <4>1. read' = [read EXCEPT ![s] = read'[s]]
        BY <1>1, <2>10 DEF Generate
      <4>2. QED
        BY <1>1, <3>1, <3>3, <4>1
    <3>5. finished' \in Seq(Streams)
      BY <1>1, <2>10, AppendProperties DEF Generate
    <3>6. QED
      BY <1>1, <2>10, <3>2, <3>4, <3>5 DEF Generate, NodeStep
  <2>11. CASE Commit(s)
    BY <1>1, <2>11, CommittedType DEF Commit
  <2>12. CASE Store(s)
    <3>1. \A entry \in cache' : entry.by \in Streams /\ entry.saw \subseteq Streams
      BY <1>1, <2>12 DEF Store
    <3>2. UNCHANGED <<rewriting, tenantVer, history, finished, ask, state, read, rewritten,
                      fence, failures>> /\ pc' \in [Actors -> Labels]
      BY <1>1, <2>12 DEF Store
    <3>3. QED
      BY <1>1, <3>1, <3>2
  <2>13. CASE StreamFails(s)
    BY <1>1, <2>2, <2>13, CommittedType DEF StreamFails
  <2>14. QED
    BY <1>3, <2>3, <2>4, <2>5, <2>6, <2>7, <2>8, <2>9, <2>10, <2>11, <2>12, <2>13 DEF StreamStep
<1>4. ASSUME NEW c \in Clears, ClearStep(c) PROVE TypeOK'
  <2>1. c \in Actors
    BY DEF Actors
  <2>2. failures' \in 0..MaxFailures
    BY <1>1, <1>4, FailuresAssumption
    DEF ClearStep, BeginClear, DeleteHistory, DeleteHistoryFails, Bump, BumpFails, Bumped, Fail
  <2>3. pc' \in [Actors -> Labels] /\ fence' \in [Actors -> SUBSET Streams]
    BY <1>1, <1>4, ZenonT(60) DEF ClearStep, BeginClear, DeleteHistory, DeleteHistoryFails, Bump, BumpFails, Bumped, After
  <2>4. history' \in [BackendThreads -> Checkpoints \cup {None}]
    BY <1>1, <1>4 DEF ClearStep, BeginClear, DeleteHistory, DeleteHistoryFails, Bump, BumpFails, Bumped
  <2>5. tenantVer' \in [Tenants -> Nat]
    <3>1. tenantVer' = tenantVer \/ tenantVer' = [tenantVer EXCEPT ![ask[c].user.tenant] = @ + 1]
      BY <1>4 DEF ClearStep, BeginClear, DeleteHistory, DeleteHistoryFails, Bump, BumpFails, Bumped
    <3>2. QED
      BY <1>1, <3>1
  <2>6. ask' \in [Actors -> Asks \cup {None}]
    <3>1. ask' = ask \/ (ask' = [ask EXCEPT ![c] = ask'[c]] /\ ask'[c] \in ClearAsks)
      <4>1. ask' = ask \/ ask' = [ask EXCEPT ![c] = ask'[c]]
        BY <1>1, <1>4, <2>1
        DEF ClearStep, BeginClear, DeleteHistory, DeleteHistoryFails, Bump, BumpFails, Bumped
      <4>2. ask' = ask \/ ask'[c] \in ClearAsks
        BY <1>1, <1>4, ClearMoves
      <4>3. QED
        BY <4>1, <4>2
    <3>2. ClearAsks \subseteq Asks
      BY DEF ClearAsks, Asks
    <3>3. QED
      BY <1>1, <3>1, <3>2
  <2>7. QED
    BY <1>1, <1>4, <2>2, <2>3, <2>4, <2>5, <2>6, ClearMoves
<1>5. QED
  BY <1>2, <1>3, <1>4 DEF Next

\* A stream that has begun stays what it is.
LEMMA AskStays ==
    ASSUME TypeOK, Shape, [Next]_vars, NEW q \in Streams, pc[q] # "idle"
    PROVE  pc'[q] # "idle" /\ ask'[q] = ask[q] /\ ThreadOf(q)' = ThreadOf(q)
<1>0. q \in Actors /\ q \notin Clears
  BY ActorsAssumption DEF Actors
<1>1. CASE UNCHANGED vars
  BY <1>1 DEF vars, ThreadOf
<1>2. ASSUME NEW s \in Streams, StreamStep(s)
      PROVE  pc'[q] # "idle" /\ ask'[q] = ask[q]
  <2>1. CASE q # s
    BY <1>0, <1>2, <2>1, StreamFrame
  <2>2. CASE q = s
    <3>1. ask' = ask
      BY <1>2, <2>2, StreamFrame
    <3>2. pc'[s] # "idle"
      BY <1>2, StreamMoves
    <3>3. QED
      BY <2>2, <3>1, <3>2
  <2>3. QED
    BY <2>1, <2>2
<1>3. ASSUME NEW c \in Clears, ClearStep(c)
      PROVE  pc'[q] # "idle" /\ ask'[q] = ask[q]
  BY <1>0, <1>3, ClearMoves
<1>4. QED
  BY <1>1, <1>2, <1>3 DEF Next, ThreadOf

LEMMA NextShape == ASSUME IInv, [Next]_vars PROVE Shape'
<1>1. TypeOK /\ Shape
  BY DEF IInv
<1>2. CASE UNCHANGED vars
  BY <1>1, <1>2 DEF vars, Shape
<1>3. ASSUME NEW s \in Streams, StreamStep(s) PROVE Shape'
  <2>1. \A q \in Streams \ {s} :
          pc'[q] = pc[q] /\ ask'[q] = ask[q] /\ fence'[q] = fence[q] /\ state'[q] = state[q]
          /\ read'[q] = read[q]
    BY <1>1, <1>3, StreamFrame DEF Actors
  <2>2. \A c \in Clears : pc'[c] = pc[c] /\ ask'[c] = ask[c] /\ fence'[c] = fence[c]
    BY <1>1, <1>3, StreamFrame, ActorsAssumption DEF Actors
  <2>3. pc'[s] \notin {"delete", "bump", "idle"}
    BY <1>1, <1>3, StreamMoves
  <2>4. ask'[s] \in StreamAsks
    <3>1. CASE pc[s] = "idle"
      BY <1>1, <1>3, <3>1, StreamMoves DEF Running
    <3>2. CASE pc[s] # "idle"
      BY <1>1, <1>3, <3>2, StreamFrame DEF Shape
    <3>3. QED
      BY <3>1, <3>2
  <2>5. ASSUME pc'[s] \in Running PROVE state'[s] \in AgentState
    <3>1. CASE pc[s] = "load"
      BY <1>1, <1>3, <2>5, <3>1, StreamMoves, RestoredType DEF Running
    <3>2. CASE pc[s] = "retrieve"
      BY <1>1, <1>3, <2>5, <3>2, StreamMoves, RetrievedType DEF Running
    <3>3. CASE pc[s] = "grade"
      BY <1>1, <1>3, <2>5, <3>3, StreamMoves DEF Running, Shape
    <3>4. CASE pc[s] \notin {"load", "retrieve", "grade"}
      BY <1>1, <1>3, <2>5, <3>4, StreamMoves DEF Running
    <3>5. QED
      BY <3>1, <3>2, <3>3, <3>4
  <2>6. QED
    BY <1>1, <2>1, <2>2, <2>3, <2>4, <2>5 DEF Shape
<1>4. ASSUME NEW c \in Clears, ClearStep(c) PROVE Shape'
  <2>1. /\ state' = state /\ read' = read
        /\ \A q \in Streams : pc'[q] = pc[q] /\ ask'[q] = ask[q] /\ fence'[q] = fence[q]
    BY <1>1, <1>4, ClearMoves, ActorsAssumption DEF Actors
  <2>2. \A d \in Clears \ {c} : pc'[d] = pc[d] /\ ask'[d] = ask[d] /\ fence'[d] = fence[d]
    BY <1>1, <1>4, ClearMoves DEF Actors
  <2>3. /\ pc'[c] \in {"delete", "bump", "done"}
        /\ pc'[c] = "delete" => fence'[c] = {}
        /\ ask'[c] \in ClearAsks
    BY <1>1, <1>4, ClearMoves DEF Shape
  <2>4. QED
    BY <1>1, <2>1, <2>2, <2>3 DEF Shape
<1>5. QED
  BY <1>2, <1>3, <1>4 DEF Next

-----------------------------------------------------------------------------
(* Where messages and answers go.                                          *)

LEMMA BackendThreadInjective ==
    ASSUME NEW u \in Users, NEW v \in Users, NEW th \in Threads, NEW other \in Threads,
           BackendThread(u, th) = BackendThread(v, other)
    PROVE  u = v /\ th = other
BY DEF BackendThread, Users

\* A read thread is the same, one that is cleared, or one that a stream commits.
LEMMA HistoryMoves ==
    ASSUME TypeOK, Shape, [Next]_vars, NEW id \in BackendThreads
    PROVE  \/ history'[id] \in {None, history[id]}
           \/ \E s \in Streams :
                 /\ pc[s] = "commit" /\ id = ThreadOf(s)
                 /\ history'[id].messages = state[s].messages
<1>1. CASE UNCHANGED vars
  BY <1>1 DEF vars
<1>2. ASSUME NEW s \in Streams, StreamStep(s), pc[s] # "commit" PROVE history' = history
  BY <1>2, StreamFrame
<1>3. ASSUME NEW s \in Streams, StreamStep(s), pc[s] = "commit"
      PROVE  history' = history \/ history' = Committed(s)
  BY <1>3, StreamMoves DEF Running
<1>4. ASSUME NEW s \in Streams, pc[s] = "commit", history' = Committed(s)
      PROVE  \/ history'[id] = history[id]
             \/ id = ThreadOf(s) /\ history'[id].messages = state[s].messages
  BY <1>4, CommittedType
<1>5. ASSUME NEW c \in Clears, ClearStep(c) PROVE history'[id] \in {None, history[id]}
  BY <1>5, ClearMoves
<1>6. QED
  BY <1>1, <1>2, <1>3, <1>4, <1>5 DEF Next

\* The messages of a running stream are the thread's, and its own.
LEMMA Carried ==
    ASSUME TypeOK, Shape, NEW s \in Streams, StreamStep(s), pc'[s] \in Running
    PROVE  \/ /\ pc[s] = "load" /\ pc'[s] = "retrieve"
              /\ Speakers(state'[s].messages) = Spoken(ThreadOf(s)) \cup {s}
           \/ /\ pc[s] \in Running \ {"commit"}
              /\ Speakers(state'[s].messages) \subseteq Speakers(state[s].messages) \cup {s}
<1>1. CASE pc[s] = "load"
  <2>1. state'[s] = Restored(s) /\ pc'[s] = "retrieve"
    BY <1>1, StreamMoves DEF Running
  <2>2. PICK said \in Seq(Message) :
          /\ said = IF history[ThreadOf(s)] = None THEN <<>> ELSE history[ThreadOf(s)].messages
          /\ Restored(s).messages = Append(said, [by |-> s, role |-> "user"])
    BY <1>1, RestoredType
  <2>3. [by |-> s, role |-> "user"] \in Message /\ [by |-> s, role |-> "user"].by = s
    BY DEF Message
  <2>4. Speakers(Append(said, [by |-> s, role |-> "user"])) = Speakers(said) \cup {s}
    BY <2>3, SpeakersAppend
  <2>5. Speakers(said) = Spoken(ThreadOf(s))
    BY <2>2, NobodySpoke DEF Spoken
  <2>6. QED
    BY <1>1, <2>1, <2>2, <2>4, <2>5
<1>2. CASE pc[s] = "retrieve"
  <2>1. state'[s] \in Retrieved(s)
    BY <1>2, StreamMoves DEF Running
  <2>2. state'[s].messages = state[s].messages
    BY <1>2, <2>1, RetrievedType
  <2>3. QED
    BY <1>2, <2>2 DEF Running
<1>3. CASE pc[s] = "grade" \/ pc[s] = "rewrite"
  <2>1. state'[s].messages = state[s].messages
    BY <1>3, StreamMoves DEF Running
  <2>2. QED
    BY <1>3, <2>1 DEF Running
<1>4. CASE pc[s] = "generate"
  <2>1. state'[s].messages = Append(state[s].messages, [by |-> s, role |-> "assistant"])
    BY <1>4, StreamMoves DEF Running
  <2>2. state[s].messages \in Seq(Message)
    BY <1>4 DEF Shape, Running, AgentState
  <2>3. [by |-> s, role |-> "assistant"] \in Message /\ [by |-> s, role |-> "assistant"].by = s
    BY DEF Message
  <2>4. Speakers(state'[s].messages) = Speakers(state[s].messages) \cup {s}
    BY <2>1, <2>2, <2>3, SpeakersAppend
  <2>5. QED
    BY <1>4, <2>4 DEF Running
<1>5. pc[s] \in {"load", "retrieve", "grade", "rewrite", "generate"}
  BY StreamMoves DEF Running
<1>6. QED
  BY <1>1, <1>2, <1>3, <1>4, <1>5

\* A stream is shown a cached answer with what went into it, or what it carries.
LEMMA ReadMoves ==
    ASSUME TypeOK, Shape, NEW s \in Streams, StreamStep(s)
    PROVE  \/ read' = read
           \/ /\ pc[s] = "lookup" /\ pc'[s] = "done"
              /\ \E entry \in cache :
                    entry.key = Key(s) /\ read'[s] = {entry.by} \cup entry.saw
           \/ /\ pc[s] = "generate" /\ pc'[s] = "commit"
              /\ read'[s] \subseteq Speakers(state[s].messages)
<1> USE DEF TypeOK, Goto
<1>1. CASE Hit(s)
  BY <1>1 DEF Hit, Actors
<1>2. CASE Generate(s)
  <2>1. pc[s] = "generate" /\ pc'[s] = "commit"
    BY <1>2 DEF Generate, NodeStep, Actors
  <2> HIDE DEF TypeOK, Goto
  <2>2. QED
    BY <2>1, StreamMoves
<1>3. CASE ~Hit(s) /\ ~Generate(s)
  BY <1>3 DEF StreamStep, Begin, Miss, Load, Retrieve, Grade, Rewrite, Commit, Store, EndUnstored,
              StreamFails
<1>4. QED
  BY <1>1, <1>2, <1>3

\* The cache changes when a stream stores its answer.
LEMMA CacheMoves ==
    ASSUME TypeOK, Shape, [Next]_vars, NEW entry \in cache', entry \notin cache
    PROVE  \E s \in Streams : /\ pc[s] = "store" /\ pc'[s] = "done" /\ ask' = ask /\ read' = read
                              /\ entry = [key |-> Key(s), by |-> s, saw |-> read[s]]
<1>1. CASE UNCHANGED vars
  BY <1>1 DEF vars
<1>2. ASSUME NEW s \in Streams, StreamStep(s)
      PROVE  /\ pc[s] = "store" /\ pc'[s] = "done" /\ ask' = ask /\ read' = read
             /\ entry = [key |-> Key(s), by |-> s, saw |-> read[s]]
  <2>1. CASE Store(s)
    BY <2>1 DEF Store, Goto, TypeOK, Actors
  <2>2. CASE ~Store(s)
    BY <1>2, <2>2 DEF StreamStep, Begin, Hit, Miss, Load, Retrieve, Grade, Rewrite, Generate, Commit,
                      EndUnstored, StreamFails, NodeStep
  <2>3. QED
    BY <2>1, <2>2
<1>3. ASSUME NEW c \in Clears, ClearStep(c) PROVE cache' = cache
  BY <1>3, ClearMoves
<1>4. QED
  BY <1>1, <1>2, <1>3 DEF Next

\* A stream that has ended, or has only its answer to store, has read what it has.
LEMMA ReadStays ==
    ASSUME TypeOK, Shape, [Next]_vars, NEW q \in Streams, pc[q] \in {"commit", "store"} \cup Ended
    PROVE  /\ read'[q] = read[q]
           /\ pc[q] \in {"store"} \cup Ended => pc'[q] \in {"store"} \cup Ended
           /\ pc[q] \in Ended => pc'[q] = pc[q]
<1>0. q \in Actors /\ q \notin Clears
  BY ActorsAssumption DEF Actors
<1>1. CASE UNCHANGED vars
  BY <1>1 DEF vars
<1>2. ASSUME NEW s \in Streams, StreamStep(s), s # q PROVE read'[q] = read[q] /\ pc'[q] = pc[q]
  BY <1>0, <1>2, StreamFrame
<1>3. ASSUME StreamStep(q)
      PROVE  read'[q] = read[q] /\ pc[q] \in {"commit", "store"} /\ (pc[q] = "store" => pc'[q] = "done")
  <2>1. pc[q] \notin Ended
    BY <1>3, StreamMoves DEF Running, Ended
  <2>2. read' = read
    BY <1>3, StreamFrame DEF Running, Ended
  <2>3. pc[q] = "store" => pc'[q] = "done"
    BY <1>3, StreamMoves DEF Running, Ended
  <2>4. QED
    BY <2>1, <2>2, <2>3
<1>4. ASSUME NEW c \in Clears, ClearStep(c) PROVE read'[q] = read[q] /\ pc'[q] = pc[q]
  BY <1>0, <1>4, ClearMoves
<1>5. QED
  BY <1>1, <1>2, <1>3, <1>4 DEF Next, Ended

-----------------------------------------------------------------------------
(* The conjuncts of the invariant.                                         *)

LEMMA SameStays ==
    ASSUME TypeOK, Shape, [Next]_vars, NEW q \in Streams, NEW s \in Streams, pc[s] # "idle",
           Same(q, s)
    PROVE  Same(q, s)'
BY AskStays DEF Same

LEMMA NextScopes == ASSUME IInv, [Next]_vars PROVE Scopes'
<1>1. TypeOK /\ Shape /\ Scopes /\ Stored
  BY DEF IInv
<1>2. \A s \in Streams : \A q \in read[s] : q \in Streams /\ pc[s] # "idle" /\ Same(q, s)
  BY <1>1 DEF TypeOK, Shape, Scopes
<1>3. ASSUME NEW s \in Streams, pc[s] \in Running
      PROVE  /\ state[s].messages \in Seq(Message) /\ pc[s] # "idle"
             /\ Speakers(state[s].messages) \subseteq Streams
             /\ \A q \in Speakers(state[s].messages) : Same(q, s) /\ ThreadOf(q) = ThreadOf(s)
  <2>1. state[s].messages \in Seq(Message) /\ pc[s] # "idle"
    BY <1>1, <1>3 DEF Shape, AgentState, Running
  <2>2. \A i \in 1..Len(state[s].messages) : state[s].messages[i] \in Message
    BY <2>1, ElementOfSeq
  <2>3. Speakers(state[s].messages) \subseteq Streams
    BY <2>2 DEF Speakers, Message
  <2>4. \A q \in Speakers(state[s].messages) : Same(q, s)
    BY <1>1, <1>3 DEF Scopes
  <2>5. QED
    BY <2>1, <2>3, <2>4 DEF Same, ThreadOf
<1>4. ASSUME NEW id \in BackendThreads
      PROVE  Spoken(id) \subseteq Streams
  <2>1. CASE history[id] = None
    BY <2>1 DEF Spoken
  <2>2. CASE history[id] # None
    <3>1. history[id].messages \in Seq(Message)
      BY <1>1, <2>2 DEF TypeOK, Checkpoints
    <3>2. \A i \in 1..Len(history[id].messages) : history[id].messages[i] \in Message
      BY <3>1, ElementOfSeq
    <3>3. QED
      BY <2>2, <3>2 DEF Spoken, Speakers, Message
  <2>3. QED
    BY <2>1, <2>2
<1>5. ASSUME NEW s \in Streams, NEW q \in read'[s] PROVE Same(q, s)'
  <2>1. CASE q \in read[s]
    BY <1>1, <1>2, <2>1, SameStays
  <2>2. CASE q \notin read[s]
    <3>1. StreamStep(s)
      <4>1. CASE UNCHANGED vars
        BY <1>5, <2>2, <4>1 DEF vars
      <4>2. ASSUME NEW r \in Streams, StreamStep(r), r # s PROVE FALSE
        BY <1>1, <1>5, <2>2, <4>2, StreamFrame
      <4>3. ASSUME NEW c \in Clears, ClearStep(c) PROVE FALSE
        BY <1>1, <1>5, <2>2, <4>3, ClearMoves
      <4>4. QED
        BY <4>1, <4>2, <4>3 DEF Next
    <3>2. CASE /\ pc[s] = "lookup"
               /\ \E entry \in cache :
                     entry.key = Key(s) /\ read'[s] = {entry.by} \cup entry.saw
      <4>1. PICK entry \in cache :
              entry.key = Key(s) /\ read'[s] = {entry.by} \cup entry.saw
        BY <3>2
      <4>2. /\ entry.by \in Streams /\ pc[entry.by] = "done" /\ Key(entry.by) = Key(s)
            /\ entry.saw = read[entry.by]
        BY <1>1, <4>1 DEF Stored, TypeOK
      <4>3. ask[entry.by].user = ask[s].user /\ ask[entry.by].thread = ask[s].thread
        BY <4>2 DEF Key
      <4>4. Same(entry.by, s)
        BY <4>2, <4>3 DEF Same
      <4>5. \A r \in entry.saw : r \in Streams /\ Same(r, entry.by)
        BY <1>2, <4>2
      <4>6. q \in Streams /\ Same(q, s)
        BY <1>5, <4>1, <4>2, <4>3, <4>4, <4>5 DEF Same
      <4>7. QED
        BY <1>1, <3>2, <4>6, SameStays
    <3>3. CASE pc[s] = "generate" /\ read'[s] \subseteq Speakers(state[s].messages)
      BY <1>1, <1>3, <1>5, <3>3, SameStays DEF Running
    <3>4. QED
      BY <1>1, <1>5, <2>2, <3>1, <3>2, <3>3, ReadMoves
  <2>3. QED
    BY <2>1, <2>2
<1>6. ASSUME NEW s \in Streams, pc'[s] \in Running, NEW q \in Speakers(state'[s].messages)
      PROVE  Same(q, s)'
  <2>1. CASE StreamStep(s)
    <3>1. pc[s] # "idle"
      BY <1>1, <1>6, <2>1, StreamMoves DEF Running
    <3>2. Same(s, s)
      BY <3>1 DEF Same
    <3>3. CASE /\ pc[s] = "load"
               /\ Speakers(state'[s].messages) = Spoken(ThreadOf(s)) \cup {s}
      <4>1. CASE q = s
        BY <1>1, <3>1, <3>2, <4>1, SameStays
      <4>2. CASE q \in Spoken(ThreadOf(s))
        <5>1. ThreadOf(s) \in BackendThreads
          BY <1>1, <3>1, ThreadOfType
        <5>2. q \in Streams /\ pc[q] # "idle" /\ ThreadOf(q) = ThreadOf(s)
          BY <1>1, <1>4, <4>2, <5>1 DEF Scopes
        <5>3. Same(q, s)
          BY <1>1, <3>1, <5>2, ThreadOfType, BackendThreadInjective DEF ThreadOf, Same
        <5>4. QED
          BY <1>1, <3>1, <5>2, <5>3, SameStays
      <4>3. QED
        BY <1>6, <3>3, <4>1, <4>2
    <3>4. CASE /\ pc[s] \in Running
               /\ Speakers(state'[s].messages) \subseteq Speakers(state[s].messages) \cup {s}
      BY <1>1, <1>3, <1>6, <3>1, <3>2, <3>4, SameStays
    <3>5. QED
      BY <1>1, <1>6, <2>1, <3>3, <3>4, Carried
  <2>2. CASE pc'[s] = pc[s] /\ state'[s] = state[s]
    BY <1>1, <1>3, <1>6, <2>2, SameStays
  <2>3. ASSUME NEW r \in Streams, StreamStep(r), r # s PROVE pc'[s] = pc[s] /\ state'[s] = state[s]
    BY <1>1, <2>3, StreamFrame DEF Actors
  <2>4. ASSUME NEW c \in Clears, ClearStep(c) PROVE pc'[s] = pc[s] /\ state'[s] = state[s]
    BY <1>1, <2>4, ClearMoves, ActorsAssumption DEF Actors
  <2>5. CASE UNCHANGED vars
    BY <2>2, <2>5 DEF vars
  <2>6. QED
    BY <2>1, <2>2, <2>3, <2>4, <2>5 DEF Next
<1>7. ASSUME NEW id \in BackendThreads, NEW q \in Spoken(id)'
      PROVE  pc'[q] # "idle" /\ ThreadOf(q)' = id
  <2>1. CASE history'[id] \in {None, history[id]}
    <3>1. q \in Spoken(id)
      BY <1>7, <2>1 DEF Spoken, Speakers
    <3>2. q \in Streams /\ pc[q] # "idle" /\ ThreadOf(q) = id
      BY <1>1, <1>4, <3>1 DEF Scopes
    <3>3. QED
      BY <1>1, <3>2, AskStays
  <2>2. ASSUME NEW s \in Streams, pc[s] = "commit", id = ThreadOf(s),
               history'[id].messages = state[s].messages
        PROVE  pc'[q] # "idle" /\ ThreadOf(q)' = id
    <3>1. q \in Speakers(state[s].messages)
      BY <1>7, <2>2 DEF Spoken, Speakers
    <3>2. q \in Streams /\ pc[q] # "idle" /\ ThreadOf(q) = id
      BY <1>3, <2>2, <3>1 DEF Running, Same
    <3>3. QED
      BY <1>1, <3>2, AskStays
  <2>3. QED
    BY <1>1, <2>1, <2>2, HistoryMoves
<1>8. QED
  BY <1>5, <1>6, <1>7 DEF Scopes, Speakers

LEMMA NextStored == ASSUME IInv, [Next]_vars PROVE Stored'
<1>1. TypeOK /\ Shape /\ Stored
  BY DEF IInv
<1>2. SUFFICES ASSUME NEW entry \in cache'
               PROVE  /\ pc'[entry.by] = "done" /\ entry.key = Key(entry.by)'
                      /\ entry.saw = read'[entry.by]
  BY DEF Stored
<1>3. CASE entry \in cache
  <2>1. /\ entry.by \in Streams /\ pc[entry.by] = "done" /\ entry.key = Key(entry.by)
        /\ entry.saw = read[entry.by]
    BY <1>1, <1>3 DEF Stored, TypeOK
  <2>2. pc'[entry.by] = "done" /\ read'[entry.by] = read[entry.by]
    BY <1>1, <2>1, ReadStays DEF Ended
  <2>3. ask'[entry.by] = ask[entry.by]
    BY <1>1, <2>1, AskStays
  <2>4. QED
    BY <2>1, <2>2, <2>3 DEF Key
<1>4. CASE entry \notin cache
  <2>1. PICK s \in Streams : /\ pc[s] = "store" /\ pc'[s] = "done" /\ ask' = ask /\ read' = read
                             /\ entry = [key |-> Key(s), by |-> s, saw |-> read[s]]
    BY <1>1, <1>2, <1>4, CacheMoves
  <2>2. QED
    BY <2>1 DEF Key
<1>5. QED
  BY <1>3, <1>4

LEMMA NextVersions == ASSUME IInv, [Next]_vars PROVE Versions'
<1>1. TypeOK /\ Shape /\ Versions
  BY DEF IInv
<1>2. CASE UNCHANGED vars
  BY <1>1, <1>2 DEF vars, Versions
<1>3. ASSUME NEW s \in Streams, StreamStep(s) PROVE Versions'
  <2>1. tenantVer' = tenantVer
    BY <1>1, <1>3, StreamFrame
  <2>2. \A q \in Streams \ {s} : pc'[q] = pc[q] /\ ask'[q] = ask[q]
    BY <1>1, <1>3, StreamFrame DEF Actors
  <2>3. ask'[s].version = 1 \/ ask'[s].version <= tenantVer[ask'[s].user.tenant]
    <3>1. CASE pc[s] # "idle"
      BY <1>1, <1>3, <3>1, StreamFrame DEF Versions
    <3>2. CASE pc[s] = "idle"
      <4>1. PICK user \in Users, thread \in Threads, query \in Queries :
              Begin(s, user, thread, query)
        BY <1>3, <3>2 DEF StreamStep, Hit, Miss, Load, Retrieve, Grade, Rewrite, Generate, Commit,
             Store, EndUnstored, StreamFails, NodeStep, Goto, Running
      <4>2. user.tenant \in Tenants
        BY DEF Users
      <4>3. /\ ask'[s].user = user
            /\ ask'[s].version = CacheVersion(user.tenant) \/ ask'[s].version = 1
        BY <1>1, <4>1 DEF Begin, TypeOK, Actors
      <4>4. tenantVer[user.tenant] \in Nat
        BY <1>1, <4>2 DEF TypeOK
      <4>5. QED
        BY <4>3, <4>4 DEF CacheVersion
    <3>3. QED
      BY <3>1, <3>2
  <2>4. QED
    BY <1>1, <2>1, <2>2, <2>3 DEF Versions
<1>4. ASSUME NEW c \in Clears, ClearStep(c) PROVE Versions'
  <2>1. \A q \in Streams : pc'[q] = pc[q] /\ ask'[q] = ask[q]
    BY <1>1, <1>4, ClearMoves, ActorsAssumption DEF Actors
  <2>2. \A t \in Tenants : tenantVer'[t] = tenantVer[t] \/ tenantVer'[t] = tenantVer[t] + 1
    BY <1>1, <1>4, ClearMoves DEF TypeOK
  <2>3. \A t \in Tenants : tenantVer[t] \in Nat
    BY <1>1 DEF TypeOK
  <2>4. \A t \in Tenants : tenantVer'[t] >= tenantVer[t] /\ tenantVer'[t] \in Nat
    BY <2>2, <2>3
  <2>5. ASSUME NEW q \in Streams, pc[q] # "idle"
        PROVE  ask[q].version = 1 \/ ask[q].version <= tenantVer'[ask[q].user.tenant]
    <3>1. ask[q].version \in Nat /\ ask[q].user.tenant \in Tenants
      BY <1>1, <2>5, ThreadOfType
    <3>2. ask[q].version = 1 \/ ask[q].version <= tenantVer[ask[q].user.tenant]
      BY <1>1, <2>5 DEF Versions
    <3>3. QED
      BY <2>3, <2>4, <3>1, <3>2
  <2>6. QED
    BY <2>1, <2>5 DEF Versions
<1>5. QED
  BY <1>2, <1>3, <1>4 DEF Next

\* The order of the last checkpoints grows when a run makes its last one.
LEMMA FinishedMoves ==
    ASSUME TypeOK, NEW s \in Streams, StreamStep(s)
    PROVE  \/ finished' = finished
           \/ pc[s] = "generate" /\ pc'[s] = "commit" /\ finished' = Append(finished, s)
<1>1. CASE Generate(s)
  BY <1>1 DEF Generate, NodeStep, Goto, TypeOK, Actors
<1>2. CASE pc[s] # "generate"
  BY <1>2, StreamFrame
<1>3. CASE pc[s] = "generate" /\ ~Generate(s)
  BY <1>3 DEF StreamStep, Begin, Hit, Miss, Load, Retrieve, Grade, Rewrite, Commit, Store,
              EndUnstored, StreamFails, Goto
<1>4. QED
  BY <1>1, <1>2, <1>3

LEMMA ToSetAppend ==
    ASSUME NEW f \in Seq(Streams), NEW s \in Streams
    PROVE  ToSet(Append(f, s)) = ToSet(f) \cup {s}
<1>1. /\ DOMAIN Append(f, s) = 1..(Len(f) + 1) /\ DOMAIN f = 1..Len(f) /\ Len(f) \in Nat
      /\ \A i \in 1..Len(f) : Append(f, s)[i] = f[i]
      /\ Append(f, s)[Len(f) + 1] = s
  BY AppendProperties, LenProperties
<1>2. 1..(Len(f) + 1) = 1..Len(f) \cup {Len(f) + 1}
  BY <1>1
<1>3. QED
  BY <1>1, <1>2 DEF ToSet

LEMMA NextUnfinished == ASSUME IInv, [Next]_vars PROVE Unfinished'
<1>1. TypeOK /\ Shape /\ Unfinished
  BY DEF IInv
<1>2. CASE UNCHANGED vars
  BY <1>1, <1>2 DEF vars, Unfinished
<1>3. ASSUME NEW s \in Streams, StreamStep(s) PROVE Unfinished'
  <2>1. \A q \in Streams \ {s} : pc'[q] = pc[q]
    BY <1>1, <1>3, StreamFrame DEF Actors
  <2>2. finished' = finished \/ finished' = Append(finished, s)
    BY <1>1, <1>3, FinishedMoves
  <2>3. \A q \in Streams \ {s} : q \in ToSet(finished') => q \in ToSet(finished)
    BY <1>1, <2>2, ToSetAppend DEF TypeOK
  <2>4. ASSUME pc'[s] \in {"idle", "lookup", "load"} \cup (Running \ {"commit"})
        PROVE  s \notin ToSet(finished')
    <3>1. pc[s] # "generate" /\ pc[s] \in {"idle", "lookup", "load"} \cup (Running \ {"commit"})
      BY <1>1, <1>3, <2>4, StreamMoves DEF Running
    <3>2. finished' = finished
      BY <1>1, <1>3, <3>1, StreamFrame
    <3>3. QED
      BY <1>1, <3>1, <3>2 DEF Unfinished
  <2>5. QED
    BY <1>1, <2>1, <2>3, <2>4 DEF Unfinished
<1>4. ASSUME NEW c \in Clears, ClearStep(c) PROVE Unfinished'
  <2>1. finished' = finished /\ \A q \in Streams : pc'[q] = pc[q]
    BY <1>1, <1>4, ClearMoves, ActorsAssumption DEF Actors
  <2>2. QED
    BY <1>1, <2>1 DEF Unfinished
<1>5. QED
  BY <1>2, <1>3, <1>4 DEF Next

LEMMA NextExchanges == ASSUME IInv, [Next]_vars PROVE Exchanges'
<1>1. TypeOK /\ Shape /\ Exchanges
  BY DEF IInv
<1> DEFINE Question(s) == [by |-> s, role |-> "user"]
           Answer(s) == [by |-> s, role |-> "assistant"]
           Asking(s, messages) ==
               \E said \in Seq(Message) : Whole(said) /\ messages = Append(said, Question(s))
<1>2. \A id \in BackendThreads : history[id] # None => Whole(history[id].messages)
  BY <1>1 DEF Exchanges, WholeExchanges, Whole
<1>3. \A s \in Streams : /\ pc[s] \in Running \ {"commit"} => Asking(s, state[s].messages)
                         /\ pc[s] = "commit" => Whole(state[s].messages)
  BY <1>1 DEF Exchanges
<1> HIDE DEF Asking
<1>4. ASSUME NEW id \in BackendThreads, history'[id] # None PROVE Whole(history'[id].messages)
  <2>1. CASE history'[id] = history[id]
    BY <1>2, <1>4, <2>1
  <2>2. ASSUME NEW s \in Streams, pc[s] = "commit", history'[id].messages = state[s].messages
        PROVE  Whole(history'[id].messages)
    BY <1>3, <2>2
  <2>3. QED
    BY <1>1, <1>4, <2>1, <2>2, HistoryMoves
<1>5. ASSUME NEW s \in Streams
      PROVE  /\ pc'[s] \in Running \ {"commit"} => Asking(s, state'[s].messages)
             /\ pc'[s] = "commit" => Whole(state'[s].messages)
  <2>1. CASE pc'[s] = pc[s] /\ state'[s] = state[s]
    BY <1>3, <2>1
  <2>2. CASE StreamStep(s)
    <3>1. CASE pc[s] = "load"
      <4>1. PICK said \in Seq(Message) :
              /\ said = IF history[ThreadOf(s)] = None THEN <<>> ELSE history[ThreadOf(s)].messages
              /\ Restored(s).messages = Append(said, Question(s))
        BY <1>1, <3>1, RestoredType
      <4>2. Whole(said)
        <5>1. ThreadOf(s) \in BackendThreads
          BY <1>1, <3>1, ThreadOfType
        <5>2. QED
          BY <1>2, <4>1, <5>1, NothingIsWhole
      <4>3. Asking(s, Restored(s).messages)
        BY <4>1, <4>2 DEF Asking
      <4>4. pc'[s] # "commit" /\ (pc'[s] \in Running => state'[s] = Restored(s))
        BY <1>1, <2>2, <3>1, StreamMoves DEF Running
      <4>5. QED
        BY <4>3, <4>4
    <3>2. CASE pc[s] \in {"retrieve", "grade", "rewrite"}
      <4>1. Asking(s, state[s].messages)
        BY <1>3, <3>2 DEF Running
      <4>2. pc'[s] # "commit" /\ (pc'[s] \in Running => state'[s].messages = state[s].messages)
        BY <1>1, <2>2, <3>2, StreamMoves, RetrievedType DEF Running
      <4>3. QED
        BY <4>1, <4>2
    <3>3. CASE pc[s] = "generate"
      <4>1. PICK said \in Seq(Message) : /\ Whole(said)
                                         /\ state[s].messages = Append(said, Question(s))
        BY <1>3, <3>3 DEF Running, Asking
      <4>2. Whole(Append(Append(said, Question(s)), Answer(s)))
        BY <4>1, WholeAppend
      <4>3. /\ pc'[s] \in {"commit", "failed"}
            /\ pc'[s] = "commit" => state'[s].messages = Append(state[s].messages, Answer(s))
        BY <1>1, <2>2, <3>3, StreamMoves DEF Running
      <4>4. QED
        BY <4>1, <4>2, <4>3 DEF Running
    <3>4. CASE pc[s] \notin {"load", "retrieve", "grade", "rewrite", "generate"}
      BY <1>1, <2>2, <3>4, StreamMoves DEF Running
    <3>5. QED
      BY <3>1, <3>2, <3>3, <3>4
  <2>3. ASSUME NEW r \in Streams, StreamStep(r), r # s PROVE pc'[s] = pc[s] /\ state'[s] = state[s]
    BY <1>1, <2>3, StreamFrame DEF Actors
  <2>4. ASSUME NEW c \in Clears, ClearStep(c) PROVE pc'[s] = pc[s] /\ state'[s] = state[s]
    BY <1>1, <2>4, ClearMoves, ActorsAssumption DEF Actors
  <2>5. CASE UNCHANGED vars
    BY <2>1, <2>5 DEF vars
  <2>6. QED
    BY <2>1, <2>2, <2>3, <2>4, <2>5 DEF Next
<1>6. WholeExchanges'
  BY <1>4 DEF WholeExchanges, Whole
<1>7. \A s \in Streams :
        /\ pc'[s] \in Running \ {"commit"} =>
              \E said \in Seq(Message) :
                  /\ Whole(said)
                  /\ state'[s].messages = Append(said, [by |-> s, role |-> "user"])
        /\ pc'[s] = "commit" => Whole(state'[s].messages)
  BY <1>5 DEF Asking
<1>8. QED
  BY <1>6, <1>7 DEF Exchanges, Whole

\* The edge to the rewriting node is for a first rewrite, with documents at hand.
LEMMA RewriteEdge ==
    ASSUME TypeOK, Shape, NEW s \in Streams, StreamStep(s), pc[s] = "grade", pc'[s] = "rewrite"
    PROVE  state[s].available /\ state[s].rewrites = 0
<1>1. Grade(s)
  BY DEF StreamStep, Begin, Hit, Miss, Load, Retrieve, Rewrite, Generate, Commit, Store, EndUnstored,
         StreamFails, NodeStep, Goto, TypeOK, Actors
<1>2. PICK relevant \in BOOLEAN : NodeStep(s, "grade", Decide(state[s], relevant), state[s])
  BY <1>1 DEF Grade
<1>3. Decide(state[s], relevant) = "rewrite"
  BY <1>2 DEF NodeStep, Goto, TypeOK, Actors
<1>4. ~(state[s].rewrites >= 1) /\ state[s].available
  BY <1>3 DEF Decide
<1>5. state[s].rewrites \in Nat
  BY DEF Shape, Running, AgentState
<1>6. state[s].rewrites = 0
  <2> DEFINE n == state[s].rewrites
  <2>1. n \in Nat /\ ~(n >= 1)
    BY <1>4, <1>5
  <2> HIDE DEF n
  <2>2. n = 0
    BY <2>1
  <2>3. QED
    BY <2>2 DEF n
<1>7. QED
  BY <1>4, <1>6

LEMMA NextRewrites == ASSUME IInv, [Next]_vars PROVE Rewrites'
<1>1. TypeOK /\ Shape /\ Rewrites
  BY DEF IInv
<1> DEFINE plain(s) == ask[s].query \notin Greetings \cup {"blank"}
           Good(s) ==
               /\ rewritten[s] <= 1 /\ (rewritten[s] > 0 => plain(s))
               /\ pc[s] \in {"idle", "lookup", "load", "rewrite"} => rewritten[s] = 0
               /\ pc[s] = "retrieve" =>
                     /\ state[s].rewrites = rewritten[s]
                     /\ rewritten[s] = 0 => state[s].query = ask[s].query
               /\ pc[s] = "grade" /\ state[s].available =>
                     state[s].rewrites = rewritten[s] /\ plain(s)
               /\ pc[s] = "rewrite" => state[s].rewrites = 0 /\ plain(s)
<1>2. \A s \in Streams : Good(s)
  BY <1>1 DEF Rewrites
<1>3. ASSUME NEW s \in Streams PROVE Good(s)'
  <2>1. CASE /\ pc'[s] = pc[s] /\ state'[s] = state[s] /\ ask'[s] = ask[s]
             /\ rewritten'[s] = rewritten[s]
    BY <1>2, <2>1
  <2>2. CASE StreamStep(s)
    <3>0. Good(s)
      BY <1>2
    <3>1. rewritten[s] \in Nat
      BY <1>1 DEF TypeOK
    <3>2. CASE pc[s] = "idle"
      <4>1. pc'[s] = "lookup" /\ rewritten' = rewritten /\ rewritten[s] = 0
        BY <1>1, <2>2, <3>0, <3>2, StreamMoves, StreamFrame DEF Running
      <4>2. QED
        BY <4>1
    <3>3. CASE pc[s] = "lookup" \/ pc[s] = "commit" \/ pc[s] = "store"
      <4>1. rewritten' = rewritten /\ ask' = ask
        BY <1>1, <2>2, <3>3, StreamFrame
      <4>2. pc'[s] \in {"load", "store"} \cup Ended /\ (pc'[s] = "load" => rewritten[s] = 0)
        BY <1>1, <2>2, <3>0, <3>3, StreamMoves DEF Running, Ended
      <4>3. QED
        BY <3>0, <4>1, <4>2 DEF Ended
    <3>4. CASE pc[s] = "load"
      <4>1. rewritten' = rewritten /\ ask' = ask /\ rewritten[s] = 0
        BY <1>1, <2>2, <3>0, <3>4, StreamFrame
      <4>2. \/ pc'[s] = "failed"
            \/ pc'[s] = "retrieve" /\ state'[s].rewrites = 0 /\ state'[s].query = ask[s].query
        BY <1>1, <2>2, <3>4, StreamMoves, RestoredType DEF Running
      <4>3. QED
        BY <4>1, <4>2
    <3>5. CASE pc[s] = "retrieve"
      <4>1. rewritten' = rewritten /\ ask' = ask
        BY <1>1, <2>2, <3>5, StreamFrame
      <4>2. pc'[s] = "failed" \/ (pc'[s] = "grade" /\ state'[s] \in Retrieved(s))
        BY <1>1, <2>2, <3>5, StreamMoves DEF Running
      <4>3. ASSUME state'[s] \in Retrieved(s), state'[s].available
            PROVE  state'[s].rewrites = rewritten[s] /\ plain(s)
        <5>1. /\ state'[s].rewrites = state[s].rewrites
              /\ Query(s) \notin Greetings \cup {"blank"}
          BY <1>1, <3>5, <4>3, RetrievedType
        <5>2. state[s].rewrites = rewritten[s]
          BY <3>0, <3>5
        <5>3. CASE rewritten[s] = 0
          <6>1. Query(s) = ask[s].query
            BY <3>0, <3>5, <5>3 DEF Query
          <6>2. QED
            BY <5>1, <5>2, <6>1
        <5>4. CASE rewritten[s] # 0
          BY <3>0, <3>1, <5>1, <5>2, <5>4
        <5>5. QED
          BY <5>3, <5>4
      <4>4. QED
        BY <3>0, <4>1, <4>2, <4>3
    <3>6. CASE pc[s] = "grade"
      <4>1. rewritten' = rewritten /\ ask' = ask
        BY <1>1, <2>2, <3>6, StreamFrame
      <4>2. pc'[s] = "failed" \/ (pc'[s] \in {"generate", "rewrite"} /\ state'[s] = state[s])
        BY <1>1, <2>2, <3>6, StreamMoves DEF Running
      <4>3. ASSUME pc'[s] = "rewrite"
            PROVE  rewritten[s] = 0 /\ state[s].rewrites = 0 /\ plain(s)
        <5>1. state[s].available /\ state[s].rewrites = 0
          BY <1>1, <2>2, <3>6, <4>3, RewriteEdge
        <5>2. QED
          BY <3>0, <3>6, <5>1
      <4>4. QED
        BY <3>0, <4>1, <4>2, <4>3
    <3>7. CASE pc[s] = "rewrite"
      <4>1. ask' = ask /\ rewritten[s] = 0 /\ state[s].rewrites = 0 /\ plain(s)
        BY <1>1, <2>2, <3>0, <3>7, StreamFrame
      <4>2. \/ pc'[s] = "failed" /\ rewritten' = rewritten
            \/ /\ pc'[s] = "retrieve" /\ state'[s].rewrites = 1 /\ rewritten'[s] = 1
        <5>1. \/ pc'[s] = "failed" /\ rewritten' = rewritten
              \/ /\ pc'[s] = "retrieve" /\ state'[s].rewrites = state[s].rewrites + 1
                 /\ rewritten'[s] = rewritten[s] + 1
          BY <1>1, <2>2, <3>7, StreamMoves DEF Running
        <5>2. 0 + 1 = 1
          OBVIOUS
        <5>3. QED
          BY <4>1, <5>1, <5>2, Zenon
      <4>3. QED
        BY <4>1, <4>2
    <3>8. CASE pc[s] = "generate"
      <4>1. rewritten' = rewritten /\ ask' = ask
        BY <1>1, <2>2, <3>8, StreamFrame
      <4>2. pc'[s] \in {"commit", "failed"}
        BY <1>1, <2>2, <3>8, StreamMoves DEF Running
      <4>3. QED
        BY <3>0, <4>1, <4>2
    <3>9. pc[s] \in {"idle", "lookup", "load", "store"} \cup Running
      BY <1>1, <2>2, StreamMoves DEF Running
    <3>10. QED
      BY <3>2, <3>3, <3>4, <3>5, <3>6, <3>7, <3>8, <3>9 DEF Running
  <2>3. ASSUME NEW r \in Streams, StreamStep(r), r # s
        PROVE  /\ pc'[s] = pc[s] /\ state'[s] = state[s] /\ ask'[s] = ask[s]
               /\ rewritten'[s] = rewritten[s]
    BY <1>1, <2>3, StreamFrame DEF Actors
  <2>4. ASSUME NEW c \in Clears, ClearStep(c)
        PROVE  /\ pc'[s] = pc[s] /\ state'[s] = state[s] /\ ask'[s] = ask[s]
               /\ rewritten'[s] = rewritten[s]
    BY <1>1, <2>4, ClearMoves, ActorsAssumption DEF Actors
  <2>5. CASE UNCHANGED vars
    BY <2>1, <2>5 DEF vars
  <2>6. QED
    BY <2>1, <2>2, <2>3, <2>4, <2>5 DEF Next
<1>4. QED
  BY <1>3 DEF Rewrites

-----------------------------------------------------------------------------
(* What was cleared stays cleared.                                         *)

\* What a thread is free of does not come back: its streams have ended.
LEMMA FreeStays ==
    ASSUME IInv, [Next]_vars, NEW of \in SUBSET Streams, NEW user \in Users, NEW thread \in Threads,
           Free(of, user, thread)
    PROVE  Free(of, user, thread)'
<1>1. TypeOK /\ Shape
  BY DEF IInv
<1> DEFINE id == BackendThread(user, thread)
           There(q) == ask[q].user = user /\ ask[q].thread = thread
<1>2. id \in BackendThreads
  BY DEF BackendThreads
<1>3. /\ \A q \in of : pc[q] \in {"store"} \cup Ended
      /\ Spoken(id) \cap of = {}
      /\ \A q \in Streams : pc[q] \in Running /\ There(q) =>
            /\ Speakers(state[q].messages) \cap of = {}
            /\ pc[q] = "commit" => read[q] \cap of = {}
  BY DEF Free
<1>4. \A q \in of : pc'[q] \in {"store"} \cup Ended
  BY <1>1, <1>3, ReadStays
<1>5. ASSUME NEW s \in Streams, ThreadOf(s) = id, pc[s] # "idle" PROVE There(s)
  BY <1>1, <1>5, ThreadOfType, BackendThreadInjective DEF ThreadOf
<1>6. Spoken(id)' \cap of = {}
  <2>1. CASE history'[id] \in {None, history[id]}
    BY <1>3, <2>1 DEF Spoken, Speakers
  <2>2. ASSUME NEW s \in Streams, pc[s] = "commit", id = ThreadOf(s),
               history'[id].messages = state[s].messages
        PROVE  Spoken(id)' \cap of = {}
    <3>1. Speakers(state[s].messages) \cap of = {}
      BY <1>3, <1>5, <2>2 DEF Running
    <3>2. Spoken(id)' \subseteq Speakers(state[s].messages)
      BY <2>2 DEF Spoken, Speakers
    <3>3. QED
      BY <3>1, <3>2
  <2>3. QED
    BY <1>1, <1>2, <2>1, <2>2, HistoryMoves
<1>7. ASSUME NEW s \in Streams, pc'[s] \in Running, There(s)'
      PROVE  /\ Speakers(state'[s].messages) \cap of = {}
             /\ pc'[s] = "commit" => read'[s] \cap of = {}
  <2>1. CASE pc'[s] = pc[s] /\ state'[s] = state[s] /\ ask'[s] = ask[s] /\ read'[s] = read[s]
    BY <1>3, <1>7, <2>1
  <2>2. CASE StreamStep(s)
    <3>1. pc[s] \notin {"idle", "store"} \cup Ended
      BY <1>1, <1>7, <2>2, StreamMoves DEF Running, Ended
    <3>2. ask'[s] = ask[s] /\ There(s) /\ s \notin of
      BY <1>1, <1>3, <1>7, <2>2, <3>1, StreamFrame
    <3>3. ThreadOf(s) = id
      BY <3>2 DEF ThreadOf
    <3>4. Speakers(state'[s].messages) \cap of = {}
      BY <1>1, <1>3, <1>7, <2>2, <3>2, <3>3, Carried
    <3>5. ASSUME pc'[s] = "commit" PROVE read'[s] \cap of = {}
      <4>1. pc[s] = "generate" /\ read'[s] \subseteq Speakers(state[s].messages)
        BY <1>1, <2>2, <3>5, StreamMoves
      <4>2. QED
        BY <1>3, <3>2, <4>1 DEF Running
    <3>6. QED
      BY <3>4, <3>5
  <2>3. ASSUME NEW r \in Streams, StreamStep(r), r # s
        PROVE  pc'[s] = pc[s] /\ state'[s] = state[s] /\ ask'[s] = ask[s] /\ read'[s] = read[s]
    BY <1>1, <2>3, StreamFrame DEF Actors
  <2>4. ASSUME NEW c \in Clears, ClearStep(c)
        PROVE  pc'[s] = pc[s] /\ state'[s] = state[s] /\ ask'[s] = ask[s] /\ read'[s] = read[s]
    BY <1>1, <2>4, ClearMoves, ActorsAssumption DEF Actors
  <2>5. CASE UNCHANGED vars
    BY <2>1, <2>5 DEF vars
  <2>6. QED
    BY <2>1, <2>2, <2>3, <2>4, <2>5 DEF Next
<1>8. QED
  BY <1>4, <1>6, <1>7 DEF Free, Speakers

\* Nor does an answer that holds any of it get into the cache.
LEMMA FreshStays ==
    ASSUME IInv, [Next]_vars, NEW of \in SUBSET Streams, NEW user \in Users, NEW thread \in Threads,
           NEW version, Free(of, user, thread), Fresh(of, user, thread, version)
    PROVE  Fresh(of, user, thread, version)'
<1>1. TypeOK /\ Shape /\ Stored
  BY DEF IInv
<1>0. SUFFICES ASSUME version >= 2 PROVE Fresh(of, user, thread, version)'
  BY DEF Fresh
<1> DEFINE Answered(q) == pc[q] = "store" \/ \E entry \in cache : entry.by = q
           About(q) == ask[q].user = user /\ ask[q].thread = thread /\ ask[q].version = version
<1>2. \A q \in Streams : Answered(q) /\ About(q) => q \notin of /\ read[q] \cap of = {}
  BY <1>0 DEF Fresh
<1>3. ASSUME NEW q \in Streams, Answered(q)', About(q)' PROVE q \notin of /\ read'[q] \cap of = {}
  <2>1. CASE Answered(q)
    <3>1. pc[q] \in {"store", "done"}
      BY <1>1, <2>1 DEF Stored
    <3>2. ask'[q] = ask[q] /\ read'[q] = read[q]
      BY <1>1, <3>1, AskStays, ReadStays DEF Ended
    <3>3. QED
      BY <1>2, <1>3, <2>1, <3>2
  <2>2. CASE ~Answered(q)
    <3>1. ASSUME NEW entry \in cache', entry.by = q PROVE FALSE
      <4>1. entry \notin cache
        BY <2>2, <3>1
      <4>2. PICK s \in Streams : pc[s] = "store" /\ entry = [key |-> Key(s), by |-> s, saw |-> read[s]]
        BY <1>1, <3>1, <4>1, CacheMoves
      <4>3. s = q
        BY <3>1, <4>2
      <4>4. QED
        BY <2>2, <4>2, <4>3
    <3>2. pc'[q] = "store" /\ pc[q] # "store"
      BY <1>3, <2>2, <3>1
    <3>3. StreamStep(q)
      <4>1. CASE UNCHANGED vars
        BY <3>2, <4>1 DEF vars
      <4>2. ASSUME NEW r \in Streams, StreamStep(r), r # q PROVE FALSE
        BY <1>1, <3>2, <4>2, StreamFrame DEF Actors
      <4>3. ASSUME NEW c \in Clears, ClearStep(c) PROVE FALSE
        BY <1>1, <3>2, <4>3, ClearMoves, ActorsAssumption DEF Actors
      <4>4. QED
        BY <4>1, <4>2, <4>3 DEF Next
    <3>4. pc[q] = "commit"
      BY <1>1, <3>2, <3>3, StreamMoves DEF Running
    <3>5. ask'[q] = ask[q] /\ read'[q] = read[q]
      BY <1>1, <3>4, AskStays, ReadStays
    <3>6. ask[q].user = user /\ ask[q].thread = thread
      BY <1>3, <3>5
    <3>7. q \notin of /\ read[q] \cap of = {}
      BY <3>4, <3>6 DEF Free, Running, Ended
    <3>8. QED
      BY <3>5, <3>7
  <2>3. QED
    BY <2>1, <2>2
<1>4. QED
  BY <1>3 DEF Fresh

\* No stream has a version from the second on that a clear's increment makes.
LEMMA FreshOnceBumped ==
    ASSUME IInv, NEW c \in Clears, ClearStep(c), NEW of, NEW user \in Users, NEW thread,
           tenantVer'[user.tenant] # tenantVer[user.tenant]
    PROVE  Fresh(of, user, thread, tenantVer[user.tenant])'
<1>1. TypeOK /\ Shape /\ Stored /\ Versions
  BY DEF IInv
<1>2. user.tenant \in Tenants
  BY DEF Users
<1>3. /\ tenantVer[user.tenant] \in Nat
      /\ tenantVer'[user.tenant] = tenantVer[user.tenant] + 1
  <2>1. tenantVer \in [Tenants -> Nat]
    BY <1>1 DEF TypeOK
  <2>2. \/ tenantVer' = tenantVer
        \/ tenantVer' = [tenantVer EXCEPT ![ask[c].user.tenant] = @ + 1]
    BY <1>1, ClearMoves
  <2>3. QED
    BY <1>2, <2>1, <2>2
<1>4. cache' = cache /\ \A q \in Streams : pc'[q] = pc[q] /\ ask'[q] = ask[q]
  BY <1>1, ClearMoves, ActorsAssumption DEF Actors
<1>5. ASSUME NEW q \in Streams, pc[q] = "store" \/ (\E entry \in cache : entry.by = q),
             tenantVer'[user.tenant] >= 2,
             ask[q].user = user, ask[q].version = tenantVer'[user.tenant]
      PROVE  FALSE
  <2>1. pc[q] # "idle"
    BY <1>1, <1>5 DEF Stored
  <2>2. ask[q].version = 1 \/ ask[q].version <= tenantVer[user.tenant]
    BY <1>1, <1>5, <2>1 DEF Versions
  <2> DEFINE n == tenantVer[user.tenant]
  <2>3. n \in Nat /\ n + 1 >= 2 /\ (n + 1 = 1 \/ n + 1 <= n)
    BY <1>3, <1>5, <2>2
  <2> HIDE DEF n
  <2>4. QED
    BY <2>3
<1>6. QED
  BY <1>4, <1>5 DEF Fresh

\* What a stream must not see when it begins is gone from its thread, and not cached.
LEMMA BegunClean ==
    ASSUME IInv, NEW user \in Users, NEW thread \in Threads,
           NEW version \in {CacheVersion(user.tenant), 1}
    PROVE  /\ Forbidden(user, thread) \in SUBSET Streams
           /\ Free(Forbidden(user, thread), user, thread)
           /\ Fresh(Forbidden(user, thread), user, thread, version)
<1>1. TypeOK /\ Clean
  BY DEF IInv
<1>2. ASSUME NEW q \in Forbidden(user, thread)
      PROVE  \E of \in SUBSET Streams :
                q \in of /\ Free(of, user, thread) /\ Fresh(of, user, thread, tenantVer[user.tenant])
  <2>1. PICK c \in Clears : pc[c] = "done" /\ Covers(c, user, thread) /\ q \in fence[c]
    BY <1>2 DEF Forbidden
  <2>2. ask[c].user = user /\ ask[c].thread \in {thread, None}
    BY <2>1 DEF Covers
  <2>3. /\ Free(fence[c], ask[c].user, thread)
        /\ Fresh(fence[c], ask[c].user, thread, tenantVer[ask[c].user.tenant])
    BY <1>1, <2>1, <2>2 DEF Clean
  <2>4. fence[c] \in SUBSET Streams
    BY <1>1 DEF TypeOK, Actors
  <2>5. QED
    BY <2>1, <2>2, <2>3, <2>4
<1>3. Forbidden(user, thread) \in SUBSET Streams
  BY <1>2
<1>4. Free(Forbidden(user, thread), user, thread)
  BY <1>2 DEF Free
<1>5. Fresh(Forbidden(user, thread), user, thread, tenantVer[user.tenant])
  BY <1>2 DEF Fresh
<1>6. version = tenantVer[user.tenant] \/ version = 1
  BY DEF CacheVersion
<1>7. Fresh(Forbidden(user, thread), user, thread, version)
  <2>1. CASE version = tenantVer[user.tenant]
    BY <1>5, <2>1
  <2>2. CASE version = 1
    BY <2>2 DEF Fresh
  <2>3. QED
    BY <1>6, <2>1, <2>2
<1>8. QED
  BY <1>3, <1>4, <1>7

LEMMA NothingIsClean ==
    ASSUME NEW user, NEW thread, NEW version
    PROVE  Free({}, user, thread) /\ Fresh({}, user, thread, version)
BY DEF Free, Fresh

LEMMA NextClean == ASSUME IInv, [Next]_vars PROVE Clean'
<1>1. TypeOK /\ Shape /\ Scopes /\ Stored /\ Unfinished /\ Clean
  BY DEF IInv
<1>2. \A a \in Actors : fence[a] \in SUBSET Streams
  BY <1>1 DEF TypeOK
<1>3. \A s \in Streams : pc[s] # "idle" =>
        ask[s].user \in Users /\ ask[s].thread \in Threads /\ s \in Actors
  BY <1>1, ThreadOfType DEF Actors
\* Nobody is shown what it must not see.
<1>4. ASSUME NEW s \in Streams, pc'[s] # "idle",
             s \in ToSet(finished') \/ ask'[s].version >= 2
      PROVE  read'[s] \cap fence'[s] = {}
  <2>1. CASE /\ read'[s] = read[s] /\ fence'[s] = fence[s] /\ ask'[s] = ask[s] /\ pc[s] # "idle"
             /\ s \in ToSet(finished') => s \in ToSet(finished)
    BY <1>1, <1>4, <2>1 DEF Clean, ClearedStaysCleared
  <2>2. CASE StreamStep(s)
    <3>1. CASE pc[s] = "idle"
      <4>1. read' = read /\ read[s] = {}
        BY <1>1, <2>2, <3>1, StreamFrame DEF Shape
      <4>2. QED
        BY <4>1
    <3>2. CASE pc[s] # "idle"
      <4>1. fence' = fence
        BY <1>1, <2>2, <3>2, StreamFrame
      <4>2. /\ Free(fence[s], ask[s].user, ask[s].thread)
            /\ Fresh(fence[s], ask[s].user, ask[s].thread, ask[s].version)
        BY <1>1, <3>2 DEF Clean
      <4>3. CASE read' = read /\ finished' = finished
        <5>1. ask' = ask
          BY <1>1, <2>2, <3>2, <4>3, StreamFrame
        <5>2. QED
          BY <2>1, <3>2, <4>1, <4>3, <5>1
      <4>4. CASE pc[s] = "lookup" /\ \E entry \in cache :
                   entry.key = Key(s) /\ read'[s] = {entry.by} \cup entry.saw
        <5>1. PICK entry \in cache :
                entry.key = Key(s) /\ read'[s] = {entry.by} \cup entry.saw
          BY <4>4
        <5>2. entry.by \in Streams /\ Key(entry.by) = Key(s) /\ entry.saw = read[entry.by]
          BY <1>1, <5>1 DEF Stored, TypeOK
        <5>3. /\ ask[entry.by].user = ask[s].user /\ ask[entry.by].thread = ask[s].thread
              /\ ask[entry.by].version = ask[s].version
          BY <5>2 DEF Key
        <5>4. ask'[s] = ask[s] /\ finished' = finished /\ s \notin ToSet(finished)
          BY <1>1, <2>2, <3>2, <4>4, StreamFrame DEF Unfinished
        <5>5. ask[s].version >= 2
          BY <1>4, <5>4
        <5>6. entry.by \notin fence[s] /\ read[entry.by] \cap fence[s] = {}
          BY <4>2, <5>1, <5>2, <5>3, <5>5 DEF Fresh
        <5>7. QED
          BY <4>1, <5>1, <5>2, <5>6
      <4>5. CASE pc[s] = "generate" /\ read'[s] \subseteq Speakers(state[s].messages)
        <5>1. Speakers(state[s].messages) \cap fence[s] = {}
          BY <4>2, <4>5 DEF Free, Running
        <5>2. QED
          BY <4>1, <4>5, <5>1
      <4>6. CASE finished' # finished
        <5>1. pc[s] = "generate" /\ pc'[s] = "commit"
          BY <1>1, <2>2, <4>6, FinishedMoves
        <5>2. read'[s] \subseteq Speakers(state[s].messages)
          BY <1>1, <2>2, <5>1, StreamMoves
        <5>3. QED
          BY <4>5, <5>1, <5>2
      <4>7. QED
        BY <1>1, <2>2, <4>3, <4>4, <4>5, <4>6, ReadMoves
    <3>3. QED
      BY <3>1, <3>2
  <2>3. ASSUME NEW r \in Streams, StreamStep(r), r # s
        PROVE  /\ read'[s] = read[s] /\ fence'[s] = fence[s] /\ ask'[s] = ask[s] /\ pc'[s] = pc[s]
               /\ s \in ToSet(finished') => s \in ToSet(finished)
    <3>1. read'[s] = read[s] /\ fence'[s] = fence[s] /\ ask'[s] = ask[s] /\ pc'[s] = pc[s]
      BY <1>1, <2>3, StreamFrame DEF Actors
    <3>2. finished' = finished \/ finished' = Append(finished, r)
      BY <1>1, <2>3, FinishedMoves
    <3>3. finished \in Seq(Streams)
      BY <1>1 DEF TypeOK
    <3>4. ToSet(Append(finished, r)) = ToSet(finished) \cup {r}
      BY <2>3, <3>3, ToSetAppend
    <3>5. s \in ToSet(finished') => s \in ToSet(finished)
      BY <2>3, <3>2, <3>4
    <3>6. QED
      BY <3>1, <3>5
  <2>4. ASSUME NEW c \in Clears, ClearStep(c)
        PROVE  /\ read'[s] = read[s] /\ fence'[s] = fence[s] /\ ask'[s] = ask[s] /\ pc'[s] = pc[s]
               /\ finished' = finished
    BY <1>1, <2>4, ClearMoves, ActorsAssumption DEF Actors
  <2>5. CASE UNCHANGED vars
    BY <1>4, <2>1, <2>5 DEF vars
  <2>6. QED
    BY <1>4, <2>1, <2>2, <2>3, <2>4, <2>5 DEF Next
\* The thread of a stream stays free of what it must not see.
<1>5. ASSUME NEW of \in SUBSET Streams, NEW user \in Users, NEW thread \in Threads, NEW version,
             Free(of, user, thread), Fresh(of, user, thread, version)
      PROVE  Free(of, user, thread)' /\ Fresh(of, user, thread, version)'
  BY <1>5, FreeStays, FreshStays
<1>6. ASSUME NEW s \in Streams, pc'[s] # "idle", NEW of, NEW user, NEW thread, NEW version,
             of = fence'[s], user = ask'[s].user, thread = ask'[s].thread, version = ask'[s].version
      PROVE  Free(of, user, thread)' /\ Fresh(of, user, thread, version)'
  <2>1. CASE pc[s] # "idle" /\ fence'[s] = fence[s]
    <3>1. of = fence[s] /\ user = ask[s].user /\ thread = ask[s].thread /\ version = ask[s].version
      BY <1>1, <1>6, <2>1, AskStays
    <3>2. Free(of, user, thread) /\ Fresh(of, user, thread, version)
      BY <1>1, <2>1, <3>1 DEF Clean
    <3>3. of \in SUBSET Streams /\ user \in Users /\ thread \in Threads
      BY <1>2, <1>3, <2>1, <3>1
    <3>4. QED
      BY <1>5, <3>2, <3>3
  <2>2. CASE pc[s] = "idle" /\ StreamStep(s)
    <3>1. PICK u \in Users, th \in Threads, query \in Queries : Begin(s, u, th, query)
      BY <2>2 DEF StreamStep, Hit, Miss, Load, Retrieve, Grade, Rewrite, Generate, Commit,
           Store, EndUnstored, StreamFails, NodeStep, Goto, Running
    <3>2. fence[s] = {} /\ s \in Actors
      BY <1>1, <2>2 DEF Shape, Actors
    <3>3. PICK v \in {CacheVersion(u.tenant), 1} :
            ask' = [ask EXCEPT ![s] = [user |-> u, thread |-> th, query |-> query, version |-> v]]
      BY <3>1 DEF Begin
    <3>4. fence' = [fence EXCEPT ![s] = Forbidden(u, th)]
      BY <3>1 DEF Begin
    <3>5. user = u /\ thread = th /\ version = v /\ of = Forbidden(u, th)
      BY <1>1, <1>6, <3>2, <3>3, <3>4 DEF TypeOK
    <3>6. of \in SUBSET Streams /\ Free(of, user, thread) /\ Fresh(of, user, thread, version)
      BY <3>3, <3>5, BegunClean
    <3>7. QED
      BY <1>5, <3>5, <3>6
  <2>3. ASSUME StreamStep(s), pc[s] # "idle" PROVE fence'[s] = fence[s]
    BY <1>1, <2>3, StreamFrame
  <2>4. ASSUME NEW r \in Streams, StreamStep(r), r # s PROVE pc'[s] = pc[s] /\ fence'[s] = fence[s]
    BY <1>1, <2>4, StreamFrame DEF Actors
  <2>5. ASSUME NEW c \in Clears, ClearStep(c) PROVE pc'[s] = pc[s] /\ fence'[s] = fence[s]
    BY <1>1, <2>5, ClearMoves, ActorsAssumption DEF Actors
  <2>6. CASE UNCHANGED vars
    BY <1>6, <2>1, <2>6 DEF vars
  <2>7. QED
    BY <1>6, <2>1, <2>2, <2>3, <2>4, <2>5, <2>6 DEF Next
\* What a clear has deleted is gone from the threads it covers.
<1>7. ASSUME NEW c \in Clears, pc'[c] \in {"bump", "done"}, NEW thread \in Threads,
             ask'[c].thread \in {thread, None}, NEW of, NEW user, of = fence'[c], user = ask'[c].user
      PROVE  /\ Free(of, user, thread)'
             /\ pc'[c] = "done" => Fresh(of, user, thread, tenantVer[user.tenant])'
  <2>0. c \in Actors /\ c \notin Streams
    BY ActorsAssumption DEF Actors
  <2>1. ASSUME pc[c] \in {"bump", "done"}, ask'[c] = ask[c], of = fence[c]
        PROVE  /\ of \in SUBSET Streams /\ user \in Users /\ Free(of, user, thread)
               /\ pc[c] = "done" => Fresh(of, user, thread, tenantVer[user.tenant])
    BY <1>1, <1>2, <1>7, <2>0, <2>1 DEF Clean, Shape, ClearAsks
  <2>2. ASSUME pc[c] \in {"bump", "done"}, pc'[c] = pc[c], ask'[c] = ask[c], of = fence[c],
               tenantVer'[user.tenant] = tenantVer[user.tenant]
        PROVE  /\ Free(of, user, thread)'
               /\ pc'[c] = "done" => Fresh(of, user, thread, tenantVer[user.tenant])'
    <3> DEFINE version == tenantVer[user.tenant]
    <3>1. /\ of \in SUBSET Streams /\ user \in Users /\ Free(of, user, thread)
          /\ pc[c] = "done" => Fresh(of, user, thread, version)
      BY <2>1, <2>2
    <3>2. Free(of, user, thread)'
      BY <3>1, FreeStays
    <3>3. ASSUME NEW v, v = tenantVer[user.tenant], pc[c] = "done"
          PROVE  Fresh(of, user, thread, v)'
      BY <3>1, <3>3, FreshStays
    <3>4. pc[c] = "done" => Fresh(of, user, thread, tenantVer[user.tenant])'
      BY <2>2, <3>3 DEF Fresh
    <3>5. QED
      BY <2>2, <3>2, <3>4
  <2>3. ASSUME NEW s \in Streams, StreamStep(s)
        PROVE  /\ Free(of, user, thread)'
               /\ pc'[c] = "done" => Fresh(of, user, thread, tenantVer[user.tenant])'
    <3>1. pc'[c] = pc[c] /\ ask'[c] = ask[c] /\ fence'[c] = fence[c] /\ tenantVer' = tenantVer
      BY <1>1, <2>0, <2>3, StreamFrame
    <3>2. QED
      BY <1>7, <2>2, <3>1
  <2>4. ASSUME NEW d \in Clears, ClearStep(d), d # c
        PROVE  /\ Free(of, user, thread)'
               /\ pc'[c] = "done" => Fresh(of, user, thread, tenantVer[user.tenant])'
    <3>1. pc'[c] = pc[c] /\ ask'[c] = ask[c] /\ fence'[c] = fence[c]
      BY <1>1, <2>0, <2>4, ClearMoves
    <3>2. CASE tenantVer'[user.tenant] = tenantVer[user.tenant]
      BY <1>7, <2>2, <3>1, <3>2
    <3>3. CASE tenantVer'[user.tenant] # tenantVer[user.tenant]
      <4>1. of \in SUBSET Streams /\ user \in Users /\ Free(of, user, thread)
        BY <1>7, <2>1, <3>1
      <4>2. QED
        BY <2>4, <3>3, <4>1, FreeStays, FreshOnceBumped
    <3>4. QED
      BY <3>2, <3>3
  <2>5. ASSUME ClearStep(c)
        PROVE  /\ Free(of, user, thread)'
               /\ pc'[c] = "done" => Fresh(of, user, thread, tenantVer[user.tenant])'
    <3>1. CASE of = {}
      BY <3>1 DEF Free, Fresh
    <3>2. CASE /\ of # {} /\ pc[c] = "delete" /\ pc'[c] = "bump" /\ ask' = ask
               /\ of \subseteq Streams
               /\ \A q \in of : pc[q] \in {"store"} \cup Ended
               /\ \A id \in Covered(c) : history'[id] = None
               /\ \A q \in Streams : pc[q] \in Running => ThreadOf(q) \notin Covered(c)
      <4>1. \A q \in Streams : pc'[q] = pc[q]
        BY <1>1, <2>0, <2>5, ClearMoves, ActorsAssumption DEF Actors
      <4>2. BackendThread(user, thread) \in Covered(c)
        BY <1>7, <3>2 DEF Covered
      <4>3. Spoken(BackendThread(user, thread))' = {}
        BY <3>2, <4>2 DEF Spoken, BackendThread
      <4>4. \A q \in of : pc'[q] \in {"store"} \cup Ended
        BY <3>2, <4>1
      <4>5. \A q \in Streams : pc'[q] \in Running => ~(ask'[q].user = user /\ ask'[q].thread = thread)
        BY <3>2, <4>1, <4>2 DEF ThreadOf
      <4>6. Free(of, user, thread)'
        BY <4>3, <4>4, <4>5 DEF Free, BackendThread
      <4>7. QED
        BY <3>2, <4>6
    <3>3. CASE /\ pc[c] = "bump" /\ pc'[c] = "done" /\ ask' = ask /\ fence' = fence
               /\ tenantVer' = [tenantVer EXCEPT ![ask[c].user.tenant] = @ + 1]
      <4>1. of \in SUBSET Streams /\ user \in Users /\ Free(of, user, thread)
        BY <1>7, <2>1, <3>3
      <4>2. tenantVer'[user.tenant] # tenantVer[user.tenant]
        <5>1. user.tenant \in Tenants /\ tenantVer \in [Tenants -> Nat]
          BY <1>1, <4>1 DEF TypeOK, Users
        <5>2. user = ask[c].user
          BY <1>7, <3>3
        <5>3. tenantVer'[user.tenant] = tenantVer[user.tenant] + 1 /\ tenantVer[user.tenant] \in Nat
          BY <3>3, <5>1, <5>2
        <5>4. \A n \in Nat : n + 1 # n
          OBVIOUS
        <5>5. QED
          BY <5>3, <5>4, Zenon
      <4>3. QED
        BY <2>5, <4>1, <4>2, FreeStays, FreshOnceBumped
    <3>4. QED
      BY <1>1, <1>7, <2>5, <3>1, <3>2, <3>3, ClearMoves
  <2>6. CASE UNCHANGED vars
    <3>1. pc' = pc /\ ask' = ask /\ fence' = fence /\ tenantVer' = tenantVer
      BY <2>6 DEF vars
    <3>2. QED
      BY <1>7, <2>2, <3>1
  <2>7. QED
    BY <2>3, <2>4, <2>5, <2>6 DEF Next
<1>8. ClearedStaysCleared'
  BY <1>4 DEF ClearedStaysCleared
<1>9. ASSUME NEW s \in Streams, pc'[s] # "idle"
      PROVE  /\ Free(fence[s], ask[s].user, ask[s].thread)'
             /\ Fresh(fence[s], ask[s].user, ask[s].thread, ask[s].version)'
  BY <1>6, <1>9 DEF Free, Fresh
<1>10. ASSUME NEW c \in Clears, NEW thread \in Threads,
              pc'[c] \in {"bump", "done"}, ask'[c].thread \in {thread, None}
       PROVE  /\ Free(fence[c], ask[c].user, thread)'
              /\ pc'[c] = "done" =>
                    Fresh(fence[c], ask[c].user, thread, tenantVer[ask[c].user.tenant])'
  BY <1>7, <1>10 DEF Free, Fresh
<1>11. QED
  BY <1>8, <1>9, <1>10 DEF Clean

-----------------------------------------------------------------------------
(* The theorems.                                                           *)

LEMMA InitIInv == Init => IInv
<1> SUFFICES ASSUME Init PROVE IInv
  OBVIOUS
<1>1. TypeOK
  BY FailuresAssumption, EmptySeq DEF Init, TypeOK, Labels
<1>2. /\ \A a \in Actors : pc[a] = "idle" /\ fence[a] = {}
      /\ \A s \in Streams : s \in Actors /\ read[s] = {} /\ rewritten[s] = 0
      /\ \A c \in Clears : c \in Actors
      /\ \A id \in BackendThreads : history[id] = None
      /\ cache = {} /\ finished = <<>>
  BY DEF Init, Actors
<1>3. Shape /\ Scopes /\ Stored
  BY <1>2 DEF Shape, Scopes, Stored, Spoken, Running
<1>4. Versions /\ Exchanges /\ Unfinished
  BY <1>2 DEF Versions, Exchanges, WholeExchanges, Running, Unfinished, ToSet
<1>5. Rewrites
  BY <1>2 DEF Rewrites
<1>6. Clean
  BY <1>2 DEF Clean, ClearedStaysCleared
<1>7. QED
  BY <1>1, <1>3, <1>4, <1>5, <1>6 DEF IInv

\* The inductive invariant: what every stream reads, carries, stores and leaves in its
\* thread is of that thread, is whole, and is not what a clear has removed.
THEOREM Invariance == Spec => []IInv
<1>1. ASSUME IInv, [Next]_vars PROVE IInv'
  <2>1. TypeOK' /\ Shape' /\ Scopes' /\ Stored'
    BY <1>1, NextTypeOK, NextShape, NextScopes, NextStored
  <2>2. Versions' /\ Exchanges' /\ Rewrites' /\ Unfinished' /\ Clean'
    BY <1>1, NextVersions, NextExchanges, NextRewrites, NextUnfinished, NextClean
  <2>3. QED
    BY <2>1, <2>2 DEF IInv
<1>2. QED
  BY InitIInv, <1>1, PTL DEF Spec

\* Checkpoints, states of the graph, cache entries and epochs keep their types.
THEOREM TypeCorrect == Spec => []TypeOK
<1>1. IInv => TypeOK
  BY DEF IInv
<1>2. QED
  BY Invariance, <1>1, PTL

\* build_backend_thread_id and build_chat_cache_key keep conversations apart: nobody
\* is shown what another user, or the same one in another thread, was told.
THEOREM ConversationsAreApart == Spec => []OwnScopeOnly
<1>1. IInv => OwnScopeOnly
  BY DEF IInv, Scopes, OwnScopeOnly, Same
<1>2. QED
  BY Invariance, <1>1, PTL

\* decide_to_generate ends the loop: a question is rewritten once at most, a greeting never.
THEOREM LoopIsBounded == Spec => []RewriteBounded
<1>1. IInv => RewriteBounded
  BY DEF IInv, Rewrites, RewriteBounded
<1>2. QED
  BY Invariance, <1>1, PTL

\* The checkpoints of a thread hold whole exchanges, since a run's writes are one transaction.
THEOREM HistoryIsWhole == Spec => []WholeExchanges
<1>1. IInv => WholeExchanges
  BY DEF IInv, Exchanges
<1>2. QED
  BY Invariance, <1>1, PTL

\* clear_chat_thread and clear_all_chat_history are final for the streams that begin later:
\* for what comes from a checkpoint always, for what comes from the cache from the tenant's
\* second epoch on.
THEOREM ClearIsFinal == Spec => []ClearedStaysCleared
<1>1. IInv => ClearedStaysCleared
  BY DEF IInv, Clean
<1>2. QED
  BY Invariance, <1>1, PTL
=============================================================================
