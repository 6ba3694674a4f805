----------------------------- MODULE ThinkFilter -----------------------------
(***************************************************************************)
(* The filter in event_generator that takes the reasoning of a model out   *)
(* of its answer while the answer is still coming in.  The tokens are cut  *)
(* anywhere, in the middle of a tag too, so the filter keeps the end of    *)
(* what it has until it knows whether a tag starts there.                  *)
(*                                                                         *)
(* Texts are sequences of characters, and none of them is personal data:   *)
(* the redaction of each fragment leaves it as it is.                      *)
(***************************************************************************)
EXTENDS Integers, Sequences, SequencesExt, FiniteSetsExt

CONSTANTS
    Chunks,     \* the contents a chunk of the model's stream can have
    MaxChunks,  \* bound: chunks of one answer
    None

OpenTag == <<"<", "t", "h", "i", "n", "k", ">">>
CloseTag == <<"<", "/", "t", "h", "i", "n", "k", ">">>

\* A chunk without content is skipped.
ASSUME ChunksAssumption == \A chunk \in Chunks : chunk \in Seq(STRING) /\ chunk # <<>>

VARIABLES
    received,   \* observer: all that the model has sent
    chunks,     \* observer: how many chunks that was
    pc,
    inside,     \* inside_think
    buffer,     \* think_buffer
    fragments,  \* visible_fragments of the current chunk
    full,       \* full_response, what has been yielded
    cached      \* what set_cached_response was called with, or None

vars == <<received, chunks, pc, inside, buffer, fragments, full, cached>>

Init ==
    /\ received = <<>>
    /\ chunks = 0
    /\ pc = "wait"
    /\ inside = FALSE
    /\ buffer = <<>>
    /\ fragments = <<>>
    /\ full = <<>>
    /\ cached = None

\* Where the tag occurs in the text, and text[i:j] as Python counts.
Found(tag, text) ==
    {i \in 0..(Len(text) - Len(tag)) : SubSeq(text, i + 1, i + Len(tag)) = tag}
Slice(text, i, j) == SubSeq(text, i + 1, j)
LastOf(text, n) == Slice(text, IF Len(text) > n THEN Len(text) - n ELSE 0, Len(text))
From(text, i) == Slice(text, i, Len(text))

Receive(chunk) ==
    /\ pc = "wait" /\ chunks < MaxChunks
    /\ received' = received \o chunk
    /\ chunks' = chunks + 1
    /\ buffer' = buffer \o chunk
    /\ pc' = "scan"
    /\ UNCHANGED <<inside, fragments, full, cached>>

Scanning == pc = "scan" /\ buffer # <<>>

\* Mutant: a closing tag cut before its last two characters is forgotten.
WithinKeepingSix ==
    /\ Scanning /\ inside /\ Found(CloseTag, buffer) = {}
    /\ buffer' = LastOf(buffer, 6)
    /\ pc' = "show"
    /\ UNCHANGED <<received, chunks, inside, fragments, full, cached>>

\* Mutant: the reasoning is kept until its end.
WithinKeepingAll ==
    /\ Scanning /\ inside /\ Found(CloseTag, buffer) = {}
    /\ pc' = "show"
    /\ UNCHANGED <<received, chunks, inside, buffer, fragments, full, cached>>

\* In the reasoning: only the start of a closing tag is worth keeping.
Within ==
    /\ Scanning /\ inside /\ Found(CloseTag, buffer) = {}
    /\ buffer' = LastOf(buffer, 7)
    /\ pc' = "show"
    /\ UNCHANGED <<received, chunks, inside, fragments, full, cached>>

Close ==
    /\ Scanning /\ inside /\ Found(CloseTag, buffer) # {}
    /\ buffer' = From(buffer, Min(Found(CloseTag, buffer)) + Len(CloseTag))
    /\ inside' = FALSE
    /\ UNCHANGED <<received, chunks, pc, fragments, full, cached>>

Open ==
    /\ Scanning /\ ~inside /\ Found(OpenTag, buffer) # {}
    /\ LET at == Min(Found(OpenTag, buffer))
       IN  /\ fragments' = IF at = 0 THEN fragments ELSE Append(fragments, Slice(buffer, 0, at))
           /\ buffer' = From(buffer, at + Len(OpenTag))
    /\ inside' = TRUE
    /\ UNCHANGED <<received, chunks, pc, full, cached>>

\* Mutant: one character more is kept back.
OutsideKeepingSeven ==
    /\ Scanning /\ ~inside /\ Found(OpenTag, buffer) = {}
    /\ fragments' = IF Len(buffer) > 7
                    THEN Append(fragments, Slice(buffer, 0, Len(buffer) - 7)) ELSE fragments
    /\ buffer' = LastOf(buffer, 7)
    /\ pc' = "show"
    /\ UNCHANGED <<received, chunks, inside, full, cached>>

\* In the answer: all but the start of an opening tag can be shown.
Outside ==
    /\ Scanning /\ ~inside /\ Found(OpenTag, buffer) = {}
    /\ fragments' = IF Len(buffer) > 6
                    THEN Append(fragments, Slice(buffer, 0, Len(buffer) - 6)) ELSE fragments
    /\ buffer' = LastOf(buffer, 6)
    /\ pc' = "show"
    /\ UNCHANGED <<received, chunks, inside, full, cached>>

\* A tag was the last of the buffer.
Scanned ==
    /\ pc = "scan" /\ buffer = <<>>
    /\ pc' = "show"
    /\ UNCHANGED <<received, chunks, inside, buffer, fragments, full, cached>>

\* One yield; the client may go away at any of them.
Show ==
    /\ pc = "show" /\ fragments # <<>>
    /\ full' = full \o Head(fragments)
    /\ fragments' = Tail(fragments)
    /\ UNCHANGED <<received, chunks, pc, inside, buffer, cached>>

Shown ==
    /\ pc = "show" /\ fragments = <<>>
    /\ pc' = "wait"
    /\ UNCHANGED <<received, chunks, inside, buffer, fragments, full, cached>>

\* The stream of the model has ended.
Flush ==
    /\ pc = "wait"
    /\ full' = IF inside THEN full ELSE full \o buffer
    /\ buffer' = <<>>
    /\ pc' = "store"
    /\ UNCHANGED <<received, chunks, inside, fragments, cached>>

Store ==
    /\ pc = "store"
    /\ cached' = IF full = <<>> THEN None ELSE full
    /\ pc' = "done"
    /\ UNCHANGED <<received, chunks, inside, buffer, fragments, full>>

\* Mutant: what has been shown is cached whatever ended the stream.
FailCachingPart ==
    /\ pc \in {"wait", "show", "store"}
    /\ cached' = IF full = <<>> THEN None ELSE full
    /\ pc' = "failed"
    /\ UNCHANGED <<received, chunks, inside, buffer, fragments, full>>

\* The model's stream raises, or the client goes away.  The error text that is yielded then
\* is no part of the answer, and the filter's state is not looked at again.
Fail ==
    /\ pc \in {"wait", "show", "store"}
    /\ pc' = "failed"
    /\ UNCHANGED <<received, chunks, inside, buffer, fragments, full, cached>>

Next ==
    \/ \E chunk \in Chunks : Receive(chunk)
    \/ Within \/ Close \/ Open \/ Outside \/ Scanned \/ Show \/ Shown \/ Flush \/ Store \/ Fail

Spec == Init /\ [][Next]_vars

-----------------------------------------------------------------------------
(* Properties                                                              *)

\* What is left of a whole text when every <think> is taken out with all that follows
\* up to its first </think>, or up to the end when there is none.
Visible[text \in Seq(STRING)] ==
    IF Found(OpenTag, text) = {} THEN text
    ELSE LET at == Min(Found(OpenTag, text))
             rest == From(text, at + Len(OpenTag))
             closing == Found(CloseTag, rest)
         IN  Slice(text, 0, at) \o
             (IF closing = {} THEN <<>>
              ELSE Visible[From(rest, Min(closing) + Len(CloseTag))])

\* The filter keeps little: seven characters between two chunks, however long the
\* reasoning is.
TypeOK ==
    /\ pc \in {"wait", "scan", "show", "store", "done", "failed"}
    /\ inside \in BOOLEAN
    /\ buffer \in Seq(STRING) /\ (pc = "wait" => Len(buffer) <= 7)
    /\ fragments \in Seq(Seq(STRING))
    /\ full \in Seq(STRING)
    /\ cached \in Seq(STRING) \cup {None}

\* However the tags are cut into chunks, the client is shown the visible text of what
\* has come in and nothing else, in order; and when the stream is over, all of it.
ShownIsVisible ==
    /\ IsPrefix(full, Visible[received])
    /\ pc \in {"store", "done"} => full = Visible[received]

\* The client is never more than the six characters of a possible tag behind.
PromptlyShown == pc = "wait" => Len(Visible[received]) - Len(full) <= 6

\* A part of an answer is never cached, nor an empty one: a stream of reasoning alone, or
\* of nothing, leaves no entry behind.
CachedIsWhole == cached # None => cached = Visible[received] /\ cached # <<>> /\ pc = "done"
=============================================================================
