--------------------------- MODULE MCChatRequests ---------------------------
(* Small instances of ChatRequests. *)
EXTENDS ChatRequests

CONSTANTS r1, r2, r3, t1, t2, x1, x2

\* Two requests of one tenant that can go all the way, and one of another tenant that is
\* refused for its text and has the trace id of the first.
MCAsks ==
    LET ask(t, x, ok) == [tenant |-> t, id |-> x, legal |-> ok]
    IN  [r \in Requests |->
            CASE r = r1 -> {ask(t1, x1, TRUE)}
              [] r = r2 -> {ask(t1, x2, TRUE)}
              [] r = r3 -> {ask(t2, x1, FALSE)}]
=============================================================================
