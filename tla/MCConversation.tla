--------------------------- MODULE MCConversation ---------------------------
(* Small instances of Conversation. *)
EXTENDS Conversation, TLC

Symmetry == Permutations(Streams) \cup Permutations(Clears) \cup Permutations(Tenants)
            \cup Permutations(Names) \cup Permutations(Threads)

\* The epoch has no part in the graph, nor the setting in the cache: each setting is met
\* with one of the epochs.  Only the tenant of the clear has its epoch bumped.
MCInit == Init /\ tenantVer = [t \in Tenants |-> IF rewriting THEN 1 ELSE 0]
MCSpec == MCInit /\ [][Next]_vars
=============================================================================
