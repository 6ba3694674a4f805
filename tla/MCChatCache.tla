---------------------------- MODULE MCChatCache ----------------------------
(* Small instances of ChatCache. *)
EXTENDS ChatCache, TLC

Symmetry == Permutations(Requests) \cup Permutations(Chats) \cup Permutations(Filenames)
            \cup Permutations(Tenants)

\* Neither the chats nor what is checked of them depend on the observer "alone".
WithoutAlone ==
    <<rows, vectors, tenantVer, lock, pc,
      [r \in Requests |-> [args[r] EXCEPT !.alone = TRUE]], prev, victims, failures, chatVars>>
=============================================================================
