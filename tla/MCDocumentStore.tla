-------------------------- MODULE MCDocumentStore --------------------------
(* Small instances of DocumentStore. *)
EXTENDS DocumentStore, TLC

Symmetry == Permutations(Requests) \cup Permutations(Filenames) \cup Permutations(Tenants)
=============================================================================
