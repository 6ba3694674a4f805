-------------------------- MODULE MCIngestionQueue --------------------------
(* Small instances of IngestionQueue. *)
EXTENDS IngestionQueue, TLC

Symmetry == Permutations(Tasks) \cup Permutations(Workers)
=============================================================================
