--------------------------- MODULE MCActionCenter ---------------------------
(* ActionCenter on small sets of requests, for TLC. *)
EXTENDS ActionCenter, TLC

Symmetry == Permutations(Client)
=============================================================================
