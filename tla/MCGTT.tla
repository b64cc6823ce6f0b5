------------------------------- MODULE MCGTT -------------------------------
(* GTT with the small sets that TLC checks it on. *)
EXTENDS GTT, TLC

CONSTANTS w1, w2, c1, c2

Threads == Permutations({w1, w2}) \cup Permutations({c1, c2})
=============================================================================
