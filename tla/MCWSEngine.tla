----------------------------- MODULE MCWSEngine -----------------------------
(* WSEngine on small sets of orders and request threads, for TLC. *)
EXTENDS WSEngine, TLC

Symmetry == Permutations(Order) \cup Permutations(Client)
=============================================================================
