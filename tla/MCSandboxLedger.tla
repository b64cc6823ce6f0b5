-------------------------- MODULE MCSandboxLedger --------------------------
(* SandboxLedger on small sets of orders and threads, for TLC. *)
EXTENDS SandboxLedger, TLC

Symmetry == Permutations(Order)
=============================================================================
