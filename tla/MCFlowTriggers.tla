--------------------------- MODULE MCFlowTriggers ---------------------------
(* FlowTriggers on small sets of workflows, threads and runs, for TLC. *)
EXTENDS FlowTriggers, TLC

Symmetry == Permutations(Flow) \cup Permutations(Loop) \cup Permutations(Run)
=============================================================================
