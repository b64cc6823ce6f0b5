----------------------------- MODULE MCFlowWalk -----------------------------
(* FlowWalk on all small graphs, for TLC. *)
EXTENDS FlowWalk
=============================================================================
