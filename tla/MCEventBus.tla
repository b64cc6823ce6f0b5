----------------------------- MODULE MCEventBus -----------------------------
(* EventBus on small sets of events, callbacks and publishers, for TLC. *)
EXTENDS EventBus, TLC

Symmetry == Permutations(Publisher) \cup Permutations(Callback) \cup Permutations(Event)
=============================================================================
