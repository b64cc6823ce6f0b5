----------------------------- MODULE MCWSProxy -----------------------------
EXTENDS WSProxy, TLC

Symmetry == Permutations(Client) \cup Permutations(Narrow)

=============================================================================
