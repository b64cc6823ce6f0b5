--------------------------- MODULE MCStrategyHost ---------------------------
EXTENDS StrategyHost, TLC

Symmetry == Permutations(Thread) \cup Permutations(Strategy)

=============================================================================
