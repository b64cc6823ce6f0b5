------------------------ MODULE MCScalpingMonitor ------------------------
EXTENDS ScalpingMonitor, TLC

Symmetry == Permutations(Symbol) \cup Permutations(Product) \cup Permutations(Worker) \cup Permutations(Client)

=============================================================================
