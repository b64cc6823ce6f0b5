CONSTANTS
  Flow = {f1}
  Client = {c1}
  Loop = {g1, g2}
  Run = {r1, r2}
  Workers = 1
  MaxIds = 2
  MaxFaults = 1
SPECIFICATION Spec
INVARIANT OneLoop
INVARIANT OneRunAtATime
INVARIANT WatchFiresOnce
INVARIANT InactiveIsSilent
SYMMETRY Symmetry
CHECK_DEADLOCK FALSE
