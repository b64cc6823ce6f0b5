CONSTANTS
  Client = {c1, c2}
  Symbol = {s1, s2}
  Narrow = {s2}
  MaxMode = 3
  MaxSymbols = 1
  MaxConnections = 2
  InProcess = TRUE
  MaxFaults = 1
  MaxLogins = 1
SPECIFICATION Spec
SYMMETRY Symmetry
INVARIANT SubscribedIsFed
INVARIANT PoolIsExact
PROPERTY NothingLeftBehind
CHECK_DEADLOCK FALSE
