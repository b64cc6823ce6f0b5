CONSTANTS
  Order = {o1, o2}
  Client = {c1}
  Poller = {p1}
  Capital = 4
  Price = 2
  MaxQty = 2
  MaxFaults = 1
SPECIFICATION Spec
INVARIANT NoOverRelease
INVARIANT CashAddsUp
INVARIANT BookMatchesTrades
INVARIANT AloneIsExact
PROPERTY FillReconciles
PROPERTY TerminalIsFinal
SYMMETRY Symmetry
CHECK_DEADLOCK FALSE
