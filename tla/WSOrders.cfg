CONSTANTS
  Order = {o1, o2, o3}
  Client = {c1, c2}
  Ticker = ticker
  Poller = poller
  Faults = {"fill_fails", "refresh_fails"}
SPECIFICATION Spec
INVARIANT FillsOnce
INVARIANT OpenIsWatched
INVARIANT RefsExact
SYMMETRY Symmetry
CHECK_DEADLOCK FALSE
