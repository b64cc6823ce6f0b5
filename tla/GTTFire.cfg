CONSTANTS
  w1 = w1
  w2 = w2
  c1 = c1
  c2 = c2
  Gtt = {g1}
  Oco = {g1}
  Worker = {w1, w2}
  Client = {c1}
  Margin = {1, 2}
  OrderMargin = {2}
  OcoMode = "max"
  Capital = 3
  MaxCrash = 1
  Faults = {"commit_fails", "fill_fails", "funds_reset"}
SPECIFICATION Spec
INVARIANT FiresOnce
INVARIANT Exclusive
INVARIANT MarkedHasOrder
SYMMETRY Threads
CHECK_DEADLOCK FALSE
