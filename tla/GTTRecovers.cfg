CONSTANTS
  w1 = w1
  w2 = w2
  c1 = c1
  c2 = c2
  Gtt = {g1, g2}
  Oco = {g1}
  Worker = {w1}
  Client = {c1}
  Margin = {1, 2}
  OrderMargin = {2}
  OcoMode = "max"
  Capital = 2
  MaxCrash = 1
  Faults = {}
SPECIFICATION FairSpec
INVARIANT LedgerExact
INVARIANT ArmedIsFunded
PROPERTY PromiseKept
PROPERTY StrandedRecovers
CHECK_DEADLOCK FALSE
