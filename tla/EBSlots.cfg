CONSTANTS
  Event = {e1, e2}
  Callback = {f1, f2}
  Publisher = {p1, p2}
  Workers = 1
  MaxPending = 2
  BusFaults = {"shutdown"}
SPECIFICATION FairBusSpec
INVARIANT PendingExact
PROPERTY DropsOnlyAtCapacity
PROPERTY AdmittedRuns
CHECK_DEADLOCK FALSE
