CONSTANTS
  MaxQueued = 3
  Client = {r1, r2}
  Faults = {"lost_answer", "crash"}
SPECIFICATION Spec
INVARIANT SentOnce
INVARIANT RowsTellTruth
PROPERTY DecisionIsFinal
CHECK_DEADLOCK FALSE
