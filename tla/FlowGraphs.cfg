CONSTANTS
  N = 4
  Kinds = {"action", "condition", "andGate", "orGate"}
  MaxEdges = 5
  MaxDepth = 3
  MaxVisits = 6
SPECIFICATION WalkSpec
INVARIANT GateFiresOnce
INVARIANT BranchesAreDecided
INVARIANT GateReached
CHECK_DEADLOCK FALSE
