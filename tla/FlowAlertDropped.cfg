CONSTANTS
  Flow = {f1}
  Client = {c1}
  Loop = {g1}
  Run = {r1}
  Workers = 1
  MaxIds = 1
  MaxFaults = 0
SPECIFICATION Spec
PROPERTY DroppedIsWithdrawn
CHECK_DEADLOCK FALSE
