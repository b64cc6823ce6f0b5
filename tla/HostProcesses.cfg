CONSTANTS
  Strategy = {s1}
  Thread = {t1, t2}
  MaxPids = 3
  MaxEvents = 1
  MaxLost = 1
SPECIFICATION FairSpec
INVARIANT OneProcess
INVARIANT NoneForgotten
PROPERTY DeadIsNoticed
CHECK_DEADLOCK FALSE
