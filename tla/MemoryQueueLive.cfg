SPECIFICATION LiveSpec
CONSTANTS
  None = None
  t1 = t1
  t2 = t2
  w1 = w1
  w2 = w2
  Tasks = {t1, t2}
  Workers = {w1, w2}
  Lanes = {"memory", "maintenance"}
  LaneOf <- TwoLanes
  Slots = 2
  MaxAttempts = 3
  Tokens = {1, 2, 3, 4, 5, 6}
  Budget <- NoSleep
CHECK_DEADLOCK FALSE
INVARIANTS
  NoDoubleRun
  RunsBounded
PROPERTIES
  MemoryResolved
