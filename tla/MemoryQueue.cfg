SPECIFICATION Spec
CONSTANTS
  None = None
  t1 = t1
  t2 = t2
  w1 = w1
  w2 = w2
  Tasks = {t1}
  Workers = {w1, w2}
  Lanes = {"memory"}
  LaneOf <- AllMemory
  Slots = 2
  MaxAttempts = 2
  Tokens = {1, 2, 3, 4, 5}
  Budget <- Sleepy
SYMMETRY Symmetry
CHECK_DEADLOCK FALSE
INVARIANTS
  TypeOK
  OneOwner
PROPERTIES
  CompletedIsFinal
