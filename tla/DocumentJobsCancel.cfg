SPECIFICATION FairSpec
CONSTANTS
  None = None
  j1 = j1
  w1 = w1
  w2 = w2
  Jobs = {j1}
  Workers = {w1, w2}
  MaxAttempts = 2
  Budget <- OneCancel
CHECK_DEADLOCK FALSE
PROPERTIES
  CancelEnds
