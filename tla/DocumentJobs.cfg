SPECIFICATION FairSpec
CONSTANTS
  None = None
  j1 = j1
  w1 = w1
  w2 = w2
  Jobs = {j1}
  Workers = {w1, w2}
  MaxAttempts = 2
  Budget <- OneCancelTwoFaults
CHECK_DEADLOCK FALSE
INVARIANTS
  TypeOK
  AttemptsBounded
  CancelledIsNotReady
  ReadyMeansDone
PROPERTIES
  MovesAllowed
  HandedOverEnds
  StrandedRecovered
