\* Two batches of one call, the first asks, the second does not; two tasks at a time; one crash.
SPECIFICATION FairSpec
CONSTANTS
  N = 2
  K = 1
  Gated <- MixedThenFree
  Drives = {d1, d2}
  MaxCrashes = 1
CONSTRAINTS
  LastMessageAlone
  TwoHandlers
  StopBeforeCrash
ACTION_CONSTRAINT NoMessageAfterLast
INVARIANTS
  TypeOK
  ResultIsTrue
PROPERTIES
  KeepsPromise
  CardsSettle
CHECK_DEADLOCK FALSE
