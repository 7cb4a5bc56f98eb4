SPECIFICATION FairSpec
CONSTANTS
  Jobs = {j1}
  Poll = poll
  None = none
  FailureBudget = 2
  MaxTries = 2
  MaxRuns = 2
  Budget <- MCBudget
CONSTRAINT TwoAtOnce
CHECK_DEADLOCK FALSE
INVARIANTS TypeOK LiveSendKept DeliveringIsOpen
PROPERTIES TerminalIsFinal CancelledIsSilent HonestOutbox OccurrenceEnds MessageEnds
