SPECIFICATION Spec
CONSTANTS
  Jobs = {j1}
  Poll = poll
  None = none
  FailureBudget = 2
  MaxTries = 2
  MaxRuns = 2
  Budget <- MCBudget
CHECK_DEADLOCK FALSE
PROPERTIES CancelStopsMessage
