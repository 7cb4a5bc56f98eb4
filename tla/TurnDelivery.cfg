SPECIFICATION Spec
CONSTANTS
  None = None
  MaxEvents = 2
  QueueMax = 1
  MaxReopens = 1
  Earlier <- PastTurn
  SavedCursors = {0, 1, 3}
  MaxFrames = 3
  MaxFaults = 2
CONSTRAINT CursorOfAJournal
CHECK_DEADLOCK FALSE
INVARIANTS
  StreamIsWhole
  CursorRevived
  HoleNoticed
