SPECIFICATION Spec
CONSTANTS
  None = None
  h1 = h1
  n1 = n1
  n2 = n2
  b1 = b1
  r1 = r1
  p1 = p1
  p2 = p2
  Hashes = {h1}
  Natives = {n1, n2}
  BusIds = {b1}
  Retries = {r1}
  Procs = {p1, p2}
  MaxRows = 2
  HashOf <- MCHashOf
SYMMETRY Symmetry
CONSTRAINT FewEnders
INVARIANTS
  TypeOK
  OneRowPerPause
  OneRowPerQuestion
  WinnerOwnsRow
PROPERTIES
  FinishedStaysFinished
  DecisionKept
