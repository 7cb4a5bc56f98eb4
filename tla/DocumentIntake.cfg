SPECIFICATION FairSpec
CONSTANTS
  None = None
  i1 = i1
  i2 = i2
  k1 = k1
  k2 = k2
  doc = doc
  importer = importer
  server = server
  Intakes = {i1, i2}
  Keys = {k1, k2}
  KeyOf <- OwnKeys
  Target <- NewDocuments
  Processes = {importer, server}
  Uploaders = {importer, server}
  Servers = {server}
  Host <- TwoHosts
  ForeignKey = FALSE
  Capacity = 1
  Budget <- OneOfEach
CONSTRAINTS InOrder EachItsOwn TwoAtOnce
CHECK_DEADLOCK FALSE
INVARIANTS
  TypeOK
  PublishedIsWhole
  TakenOverIsFenced
  CapacityKept
PROPERTIES
  LitterRemoved
  ReservationEnds
