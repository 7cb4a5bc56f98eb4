SPECIFICATION Spec
CONSTANTS
  None = None
  i1 = i1
  i2 = i2
  k1 = k1
  k2 = k2
  doc = doc
  importer = importer
  server = server
  Intakes = {i1, i2}
  Keys = {k1, k2}
  KeyOf <- OwnKeys
  Target <- OneDocument
  Processes = {importer, server}
  Uploaders = {importer}
  Servers = {server}
  Host <- TwoHosts
  ForeignKey = FALSE
  Capacity = 2
  Budget <- OneError
CHECK_DEADLOCK FALSE
INVARIANT PublishedIsWhole
