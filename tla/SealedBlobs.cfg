CONSTANTS
  k1 = k1
  k2 = k2
  None = None
  Keys <- MCKeys
  Cells <- MCCells
  Aads <- MCAads
  MapCounts <- MCMapCounts
  Requests <- MCRequests
  LenLimit = 6
  Misreads = {5}
  MaxSeals = 2
  MaxEdits = 1
SPECIFICATION Spec
CHECK_DEADLOCK FALSE
INVARIANTS
  TypeOK
  NothingElseOpens
  GenuineOpens
  PortsAgree
  BlobsDetermined
  ScriptsPass
