SPECIFICATION Spec
CONSTANTS
  d1 = d1
  d2 = d2
  s1 = s1
  s2 = s2
  b1 = b1
  progress = progress
  bookmark = bookmark
  NoBook = NoBook
  NoRow = NoRow
  Device = {d1, d2}
  Book = {b1}
  Object <- MCObject
  Register = {progress}
  BookOf <- MCBookOf
  Session = {s1, s2}
  Owner <- OnePerDevice
  InitialBooks <- OnlyFirstHasBook
  Registrable = {b1}
  Stamp <- Stamps2
  StableOpIds = FALSE
  OwnDeviceKnown = FALSE
  OrderedClocks = FALSE
  Faults = {"network", "crash", "torn"}
  MaxFaults = 1
  MaxOps <- Ops20
  BatchSize = 2
  Modes = {"push"}
  PageSize = 2
INVARIANTS
  TypeOK
  SyncedIsOnServer
  CursorCovers
