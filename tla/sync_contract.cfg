SPECIFICATION Spec
CONSTANTS
  d1 = d1
  d2 = d2
  s1 = s1
  s2 = s2
  b1 = b1
  progress = progress
  bookmark = bookmark
  NoBook = NoBook
  NoRow = NoRow
  Device = {d1, d2}
  Book = {b1}
  Object <- MCObject
  Register = {progress}
  BookOf <- MCBookOf
  Session = {s1, s2}
  Owner <- OnePerDevice
  InitialBooks <- BothHaveBook
  Registrable = {}
  Stamp <- Stamps3
  StableOpIds = TRUE
  OwnDeviceKnown = TRUE
  OrderedClocks = TRUE
  Faults = {"network"}
  MaxFaults = 1
  MaxOps <- Ops22
  BatchSize = 1
  Modes = {"push","sync"}
  PageSize = 2
INVARIANTS
  PushedOnce
  RegistersConverge
  BookmarksConverge
PROPERTY
  ImplementsDelivery
