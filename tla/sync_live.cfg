SPECIFICATION FairSpec
CONSTANTS
  d1 = d1
  d2 = d2
  s1 = s1
  s2 = s2
  b1 = b1
  progress = progress
  bookmark = bookmark
  NoBook = NoBook
  NoRow = NoRow
  Device = {d1, d2}
  Book = {b1}
  Object = {progress}
  Register = {progress}
  BookOf <- MCBookOfP
  Session = {s1, s2}
  Owner <- OnePerDevice
  InitialBooks <- BothHaveBook
  Registrable = {}
  Stamp <- Stamps2
  StableOpIds = FALSE
  OwnDeviceKnown = FALSE
  OrderedClocks = TRUE
  Faults = {"network", "crash"}
  MaxFaults = 1
  MaxOps <- Ops11
  BatchSize = 2
  Modes = {"sync"}
  PageSize = 1
PROPERTY
  EventuallyDelivered
