SPECIFICATION Spec
CONSTANTS
  b1 = b1
  b2 = b2
  f0 = f0
  Absent = Absent
  Call = {c1, c2}
  Book = {b1, b2}
  Chunks = 2
  Stored <- OneStored
  Task = {t1, t2}
  MaxDeletes = 1
  MaxTries = 1
  Faults = {"network", "crash", "server", "local"}
  MaxFaults <- FaultBounds
INVARIANTS
  TypeOK
  WholeFiles
  AnswerIsTrue
  NoLeftovers
  DestIsWhole
SYMMETRY Alike
