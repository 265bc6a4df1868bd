SPECIFICATION Spec
CONSTANTS
  None = None
  Caller = {a, b}
  Db = {d1, d2}
  MaxInits = 2
  MaxCalls = 2
  MaxOps = 2
SYMMETRY Symmetry
INVARIANTS
  TypeOK
  OneEngine
  ToldIsState
  SyncedWasSent
  SomeCallMoves
CHECK_DEADLOCK FALSE
