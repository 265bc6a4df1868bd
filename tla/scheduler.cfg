SPECIFICATION FairSpec
CONSTANTS
  QueueSize = 2
  MaxOps = 2
  Troubles = {"logout", "network", "auth", "storage", "panic"}
  MaxTrouble = 2
INVARIANTS
  TypeOK
  StopFlushes
  EndedIsDormant
PROPERTIES
  EventuallyPushed
  StopReturns
