SPECIFICATION Spec
CONSTANTS
  Node = {1, 2}
  Base = 3
  Word = 6
  MaxWall = 1
  MaxLives = 2
INVARIANTS
  TypeOK
  ClockDominates
  RoundTrips
PROPERTY
  ClockGrows
CHECK_DEADLOCK FALSE
