SPECIFICATION Spec
SYMMETRY Symmetry
CONSTRAINT Undisturbed
CONSTANTS
  Absent = Absent
  f1 = f1
  f2 = f2
  f3 = f3
  Book = {f1, f2, f3}
  Identifier = {"a:1", "a/1"}
  IdOf <- MCIdOf
  NameOf <- MCNameOf
  Slot = {s1, s2, s3}
  Chapters = 2
  MaxThemes = 1
  MaxCalls = 4
INVARIANTS
  TypeOK
  ShownIsCurrent
  CacheIsTrue
  ImportIsTrue
  LoadingHasCause
CHECK_DEADLOCK FALSE
