SPECIFICATION Spec
CONSTANTS
  Kinds = {"package", "ncx", "nav", "chapter"}
  MaxTokens <- MCTokens
  ChunkSize = 3
  LookBack = 2
  MaxBytes = 7
INVARIANTS
  ContentsIsDocument
  ChapterIsDocument
  TextIsKept
CHECK_DEADLOCK FALSE
