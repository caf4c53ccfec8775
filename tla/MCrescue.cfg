SPECIFICATION Spec

CONSTANTS
  HardBS = 1
  SoftBS = 3
  SkipBS = 1
  MaxSkipBS = 4
  InEnd = 7
  CPass = {1, 2, 3, 4, 5}
  MaxRetries = 1
  MaxBadAreas = 100
  Options <- OrderOptions
  Limits = {"timeout"}
  Saves = {"not_due", "failed"}
  Starts <- AnyStart

INVARIANTS
  TypeOK
  BlocksSound
  ReadsItsTarget
  SizesExact
  BadAreasExact
  NoInternalError
  NothingLeft
  FinishedIsComplete

PROPERTIES
  TriedAtMostTwice
  PassMovesOn
