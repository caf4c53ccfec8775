SPECIFICATION Spec

CONSTANTS
  HardBS = 1
  SoftBS = 2
  SkipBS = 1
  MaxSkipBS = 2
  InEnd = 4
  CPass = {1, 2, 3, 4, 5}
  MaxRetries = 1
  MaxBadAreas = 100
  Options <- NoOptions
  Limits = {}
  Saves = {"not_due"}
  Starts <- Any4

INVARIANTS
  NonScrapedExact
