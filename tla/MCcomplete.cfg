SPECIFICATION Spec

CONSTANTS
  HardBS = 1
  SoftBS = 2
  SkipBS = 1
  MaxSkipBS = 2
  InEnd = 5
  CPass = {1, 2, 3, 4, 5}
  MaxRetries = 1
  MaxBadAreas = 100
  Options = {{"complete_only"}}
  Limits = {}
  Saves = {"not_due"}
  Starts <- Fresh8

INVARIANTS
  NoInternalError
