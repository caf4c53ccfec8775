SPECIFICATION FairSpec

CONSTANTS
  HardBS = 2
  SoftBS = 4
  SkipBS = 2
  MaxSkipBS = 4
  InEnd = 7
  CPass = {1, 3, 4}
  MaxRetries = 1
  MaxBadAreas = 1
  Options <- AnyOptions
  Limits = {"timeout", "read_errors", "slow_reads"}
  Saves = {"not_due", "saved", "failed"}
  Starts <- Short9

INVARIANTS
  RescuedIsWritten
  SavedIsSynced

PROPERTIES
  NeverLessProcessed
  LimitsEndRun
  Termination
