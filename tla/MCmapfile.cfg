SPECIFICATION Spec
CONSTANTS
  LLONG_MAX = 5
  HardBS = 2
  ChunkSize = 2
  Marks = {"bad_sector", "finished"}
  InSizes = {0, 4}
  Files <- MCFiles
  Domains <- MCDomains
INVARIANTS
  TypeOK
  IndexFromAnyCache
  FindsWhatIsThere
  AdjustExact
  JoinsToLeastProcessed
  BlocksSaturate
PROPERTIES
  AbstractSpec
CHECK_DEADLOCK FALSE
