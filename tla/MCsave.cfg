SPECIFICATION Spec

CONSTANTS
  SaveIntervals = {0, 3}
  SyncInterval = 2
  Modes = {"rescue", "commands"}
  Quiet = {TRUE, FALSE}
  MaxVersion = 3
  MaxTime = 4
  MaxRuns = 2

INVARIANTS
  TypeOK
  PromiseKept
  SavedUnlessGivenUp

PROPERTIES
  Checkpoints
