SPECIFICATION Spec

CONSTANTS
  SaveIntervals = {0, 3}
  SyncInterval = 2
  Modes = {"rescue"}
  Quiet = {TRUE, FALSE}
  MaxVersion = 2
  MaxTime = 4
  MaxRuns = 2

PROPERTIES
  FsyncedIsBackedUp
