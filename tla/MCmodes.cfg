SPECIFICATION ModesSpec
CONSTANTS
  LLONG_MAX = 6
  HardBS = 2
  SoftBS = 4
  MaxRuns = 3
  InSizes = {0}
  Input <- MCInput
  OutFiles <- MCOutFiles
  MapFiles <- MCMapFiles
  Domains <- MCDomains
  FillTypes <- MCFillTypes
  Requests <- MCRequests
  CommandArgs <- MCCommandArgs
INVARIANTS
  FillComplete
  GenerateExact
  CopyIsComplete
PROPERTIES
  FillTouchesOnlyItsTypes
  RunsEnd
CHECK_DEADLOCK FALSE
