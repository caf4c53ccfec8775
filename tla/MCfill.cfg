SPECIFICATION ModesSpec
CONSTANTS
  LLONG_MAX = 6
  HardBS = 2
  SoftBS = 4
  MaxRuns = 1
  InSizes = {0}
  Input <- MCInput
  OutFiles <- MCOutFiles
  MapFiles <- MCMapFiles
  Domains <- MCPartDomains
  FillTypes <- MCFillTypes
  Requests <- MCRequests
  CommandArgs <- MCCommandArgs
PROPERTIES
  FillKeepsBlocks
CHECK_DEADLOCK FALSE
