SPECIFICATION Spec
CONSTANTS
  INT_MAX = 5
  LLONG_MAX = 40
  RbOptions <- MCOptions
  Times = {101, 102, 103, 104, 105, 106}
  Start = 102
  MaxSets = 1
  Reads = {0, 2}
  MaxSize = 2
  MaxErrors = 4
INVARIANTS
  RationalExact
PROPERTIES
  LimitsExact
CHECK_DEADLOCK FALSE
