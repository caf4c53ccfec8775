SPECIFICATION Spec
CONSTANTS
  LLONG_MAX = 7
  HardBS = 2
  Names = {n1, n2}
  Offsets = {0, 2, 3}
  MaxCommands = 1
  Files <- MCFiles
  Parts <- MCParts
  Changes <- MCChanges
  BlockLists <- MCBlockLists
  ListTypes <- MCListTypes
INVARIANTS
  WritesReadable
  LogicBySets
  TypesChanged
  CompareIsEquality
  ShiftMoves
  CreatedFromBlocks
  ToldExactly
CHECK_DEADLOCK FALSE
