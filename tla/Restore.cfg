SPECIFICATION FairSpec
CONSTANTS
  Paths <- MCPaths
  Root = "/"
  Below <- MCBelow
  Children <- MCChildren
  Data <- MCData
  Rewritten <- MCRewritten
  Cut = "cut"
  MaxFails = 1
INVARIANTS Restored NeverTouchesSame NothingInTheWay
PROPERTIES Finishes
CHECK_DEADLOCK FALSE
