\* A parameter, and a sum in one of the loops.
CONSTANTS
  Ids <- MCIds
  Start = 0
  None = None
  Width = 3
  Fuel = 20
  Plans <- OneForTwoLoops
SPECIFICATION Spec
INVARIANTS LiveRangesCover
CHECK_DEADLOCK FALSE
