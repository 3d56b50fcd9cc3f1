\* Five blocks, the four traversals and then the dominator tree. Five is the fewest for
\* which a semidominator is not yet the dominator and a path of the forest is compressed
\* by more than one step.
CONSTANTS
  Ids <- MCIds
  Start = 0
  None = None
  Inputs <- MCInputs
SPECIFICATION DomSpec
INVARIANTS ListsReachableOnce PostorderClosesCycles ListedByDistance ImmDominatorsExact SemidominatorsExact
CHECK_DEADLOCK FALSE
