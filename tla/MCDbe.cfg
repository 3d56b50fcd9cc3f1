\* Every graph of four blocks, with every choice of empty ones.
CONSTANTS
  Ids <- MCIds
  Start = 0
  None = None
  Inputs <- MCInputs
SPECIFICATION Spec
INVARIANTS KeepsPaths EmptyBlocksGone AbortsAtMergesOnly
CHECK_DEADLOCK FALSE
