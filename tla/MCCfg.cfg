\* Start and up to three other blocks. JMP is left out of the terminators: it
\* leaves a block with one successor slot, as no branch at all does.
CONSTANTS
  Ids <- MCIds
  Start = 0
  None = None
  NewTerms = {"none", "cond", "ret"}
  NewConds <- MCNewConds
  Branching = {1, 2}
SPECIFICATION Spec
INVARIANTS EdgesIntact
PROPERTIES StaleIsInvalid PathsKept BranchMeaningKept
CHECK_DEADLOCK FALSE
