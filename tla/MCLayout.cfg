\* Five blocks: two loops that share a header inside a third, a loop with two
\* entries, or three back edges to one header with another loop behind.
CONSTANTS
  Ids <- MCIds
  Start = 0
  None = None
  Inputs <- MCInputs
SPECIFICATION LayoutSpec
INVARIANTS LoopsNestAsInGraph EnteredThroughPreHeader KeepsPathsAndCycles LayoutRunsProgram LaidOutOnce OrderFitsLiveness
PROPERTIES EveryBlockListed
