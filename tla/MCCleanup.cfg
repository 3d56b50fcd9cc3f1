\* Four instructions: a constant, a phi, what it takes from the loop and what needs it.
\* Five for CHECK_SIZE: an array, two constants and two checks.
CONSTANTS
  Ids <- MCIds
  Start = 0
  None = None
  Width = 3
  Fuel = 20
  Plans <- Finishing
SPECIFICATION Spec
INVARIANTS ChecksExact NeededStay TouchesFreedInLoopsOnly LiveRangesExact MovesFeedPhis AbortsForPhisOnly
CHECK_DEADLOCK FALSE
