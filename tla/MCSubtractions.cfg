\* A parameter or two, a difference, a sum and what is returned.
CONSTANTS
  Ids <- MCIds
  Start = 0
  None = None
  Width = 3
  Fuel = 20
  Plans <- Subtractions
SPECIFICATION Spec
INVARIANTS SubtractionsCancel
CHECK_DEADLOCK FALSE
