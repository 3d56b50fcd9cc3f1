\* Integers of three bits: all of them are tried, and every second of the larger ones is
\* no immediate. A run enters at most 13 blocks: four for each way, and the callee's.
CONSTANTS
  Ids <- MCIds
  Start = 0
  None = None
  Width = 3
  Fuel = 20
  Plans <- Rewriting
SPECIFICATION Spec
INVARIANTS UsersMatchInputs PhisWrongAtCallsOnly FirstCallInlined SameBehaviour
CHECK_DEADLOCK FALSE
