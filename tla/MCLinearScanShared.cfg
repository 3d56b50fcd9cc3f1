\* Three ranges, two registers: enough for a register released twice.
CONSTANTS
  NumRegs = 2
  NumRanges = 3
  MaxPoint = 5
SPECIFICATION Spec
INVARIANTS RegistersExclusive
CHECK_DEADLOCK FALSE
