\* Five ranges within six points compete for two registers.
CONSTANTS
  NumRegs = 2
  NumRanges = 5
  MaxPoint = 5
SPECIFICATION Spec
INVARIANTS EveryRangeLocated StackSlotsPrivate ActiveComplete ExclusiveUntilDrained
PROPERTIES SpillsFurthest
CHECK_DEADLOCK FALSE
