\* All passes, requested in any order and with any nesting.
CONSTANTS
  NumConcurrentMarkers = 4
SPECIFICATION Spec
INVARIANTS MarkersSuffice DominatorsMissPreHeadersOnly
PROPERTIES HandedOutFresh
