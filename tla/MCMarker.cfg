\* Three scopes compete for two slots; five markers take the two-bit generation
\* past its wrap (generations 1, 2, 3, 1, 2).
CONSTANTS
  Objects = {o1, o2}
  Holders = {h1, h2, h3}
  NumSlots = 2
  GenMod = 4
  MaxMarkers = 5
SYMMETRY Symmetry
SPECIFICATION Spec
INVARIANTS NeverUnset SlotsExact
PROPERTY ImplementsMarkSets
CHECK_DEADLOCK FALSE
