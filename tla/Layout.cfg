SPECIFICATION Spec
CONSTANTS
  N = 4
  Rings <- MCRings
  Overhead = 2
  MaxUsize = 22
  MaxI32 = 8
INVARIANTS
  Disjoint
  InWindow
  OwnCounter
  OneLanePerPair
CHECK_DEADLOCK FALSE
