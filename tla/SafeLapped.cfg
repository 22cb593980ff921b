SPECIFICATION Spec
CONSTANTS
  Base = 3
  Depth = 2
  Limit = 5
INVARIANTS
  NeverLapped
