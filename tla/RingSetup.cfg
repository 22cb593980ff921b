SPECIFICATION Spec
CONSTANTS
  r1 = r1
  r2 = r2
  r3 = r3
  two = two
  three = three
  invalid = invalid
  huge = huge
  Ranks <- MCRanks
  Leader = r1
  Configs <- MCConfigs
  Lanes <- MCLanes
  Valid <- MCValid
  Fits <- MCFits
  MaxFaults = 3
INVARIANTS
  AllOrNone
  Agreed
  ClosedProperly
PROPERTIES
  Settles
CHECK_DEADLOCK FALSE
