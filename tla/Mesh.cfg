SPECIFICATION MeshSpec
CONSTANTS
  Ranks = {0, 1, 2}
  Lanes <- MCLanes
  Depth <- MCDepth
  Limit <- MCLimit
  Threads <- MCThreads
  Modes = {TRUE, FALSE}
  Faulty <- MCFaulty
  Overcredit = 2
CHECK_DEADLOCK FALSE
INVARIANTS
  Isolated
  AckedWereReturned
  RingAccounted
PROPERTIES
  LanesAreFifo
