SPECIFICATION SoakSpec
CONSTANTS
  Ranks <- MCRanks
  Lanes <- MCLanes
  Depth <- MCDepth
  Limit <- MCLimit
  Threads <- MCThreads
  Modes = {TRUE, FALSE}
  Faulty = {}
  Overcredit = 0
  Pairs <- MCPairs
  Eagers = {FALSE}
  Count = 3
INVARIANTS
  SoakPasses
PROPERTIES
  Termination
