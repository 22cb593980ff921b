SPECIFICATION CompareSpec
CONSTANTS
  Ranks = {0, 1}
  World = {0, 1, 2, 3}
  Lanes <- MCLanes
  Depth <- MCDepth
  Limit <- MCLimit
  Threads <- MCThreads
  Modes = {TRUE, FALSE}
  Faulty = {}
  Overcredit = 0
  Pairs <- MCPairs
  Eagers = {TRUE, FALSE}
  Messages = 5
  Iters = 3
INVARIANTS
  RowsTrue
  NothingLeftOver
PROPERTIES
  CompareEnds
