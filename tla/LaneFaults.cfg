SPECIFICATION FaultSpec
CONSTANTS
  Depth = 1
  MaxU64 = 3
  short = short
  long = long
  Data <- MCData
  Blank = Blank
  Length <- MCLength
  Safe = TRUE
  CountMod = 1
CONSTRAINT
  MCFewPayloadsAndReports
INVARIANTS
  PutFaultsHarmless
  OvercreditReported
  NoSilentLoss
PROPERTIES
  Unmixed
