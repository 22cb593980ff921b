SPECIFICATION FaultSpec
CONSTANTS
  Depth = 1
  MaxU64 = 4
  short = short
  long = long
  Data <- MCOne
  Blank = Blank
  Length <- MCOneLength
  Safe = TRUE
  CountMod = 1
INVARIANTS
  AckIdempotent
