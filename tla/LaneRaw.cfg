SPECIFICATION Spec
CONSTANTS
  Depth = 2
  MaxU64 = 4
  short = short
  long = long
  Data <- MCData
  Blank = Blank
  Length <- MCLength
  Safe = FALSE
  CountMod = 1
INVARIANTS
  Intact
  Accounted
  Retained
PROPERTIES
  CatchesUp
  ImplementsFifo
