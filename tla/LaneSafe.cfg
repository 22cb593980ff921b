SPECIFICATION Spec
CONSTANTS
  Depth = 2
  MaxU64 = 3
  short = short
  long = long
  Data <- MCData
  Blank = Blank
  Length <- MCLength
  Safe = TRUE
  CountMod = 2
INVARIANTS
  TypeOK
  NoFalseAlarm
  ExactlyOnce
  Unread
  Credit
PROPERTIES
  CatchesUp
  ImplementsFifo
