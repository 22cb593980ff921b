SPECIFICATION Spec
CONSTANTS
  p1 = p1
  p2 = p2
  p3 = p3
  short = short
  long = long
  Procs <- MCProcs
  Revisions = {1, 2}
  Payloads <- MCPayloads
  PayloadLen <- MCPayloadLen
  MaxObjects = 2
  MaxRefusals = 2
SYMMETRY Symmetry
INVARIANTS
  PublishedWhole
  UnlinksOwn
  NoStaleName
PROPERTIES
  FailureIsFinal
CHECK_DEADLOCK FALSE
