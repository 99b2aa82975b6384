SPECIFICATION FairSpec
CONSTANTS
  Peers = {p1, p2}
  MaxHeight = 5
  Size <- MCSize
  Limit = 3
  Batch = 3
  Buffered = 2
  MaxFailures = 1
  MaxLosses = 1
INVARIANTS
  TypeOK
  AttemptInOrder
PROPERTIES
  BatchFits
  CatchesUp
CHECK_DEADLOCK FALSE
