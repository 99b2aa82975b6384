SPECIFICATION FairSpec
CONSTANTS
  Stakers = {s1, s2, s3}
  s1 = s1
  s2 = s2
  s3 = s3
  Routes <- MCRoutes
  Quorum = 2
  QueueSize = 1
  MaxRound = 2
  MaxLate = 1
INVARIANTS
  TypeOK
  RightRound
PROPERTIES
  
  RoundsEnd
CHECK_DEADLOCK FALSE
