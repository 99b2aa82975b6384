SPECIFICATION FairSpec
CONSTANTS
  Tasks = {client, tester}
  Tester = tester
  Base = 1
  CacheSize = 1
  MaxHeight = 2
  MaxRestarts = 1
INVARIANTS
  TypeOK
  CachesHoldTheChain
  FreshAnswers
  SelfTestHolds
PROPERTIES
  CallsReturn
  PassEnds
CHECK_DEADLOCK FALSE
