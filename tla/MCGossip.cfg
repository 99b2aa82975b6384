SPECIFICATION FairSpec
CONSTANTS
  n1 = n1
  n2 = n2
  t1 = t1
  t2 = t2
  Nodes = {n1, n2}
  Routes <- MCRoutes
  Stakers = {n1}
  Txs = {t1, t2}
  Coins = {"a", "b", "c"}
  InitialCoins = {"a"}
  Spends <- MCSpends
  Creates <- MCCreates
  Weight <- MCWeight
  WEIGHT_LIMIT = 2
  Client = Client
  MaxBlocks = 1
  MaxSubmits = 2
  Restarting = {n1}
  MaxRestarts = 1
INVARIANTS
  TypeOK
  WeightAccounted
  ProposalsVerify
PROPERTY GossipEnds
CHECK_DEADLOCK FALSE
