SPECIFICATION FairSpec
CONSTANTS
  k1 = k1
  k2 = k2
  k3 = k3
  Keys <- MCKeys
  StakeDocs <- SteadyDocs
  EpochLength = 10
  Base = 3
  Docs <- SteadyDocs
  DocOrder <- Steady
  Online <- MCKeys
  MaxRestarts = 2
  MaxForeign = 1
INVARIANTS
  TypeOK
  QuorumDecidedBeforeCommit
  DecidersAreEnough
PROPERTIES
  RefusedOnlyUnverified
  EveryoneCommits
CHECK_DEADLOCK FALSE
