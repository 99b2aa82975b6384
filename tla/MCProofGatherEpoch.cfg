SPECIFICATION FairSpec
CONSTANTS
  k1 = k1
  k2 = k2
  k3 = k3
  Keys <- MCKeys
  StakeDocs <- TurnoverDocs
  EpochLength = 10
  Base = 9
  Docs <- TurnoverDocs
  DocOrder <- Turnover
  Online <- NewStakers
  MaxRestarts = 0
  MaxForeign = 0
PROPERTY EveryoneCommits
CHECK_DEADLOCK FALSE
