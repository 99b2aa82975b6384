SPECIFICATION FairRoundSpec
CONSTANTS
  k1 = k1
  k2 = k2
  k3 = k3
  a1 = a1
  b1 = b1
  a2 = a2
  Keys <- MCKeys
  StakeDocs <- MCStakeDocs
  EpochLength = 10
  Blocks <- MCBlocks
  Genesis = Genesis
  Height <- MCHeight
  Parent <- MCParent
  StakeTxs <- MCNoStakes
  Admitted <- MCNoStakes
  GenesisStakes <- MCStakeDocs
  StakeOrder <- MCStakeOrder
  Mainnet = FALSE
  StakeFixHeight = 500000
  Staker = staker
  Appliers = {staker, blksync}
  Cancellable = {}
  SkipRound = skip
  Waiters = {skip}
  Proofs <- MCProofs
  NoOne = NoOne
  NoJob = NoJob
  MaxCrashes = 1
INVARIANTS
  RoundTypeOK
  DroppedRoundsWriteNothing
PROPERTY MempoolRepaired
