SPECIFICATION FairSpec
CONSTANTS
  k1 = k1
  k2 = k2
  k3 = k3
  a1 = a1
  b1 = b1
  a2 = a2
  p = p
  q = q
  w = w
  Keys <- MCKeys
  StakeDocs <- MCStakeDocs
  EpochLength = 2
  Blocks <- MCBlocks
  Genesis = Genesis
  Height <- MCHeight
  Parent <- MCParent
  StakeTxs <- MCStakeTxs
  Admitted <- MCStakeTxs
  GenesisStakes <- MCGenesisStakes
  StakeOrder <- MCStakeOrder
  Mainnet = FALSE
  StakeFixHeight = 500000
  Appliers = {p, q}
  Cancellable = {}
  Waiters = {w}
  Proofs <- MCFullProofs
  NoOne = NoOne
  NoJob = NoJob
INVARIANT MempoolFollows
PROPERTIES
  WaiterReturns
  CallsReturn
