CONSTANTS
  t1 = t1
  t2 = t2
  zero = zero
  a1 = a1
  a2 = a2
  Block = {1, 2}
  Tx <- MCTx
  Token <- MCToken
  Address <- MCAddress
  ZeroAddress = zero
  Transfers <- MCTransfers
  TxsOf <- MCTxsOf
  FeeTokensOf <- MCFeeTokensOf
  GenesisBalance <- MCGenesisBalance
  MaxAmount = 2
  PageLimit = 2
  BatchLimit = 2
  RestartLimit = 1
SPECIFICATION FairSpec
INVARIANTS
  HolderCountsExact
  BalancesExact
  CountersExact
  CursorSettled
  CaughtUpIsTheChain
PROPERTIES
  NothingForgotten
  GenesisCatchesUp
