CONSTANTS
  Legacy = {2, 3, 4}
  FirstHead = 5
  MaxHead = 6
  Window = 5
  RestartLimit = 2
  First = 1
  Last = 6
  Tx <- MCTx
  TxsOf <- MCTxsOf
  Gives <- MCGives
  Paid <- MCPaid
  Txs <- MCTxs
  MaxStarts = 3
  Logs <- MCLogs
  Charges <- MCCharges
  MaxInt = 5
  Spellings = {"stated", "absent"}
  FirstTip = 2
  MaxTip = 5
  MaxBatch = 2
  MaxStats = 2
  Capacity = 2
  MaxReplay = 2
  MaxSessions = 1
SPECIFICATION MCFairSpec
INVARIANTS
  RowsBehindWatermark
  WholeOrAbsent
  NoneLost
  EveryBlockOnce
  OnRecordAsOnChain
  BroughtUpToDate
  InOrder
  NoneSkipped
PROPERTIES
  Ends
  SeesTheTip
\* A chunk is fetched, a backfill done, a chain at its end published.
CHECK_DEADLOCK FALSE
