CONSTANTS
  FirstHead = 2
  MaxHead = 4
  FetchBatch = 2
  QueueCap = 2
  MaxBatch = 1
  TipYieldLag = 1
  RestartLimit = 1
SPECIFICATION Spec
INVARIANT CrashCostsTheBatchOnly
