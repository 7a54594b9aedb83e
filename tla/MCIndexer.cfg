CONSTANTS
  FirstHead = 4
  MaxHead = 6
  FetchBatch = 2
  QueueCap = 1
  MaxBatch = 2
  TipYieldLag = 0
  RestartLimit = 1
SPECIFICATION FairSpec
INVARIANTS
  NoHoles
  NothingSkipped
  TipFirst
PROPERTIES
  IsAnIndex
  CatchesUp
