CONSTANTS
  MaxHead = 2
  HeadCap = 1
  IndexWs = TRUE
  QueueCap = 1
  MaxBatch = 1
  MaxOpen = 1
SPECIFICATION FairSpec
INVARIANTS
  NoneLeftWaiting
PROPERTIES
  HeadsKeepArriving
  SocketReturns
  StopsInOrder
\* The process exits.
CHECK_DEADLOCK FALSE
