CONSTANTS
  t1 = t1
  t2 = t2
  Token <- MCToken
  Mentions <- MCMentions
  Mints <- MCMints
  FirstHead = 2
  MaxHead = 3
  FetchBatch = 2
  ChunkSize = 1
  Inflight = 2
  RestartLimit = 0
  Contracts <- MCToken
SPECIFICATION MCSpec
INVARIANT EmptyIsAnswered
CHECK_DEADLOCK FALSE
