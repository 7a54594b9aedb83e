CONSTANTS
  t1 = t1
  t2 = t2
  Token <- MCToken
  Mentions <- MCMentions
  Mints <- MCMints
  FirstHead = 2
  MaxHead = 4
  FetchBatch = 2
  ChunkSize = 1
  Inflight = 2
  RestartLimit = 1
  Contracts <- MCToken
SPECIFICATION MCSpec
INVARIANTS
  KnownIsCarried
  MentionedIsDescribed
  EachItsOwnAnswer
\* A pipeline may have written everything there is.
CHECK_DEADLOCK FALSE
