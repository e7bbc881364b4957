CONSTANTS
  t1 = t1
  t2 = t2
  NoThread = NoThread
  NoRequest = NoRequest
  Threads <- TwoThreads
  thread_id <- DistinctIds
  Grown = 2
  MaxRequests = 3
  Retries = 1
  RetryAfterTimeout = FALSE
  ServerCloses = TRUE
SPECIFICATION FairSpec
INVARIANTS
  MemorySafe
  OwnAnswer
  NoAnswerLost
PROPERTIES
  CallsReturn
CHECK_DEADLOCK FALSE
