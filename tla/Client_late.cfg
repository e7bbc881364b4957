CONSTANTS
  t1 = t1
  t2 = t2
  NoThread = NoThread
  NoRequest = NoRequest
  Threads <- OneThread
  thread_id <- DistinctIds
  Grown = 0
  MaxRequests = 2
  Retries = 0
  RetryAfterTimeout = TRUE
  ServerCloses = FALSE
SPECIFICATION Spec
INVARIANTS
  OwnAnswer
CHECK_DEADLOCK FALSE
