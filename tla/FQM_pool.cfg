CONSTANTS
  p1 = p1
  p2 = p2
  r1 = r1
  r2 = r2
  r3 = r3
  r4 = r4
  None = None
  Requests <- FourRequests
  Pushers <- OnePusher
  MaxItems = 3
  CreateMayFail = TRUE
SPECIFICATION FairSpec
INVARIANTS
  TypeOK
  NitemsExact
  NoIdlePopperForgotten
  OnePlaceEach
  DeletedQueueUnused
PROPERTIES
  Implements
  EveryRequestServed
CHECK_DEADLOCK FALSE
