CONSTANTS
  p1 = p1
  p2 = p2
  r1 = r1
  r2 = r2
  r3 = r3
  r4 = r4
  None = None
  Requests <- FourRequests
  Pushers <- TwoPushers
  MaxItems = 2
  CreateMayFail = FALSE
SPECIFICATION Spec
INVARIANT QueueBounded
