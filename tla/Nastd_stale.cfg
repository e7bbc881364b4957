CONSTANTS
  c1 = c1
  c2 = c2
  w1 = w1
  w2 = w2
  k1 = k1
  a = a
  b = b
  Sep = Sep
  Nothing = Nothing
  Conns <- OneConn
  Descriptors <- TwoNumbers
  Poppers <- OnePopper
  Keys <- OneKey
  CdbFiles <- LaterFile
  Db <- DbRow
  Offered <- ReadAndWrite
  Limit = 1
  FieldCount <- Columns
  NullTimeout = 1
  MaxCommands <- Three
  MaxTime = 0
SPECIFICATION Spec
CHECK_DEADLOCK FALSE
INVARIANTS
  ReadYourWrites
