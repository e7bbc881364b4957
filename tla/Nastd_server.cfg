CONSTANTS
  c1 = c1
  c2 = c2
  w1 = w1
  w2 = w2
  k1 = k1
  a = a
  b = b
  Sep = Sep
  Nothing = Nothing
  Conns <- TwoConns
  Descriptors <- TwoNumbers
  Poppers <- OnePopper
  Keys <- OneKey
  CdbFiles <- LaterFile
  Db <- DbRow
  Offered <- Both
  Limit = 1
  FieldCount <- Columns
  NullTimeout = 1
  MaxCommands <- TwoAndOne
  MaxTime = 1
SPECIFICATION FairSpec
CHECK_DEADLOCK FALSE
INVARIANTS
  TypeOK
  AnswersToAsker
  OneAnswerEach
  AnswersTrue
  CacheFaithful
  OptionsObeyed
PROPERTIES
  EveryCommandAnswered
