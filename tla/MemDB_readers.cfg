CONSTANTS
  k1 = k1
  k2 = k2
  v1 = v1
  v2 = v2
  io1 = io1
  io2 = io2
  fq1 = fq1
  fq2 = fq2
  Empty = Empty
  Nothing = Nothing
  Keys <- TwoKeys
  Values <- OneValue
  Chains <- OneChain
  hashkey <- Collide
  IoThreads <- OneIo
  Updaters <- NoThread
  FqThreads <- TwoFq
  Results <- ValueOrEmpty
  NullTimeout = 1
  MaxNodes = 3
  MaxTime = 1
  Reloads = TRUE
SPECIFICATION Spec
INVARIANTS
  TypeOK
  MemorySafe
  ChainsSound
  PositiveAnswersCurrent
PROPERTIES
  Implements
  MemdbsizeFollows
