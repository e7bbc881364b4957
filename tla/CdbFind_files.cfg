CONSTANTS
  Keys <- SomeKeys
  Files <- SomeFiles
  HashOf <- SomeHashes
  Buckets = 2
  Block = 2
SPECIFICATION FairSpec
CHECK_DEADLOCK FALSE
INVARIANTS
  TypeOK
  HitHasTheKey
  FoundIfThere
PROPERTIES
  Ends
