CONSTANTS
  t1 = t1
  t2 = t2
  t3 = t3
  t4 = t4
  Readers <- AllThreads
  Writers <- AllThreads
SPECIFICATION FairSpec
INVARIANTS
  Exclusion
  CountersExact
  NoSleeperForgotten
PROPERTIES
  Implements
  WaitersServed
