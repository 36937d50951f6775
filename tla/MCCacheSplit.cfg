\* A cache with an isolated data object of two blocks.
SPECIFICATION MissSpec
CONSTANTS
  b1 = b1
  b2 = b2
  b3 = b3
  b4 = b4
  b5 = b5
  Block <- MCBlock
  MinDist <- MCMinDist
  InfBucket <- MCInfBucket
  NoNode = NoNode
  L1Ways = 2
  L1PerWay = 1
  L2Ways = 2
  L2PerWay = 2
  Isolated <- MCTwoBlocks
  MaxAccesses = 7
INVARIANTS
  SplitMissesExact
  EveryAccessCounted
PROPERTY IsolatedHistogram
CHECK_DEADLOCK FALSE
