\* The cache of data object 0: nothing isolated, every block in partition 1.
SPECIFICATION MissSpec
CONSTANTS
  b1 = b1
  b2 = b2
  b3 = b3
  b4 = b4
  b5 = b5
  Block <- MCBlock
  MinDist <- MCMinDist
  InfBucket <- MCInfBucket
  NoNode = NoNode
  L1Ways = 2
  L1PerWay = 1
  L2Ways = 2
  L2PerWay = 2
  Isolated <- MCNoBlocks
  MaxAccesses = 8
INVARIANTS
  TypeOK
  PartitionsConsistent
  SharedMissesExact
PROPERTY RemainingHistogram
CHECK_DEADLOCK FALSE
