\* Three objects are registered while blocks are accessed, nothing is freed.
SPECIFICATION Spec
CONSTANTS
  t1 = t1
  t2 = t2
  Thread <- MCOneThread
  Block <- MCBlock
  BlockLen = 2
  MinDist <- MCMinDist
  InfBucket <- MCInfBucket
  NoNode = NoNode
  DatastructThreshold = 0
  CombineThreshold = 2
  Allocation <- MCObjects
  MayFree = FALSE
  MaxObjects = 3
  MaxAccesses = 4
INVARIANTS
  EveryObjectSimulated
  ColdMissPerNode
  IteratorsWithinStack
PROPERTY SkipsZeroDistance
\* The target may stop, and the bounds stop it.
CHECK_DEADLOCK FALSE
