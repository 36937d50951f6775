\* An access that is not looked at is one of reuse distance zero.
SPECIFICATION Spec
CONSTANTS
  t1 = t1
  t2 = t2
  Thread <- MCTwoThreads
  Block <- MCBlock
  BlockLen = 2
  MinDist <- MCMinDist
  InfBucket <- MCInfBucket
  NoNode = NoNode
  DatastructThreshold = 1
  CombineThreshold = 1
  Allocation <- MCReuse
  MayFree = TRUE
  MaxObjects = 2
  MaxAccesses = 4
PROPERTY SkipsZeroDistance
\* The target may stop, and the bounds stop it.
CHECK_DEADLOCK FALSE
