\* One thread, two objects of one block and a block of none; up to seven
\* accesses of a target that frees nothing, four of one that frees objects.
SPECIFICATION RecSpec
CONSTANTS
  t1 = t1
  Thread <- MCOneThread
  Block <- MCBlock
  BlockLen = 2
  MinDist <- MCMinDist
  InfBucket <- MCInfBucket
  NoNode = NoNode
  None = None
  DatastructThreshold = 1
  CombineThreshold = 2
  Allocation <- MCAllocation
  MayFree = TRUE
  MaxObjects = 2
  MaxAccesses = 7
  L1Ways = 2
  L1PerWay = 1
  L2Ways = 5
  L2PerWay = 1
  ReductionThreshold = 10
CONSTRAINT MCFreesBound
INVARIANTS LateCachesUndercount BestSplitRecommended ReductionFound
\* The target may stop, and the bounds stop it.
CHECK_DEADLOCK FALSE
