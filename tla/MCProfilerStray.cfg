\* The assertion of move_markers, when objects are freed.
SPECIFICATION Spec
CONSTANTS
  t1 = t1
  t2 = t2
  Thread <- MCOneThread
  Block <- MCBlock
  BlockLen = 2
  MinDist <- MCMinDist
  InfBucket <- MCInfBucket
  NoNode = NoNode
  DatastructThreshold = 1
  CombineThreshold = 1
  Allocation <- MCPair
  MayFree = TRUE
  MaxObjects = 2
  MaxAccesses = 5
INVARIANT TopBucketActive
\* The target may stop, and the bounds stop it.
CHECK_DEADLOCK FALSE
