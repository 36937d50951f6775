\* Two threads; one frees and allocates between the blocks another accesses.
SPECIFICATION Spec
CONSTANTS
  t1 = t1
  t2 = t2
  Thread <- MCTwoThreads
  Block <- MCBlock
  BlockLen = 2
  MinDist <- MCMinDist
  InfBucket <- MCInfBucket
  NoNode = NoNode
  DatastructThreshold = 1
  CombineThreshold = 1
  Allocation <- MCPair
  MayFree = TRUE
  MaxObjects = 2
  MaxAccesses = 3
INVARIANTS
  IteratorsAligned
  AttributionSound
\* The target may stop, and the bounds stop it.
CHECK_DEADLOCK FALSE
