\* Two regions, entered by two threads each, while objects are registered.
SPECIFICATION Spec
CONSTANTS
  p1 = p1
  p2 = p2
  Ptr <- MCPtr
  NameOf <- MCNameOf
  Bucket <- MCOneBucket
  Modulus = 8
  Size <- MCSize
  DatastructThreshold = 1
  CombineThreshold = 1
  MaxDepth = 2
  MaxObjects = 2
  MaxAccesses = 2
  MaxSurplus = 1
  MaxUnpaired = 1
INVARIANTS
  TypeOK
  RegionsAligned
  AccessInRegionExact
  NeverOvercounts
PROPERTY
  ImplementsRegionCount
\* The target exits, and then nothing is left to do.
CHECK_DEADLOCK FALSE
