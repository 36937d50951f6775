\* Three threads that lock and unlock for ever, or stop after any unlock.
SPECIFICATION LockFairSpec
CONSTANTS
  t1 = t1
  t2 = t2
  t3 = t3
  Thread <- MCThread
  NULL = NULL
INVARIANTS
  MutualExclusion
  NodeNotReused
  WakeIsGrant
PROPERTIES
  ImplementsFifoLock
  NoStarvation
  UnlockEnds
