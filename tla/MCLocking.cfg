\* Three threads: one holds a lock, one waits for it and one comes in between.
CONSTANTS
  t1 = t1
  t2 = t2
  t3 = t3
  Thread = {t1, t2, t3}
  NoThread = NoThread
SPECIFICATION FairSpec
INVARIANTS TypeOK SharedDataGuarded SomeoneRuns MaxThreadsExact
PROPERTY CallsEnd
