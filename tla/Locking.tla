------------------------------ MODULE Locking ------------------------------
(***************************************************************************)
(* The locks of the profiler and what they guard: which threads are in     *)
(* which step of memAccess, ThreadStart and ThreadFini (src/pincpt.cpp),   *)
(* of the replaced functions and region markers (src/imgload.cpp) and of   *)
(* Inspector (src/debug_reader.cpp).  mcslock is the lock that FifoLock    *)
(* specifies and MCSLock implements.  g_rwlock, the client lock and        *)
(* thread_mutex are Pin's; nothing is assumed of the order in which they   *)
(* are granted.  Of the data only the places of its use are kept, and the  *)
(* two counters of threads.                                                *)
(***************************************************************************)
EXTENDS Threads, Integers, Sequences, FiniteSets

CONSTANT NoThread

ASSUME ThreadAssumption == IsFiniteSet(Thread) /\ NoThread \notin Thread

VARIABLES
  pc,           \* where each thread is; "out" is in the target's code
  owner,        \* mcslock: the thread that holds it, or NoThread
  waiting,      \* mcslock: the threads that wait for it
  readers,      \* g_rwlock: the threads that hold it for reading
  writer,       \* g_rwlock: the thread that holds it for writing, or NoThread
  client,       \* the thread that holds Pin's client lock, or NoThread
  mutex,        \* the thread that holds thread_mutex, or NoThread
  num_threads,
  g_max_threads,
  loaded,       \* what each thread has read of num_threads and not yet used
  counted,      \* history: the threads that run, in the order of thread_mutex
  peak          \* history: the most threads that ran at a time

mcslock == << owner, waiting >>
g_rwlock == << readers, writer >>
locks == << mcslock, g_rwlock, client, mutex >>
counts == << num_threads, g_max_threads, loaded, counted, peak >>
vars == << pc, locks, counts >>

Location == {"unborn", "out",
  "mem_wait", "mem_read_lock", "mem_access", "mem_read_unlock", "mem_unlock",
  "alloc_lock", "alloc_client", "alloc_locate", "alloc_register", "alloc_unlock",
  "region_lock", "region_use", "region_unlock",
  "free", "inspect", "callback",
  "start_lock", "start_load", "start_store", "start_max", "start_unlock", "start_return",
  "fini_lock", "fini_load", "fini_store", "fini_unlock", "fini_return"}

Init ==
  /\ pc = [t \in Thread |-> "unborn"]
  /\ owner = NoThread /\ waiting = << >>
  /\ readers = {} /\ writer = NoThread
  /\ client = NoThread
  /\ mutex = NoThread
  /\ num_threads = 0 /\ g_max_threads = 0
  /\ loaded = [t \in Thread |-> 0]
  /\ counted = {} /\ peak = 0

Goto(t, from, to) == pc[t] = from /\ pc' = [pc EXCEPT ![t] = to]

Mcs == INSTANCE FifoLock WITH None <- NoThread

-----------------------------------------------------------------------------
(* Pin's locks *)

ReadLock(t) ==
  /\ writer = NoThread
  /\ readers' = readers \cup {t}
  /\ UNCHANGED << mcslock, writer, client, mutex >>

WriteLock(t) ==
  /\ writer = NoThread /\ readers = {}
  /\ writer' = t
  /\ UNCHANGED << mcslock, readers, client, mutex >>

RWUnlock(t) ==
  /\ readers' = readers \ {t}
  /\ writer' = IF writer = t THEN NoThread ELSE writer
  /\ UNCHANGED << mcslock, client, mutex >>

LockClient(t) ==
  /\ client = NoThread /\ client' = t
  /\ UNCHANGED << mcslock, g_rwlock, mutex >>

UnlockClient(t) ==
  /\ client' = IF client = t THEN NoThread ELSE client
  /\ UNCHANGED << mcslock, g_rwlock, mutex >>

MutexLock(t) ==
  /\ mutex = NoThread /\ mutex' = t
  /\ UNCHANGED << mcslock, g_rwlock, client >>

MutexUnlock(t) ==
  /\ mutex' = NoThread
  /\ UNCHANGED << mcslock, g_rwlock, client >>

-----------------------------------------------------------------------------
(* memAccess *)

CallMemAccess(t) ==
  /\ \/ Mcs!AcquireFree(t) /\ Goto(t, "out", "mem_read_lock")
     \/ Mcs!Request(t) /\ Goto(t, "out", "mem_wait")
  /\ UNCHANGED << g_rwlock, client, mutex, counts >>

McsAcquire(t) ==
  /\ Mcs!Acquire(t) /\ Goto(t, "mem_wait", "mem_read_lock")
  /\ UNCHANGED << g_rwlock, client, mutex, counts >>

MemReadLock(t) ==
  Goto(t, "mem_read_lock", "mem_access") /\ ReadLock(t) /\ UNCHANGED counts

\* RD_accessBlock, once or twice.
AccessBlocks(t) ==
  Goto(t, "mem_access", "mem_read_unlock") /\ UNCHANGED << locks, counts >>

MemReadUnlock(t) ==
  Goto(t, "mem_read_unlock", "mem_unlock") /\ RWUnlock(t) /\ UNCHANGED counts

MemUnlock(t) ==
  /\ Goto(t, "mem_unlock", "out") /\ Mcs!Release(t)
  /\ UNCHANGED << g_rwlock, client, mutex, counts >>

-----------------------------------------------------------------------------
(* handle_datastruct, after the original function has returned *)

CallHandleDatastruct(t) == Goto(t, "out", "alloc_lock") /\ UNCHANGED << locks, counts >>

AllocWriteLock(t) ==
  Goto(t, "alloc_lock", "alloc_client") /\ WriteLock(t) /\ UNCHANGED counts

AllocLockClient(t) ==
  Goto(t, "alloc_client", "alloc_locate") /\ LockClient(t) /\ UNCHANGED counts

\* A wrong handle_datastruct: it returns when the allocation is not registered.
LocateAndReturn(t) ==
  /\ \/ Goto(t, "alloc_locate", "alloc_register")
     \/ Goto(t, "alloc_locate", "out")
  /\ UnlockClient(t) /\ UNCHANGED counts

\* Whether the allocation is registered depends on its source file and size.
Locate(t) ==
  /\ \/ Goto(t, "alloc_locate", "alloc_register")
     \/ Goto(t, "alloc_locate", "alloc_unlock")
  /\ UnlockClient(t) /\ UNCHANGED counts

Register(t) == Goto(t, "alloc_register", "alloc_unlock") /\ UNCHANGED << locks, counts >>

AllocUnlock(t) == Goto(t, "alloc_unlock", "out") /\ RWUnlock(t) /\ UNCHANGED counts

-----------------------------------------------------------------------------
(* PINDIST_start_region_ and PINDIST_stop_region_ *)

CallRegionMarker(t) == Goto(t, "out", "region_lock") /\ UNCHANGED << locks, counts >>

\* A wrong region marker: a read lock suffices to find the region.
RegionReadLock(t) ==
  Goto(t, "region_lock", "region_use") /\ ReadLock(t) /\ UNCHANGED counts

RegionWriteLock(t) ==
  Goto(t, "region_lock", "region_use") /\ WriteLock(t) /\ UNCHANGED counts

UseRegion(t) == Goto(t, "region_use", "region_unlock") /\ UNCHANGED << locks, counts >>

\* A wrong PINDIST_stop_region_: nothing is unlocked for an unknown region.
RegionUnlockFound(t) ==
  /\ Goto(t, "region_unlock", "out")
  /\ RWUnlock(t) \/ UNCHANGED locks
  /\ UNCHANGED counts

RegionUnlock(t) == Goto(t, "region_unlock", "out") /\ RWUnlock(t) /\ UNCHANGED counts

-----------------------------------------------------------------------------
(* NewFree and Inspector take no lock *)

CallNewFree(t) == Goto(t, "out", "free") /\ UNCHANGED << locks, counts >>

\* datastruct_num, and the mark.
NewFree(t) == Goto(t, "free", "out") /\ UNCHANGED << locks, counts >>

CallInspector(t) == Goto(t, "out", "inspect") /\ UNCHANGED << locks, counts >>

Inspector(t) == Goto(t, "inspect", "out") /\ UNCHANGED << locks, counts >>

-----------------------------------------------------------------------------
(* Callbacks from Pin *)

\* Instruction and ImageLoad run with the client lock.
CallInstrumentation(t) ==
  Goto(t, "out", "callback") /\ LockClient(t) /\ UNCHANGED counts

\* Pin may hold the client lock during ThreadStart and ThreadFini.
CallThreadStart(t) ==
  /\ Goto(t, "unborn", "start_lock")
  /\ LockClient(t) \/ UNCHANGED locks
  /\ UNCHANGED counts

CallThreadFini(t) ==
  /\ Goto(t, "out", "fini_lock")
  /\ LockClient(t) \/ UNCHANGED locks
  /\ UNCHANGED counts

StartLock(t) ==
  /\ Goto(t, "start_lock", "start_load") /\ MutexLock(t)
  /\ counted' = counted \cup {t}
  /\ peak' = IF Cardinality(counted') > peak THEN Cardinality(counted') ELSE peak
  /\ UNCHANGED << num_threads, g_max_threads, loaded >>

\* A wrong ThreadFini: it counts without thread_mutex.
FiniLockNone(t) ==
  /\ Goto(t, "fini_lock", "fini_load")
  /\ counted' = counted \ {t}
  /\ UNCHANGED << locks, num_threads, g_max_threads, loaded, peak >>

FiniLock(t) ==
  /\ Goto(t, "fini_lock", "fini_load") /\ MutexLock(t)
  /\ counted' = counted \ {t}
  /\ UNCHANGED << num_threads, g_max_threads, loaded, peak >>

LoadNumThreads(t) ==
  /\ Goto(t, "start_load", "start_store") \/ Goto(t, "fini_load", "fini_store")
  /\ loaded' = [loaded EXCEPT ![t] = num_threads]
  /\ UNCHANGED << locks, num_threads, g_max_threads, counted, peak >>

StartStore(t) ==
  /\ Goto(t, "start_store", "start_max")
  /\ num_threads' = loaded[t] + 1 /\ loaded' = [loaded EXCEPT ![t] = 0]
  /\ UNCHANGED << locks, g_max_threads, counted, peak >>

\* A wrong ThreadStart: the number of threads is taken for the maximum.
StartMaxLast(t) ==
  /\ Goto(t, "start_max", "start_unlock")
  /\ g_max_threads' = num_threads
  /\ UNCHANGED << locks, num_threads, loaded, counted, peak >>

StartMax(t) ==
  /\ Goto(t, "start_max", "start_unlock")
  /\ g_max_threads' = IF num_threads > g_max_threads THEN num_threads ELSE g_max_threads
  /\ UNCHANGED << locks, num_threads, loaded, counted, peak >>

FiniStore(t) ==
  /\ Goto(t, "fini_store", "fini_unlock")
  /\ num_threads' = loaded[t] - 1 /\ loaded' = [loaded EXCEPT ![t] = 0]
  /\ UNCHANGED << locks, g_max_threads, counted, peak >>

CountUnlock(t) ==
  /\ Goto(t, "start_unlock", "start_return") \/ Goto(t, "fini_unlock", "fini_return")
  /\ MutexUnlock(t) /\ UNCHANGED counts

\* Pin releases the client lock; it gives the number of an ended thread to a new one.
CallbackReturn(t) ==
  /\ \/ Goto(t, "callback", "out")
     \/ Goto(t, "start_return", "out")
     \/ Goto(t, "fini_return", "unborn")
  /\ UnlockClient(t) /\ UNCHANGED counts

-----------------------------------------------------------------------------
\* What the target or Pin may do with a thread at any time.
Call(t) ==
  \/ CallMemAccess(t) \/ CallHandleDatastruct(t) \/ CallRegionMarker(t)
  \/ CallNewFree(t) \/ CallInspector(t)
  \/ CallInstrumentation(t) \/ CallThreadStart(t) \/ CallThreadFini(t)

\* Pin grants one of its locks.
Granted(t) ==
  \/ MemReadLock(t) \/ AllocWriteLock(t) \/ AllocLockClient(t) \/ RegionWriteLock(t)
  \/ StartLock(t) \/ FiniLock(t)

Step(t) ==
  \/ McsAcquire(t) \/ AccessBlocks(t) \/ MemReadUnlock(t) \/ MemUnlock(t)
  \/ Locate(t) \/ Register(t) \/ AllocUnlock(t)
  \/ UseRegion(t) \/ RegionUnlock(t)
  \/ NewFree(t) \/ Inspector(t)
  \/ LoadNumThreads(t) \/ StartStore(t) \/ StartMax(t) \/ FiniStore(t)
  \/ CountUnlock(t) \/ CallbackReturn(t)

Next == \E t \in Thread : Call(t) \/ Granted(t) \/ Step(t)

Spec == Init /\ [][Next]_vars

\* A call that can take its next step takes it, and Pin's locks do not pass a
\* waiting thread over for ever.
FairSpec ==
  /\ Spec
  /\ \A t \in Thread : WF_vars(Step(t)) /\ SF_vars(Granted(t))

-----------------------------------------------------------------------------
TypeOK ==
  /\ pc \in [Thread -> Location]
  /\ owner \in Thread \cup {NoThread} /\ waiting \in Seq(Thread)
  /\ readers \subseteq Thread /\ writer \in Thread \cup {NoThread}
  /\ client \in Thread \cup {NoThread}
  /\ mutex \in Thread \cup {NoThread}
  /\ num_threads \in Nat /\ g_max_threads \in Nat
  /\ loaded \in [Thread -> Nat]
  /\ counted \subseteq Thread /\ peak \in Nat

Unlocked == {"free", "inspect"}

\* Where the shared data is written, and where it is read.
Written ==
  [g_addrMap   |-> {"mem_access"},
   g_cachesims |-> {"mem_access", "alloc_register"},
   g_regions   |-> {"region_use", "alloc_register"},
   datastructs |-> {"alloc_register", "free"},
   g_fnargs    |-> {"inspect"},
   num_threads |-> {"start_store", "start_max", "fini_store"}]

Read ==
  [g_addrMap   |-> {},
   g_cachesims |-> {"region_use"},
   g_regions   |-> {},
   datastructs |-> {"mem_access", "free", "inspect"},
   g_fnargs    |-> {},
   num_threads |-> {"start_load", "fini_load"}]

Conflict(t, u, data) ==
  pc[t] \in Written[data] /\ pc[u] \in Written[data] \cup Read[data]

\* No thread uses what another one writes, whichever callbacks they are in: the
\* caches, the blocks, the regions and the number of threads are used by one
\* writer or by readers.  Left out are NewFree and Inspector, which take no lock
\* for what they do with the data objects; g_pindist_do_profile, which no lock
\* guards either (imgload.cpp:162, 167), is not among the data.
SharedDataGuarded ==
  \A t, u \in Thread : \A data \in DOMAIN Written :
    t # u /\ Conflict(t, u, data) => pc[t] \in Unlocked \/ pc[u] \in Unlocked

Blocked(t) ==
  \/ pc[t] = "mem_wait" /\ ~(owner = NoThread /\ waiting # << >> /\ Head(waiting) = t)
  \/ pc[t] = "mem_read_lock" /\ writer # NoThread
  \/ pc[t] \in {"alloc_lock", "region_lock"} /\ ~(writer = NoThread /\ readers = {})
  \/ pc[t] = "alloc_client" /\ client # NoThread
  \/ pc[t] \in {"start_lock", "fini_lock"} /\ mutex # NoThread

InCall(t) == pc[t] \notin {"unborn", "out"}

\* The profiler never comes to a halt: while calls are in progress, one of them
\* can go on, although they take up to three locks and Pin's client lock may be
\* held by a callback that waits for another one.
SomeoneRuns ==
  (\E t \in Thread : InCall(t)) => \E t \in Thread : InCall(t) /\ ~Blocked(t)

\* The number in the name of the output file is the most threads that ran at a
\* time, and ThreadStart and ThreadFini lose no update.
MaxThreadsExact ==
  mutex = NoThread => num_threads = Cardinality(counted) /\ g_max_threads = peak

\* Every call of a callback or replaced function returns to the target.
CallsEnd == \A t \in Thread : InCall(t) ~> ~InCall(t)
=============================================================================
