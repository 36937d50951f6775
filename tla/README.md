# A verification of pincpt

pincpt is a Pin tool. It runs a program, simulates for every data object of the
program an LRU stack of the object's memory blocks and one of all other blocks,
and prints how many accesses had which reuse distance. `pincpt.py` turns the
numbers into cache misses and recommends how to split a partitioned cache.
This directory holds TLA+ models of the tool, TLC configurations for small
instances and TLAPS proofs.

## The system

| Component | Source | State | Operations |
|---|---|---|---|
| MCSLock | `mcslock.h` | `_tail`, one `qnode` (`next`, `wait`) per thread | `lock`, `unlock` |
| CacheSim | `cachesim.*`, `bucket.*`, `memoryblock.h` | LRU list, bucket number per node, one marker and counter per bucket, lowest inactive bucket | `on_block_new`, `on_block_seen`, `incr_access` |
| PartitionedCache | `cachesim.*` | two CacheSims, the data objects isolated in the first | `add_datastruct`, `contains`, and the CacheSim operations of the partition chosen |
| Bucket table | `main` in `pincpt.cpp` | `min_dists` | filled, sorted, deduplicated once |
| Datastruct registry | `datastructs.*` | vector of data objects, vector of caches | `register_datastruct`, `combine`, `datastruct_num` |
| Access path | `pincpt.cpp` | map from block to data object and nodes, previous block per thread | `memAccess`, `RD_accessBlock`, `on_block_new`, `on_block_seen` |
| Allocation functions | `imgload.cpp` | `is_freed` of the objects | `NewMalloc` and its likes, `handle_datastruct`, `NewFree` |
| Region | `region.*`, `imgload.cpp` | per region: threads inside, snapshot at entry, sums | start, stop, `register_datastruct` |
| Function argument map | `debug_reader.*` | parsed functions, observed arguments | `read_debug`, `Inspector` |
| Instrumentation | `imgload.cpp`, `pincpt.cpp` | calls inserted per routine and instruction, `g_pindist_do_profile` | `ImageLoad`, `Instruction`, start and stop of the profile |
| Thread bookkeeping | `pincpt.cpp` | `num_threads`, `g_max_threads` | `ThreadStart`, `ThreadFini` |
| Recommendation script | `pincpt.py` | none | sums over the CSV, choice of the best split |

Threads of the program enter `memAccess` before every memory access that is
not one of the stack. It takes the MCS lock, then `g_rwlock` for reading, and
calls `RD_accessBlock` for one block or for two. A block that is new gets a
data object and a node in one partition of every cache. Any other block is
moved to the front of its stack in every cache, and gets nodes in those
registered since. The replaced allocation functions register an object, with its
caches, under `g_rwlock` held for writing. `NewFree` marks an object as freed
under no lock at all. Regions copy counters of the caches when the first thread
enters and add the differences when the last one leaves.

What is hard about this code:

* The markers of a stack are moved by one node per access and never recomputed.
  One wrong step falsifies every later result and nothing crashes.
* The nodes of a block are found through iterators stored once, while caches are
  added and the block's data object may change.
* `NewFree` runs between any two steps of the other threads.
* Five locks guard different things in callbacks of any thread, one of them Pin's own.
* Regions sum differences of counters, with threads and registrations in between.
* The parser attributes lines by flags; a cache that is added late counts less than the
  others, and the script compares them.
* The queue of the MCS lock is broken for a moment at every arrival, and a
  thread has only one `qnode` to use again.

`makefile.rules` defines `NDEBUG`: the assertions and `check_consistency` are not
in the program. They are properties here. `config.h` fixes the other switches;
the models have `RD_DO_NOT_COUNT_ZERO_DISTANCE` and `RD_COMBINED_DATASTRUCTS` on.

## Modules

**Threads, FifoLock, MCSLock, MCLock, LockProofs.** One action per operation on an
atomic. A qnode is named by its thread. Two abstractions: a load that
keeps a loop spinning is a stutter, and code that touches no shared variable
belongs to the action before it. `queue` is a history variable: the threads from
their exchange of `_tail` to the store or exchange that ends `unlock`. FifoLock says
what the lock promises, and MCSLock is shown to implement it with `Owner` and `Waiting`.

**CacheSim.** A simulator is a record, each method an operator from record to
record. A block has one node per simulator, so an iterator is a block, and the
stack is a sequence of blocks. `Consistent` is the condition that
`check_consistency` and the assertions state, completed by that of the stored
bucket numbers.

**ReuseDistance.** What a simulator promises, with neither stack nor marker: the
histogram of the number of other blocks accessed since the last access to the
same one.

**PartitionedCache.** Two simulators under an arbitrary access sequence in which
blocks keep their data object. It implements two independent ReuseDistance
specifications. `CacheSimProofs` (one simulator) and `PartitionedCacheProofs` hold the proofs.

**MissAnalysis, BucketTable, MCCache.** MissAnalysis runs real LRU caches of every
capacity beside the simulators and compares their misses with the sums
that `pincpt.py` computes; `PartitionedCacheProofs` shows that they agree. BucketTable gives the
runs bucket distances in the way `main` computes them.

**Sums, SumProofs.** `SumOf(f, S)` is the fold of the community modules with which MissAnalysis, Regions and
Recommendation add up rows; SumProofs has the lemmas about it, and those about first elements and ranks.

**Datastructs.** The registry as operators on the vector: which object contains an
address, and which caches a registration adds. Object k of the source is element
k + 1 of the sequence.

**Profiler, ProfilerProofs, MCProfiler.** The composition: threads, allocator, registry, caches and the
map of blocks. The correspondence:

| Action | Code |
|---|---|
| `MemAccess` | `memAccess` up to and including the first `RD_accessBlock` |
| `SecondAccess` | the second `RD_accessBlock`, and the release of the locks |
| `NewBlock`, `SeenBlock` | `on_block_new`, `on_block_seen` of `pincpt.cpp` |
| `Malloc` | the call of the original function in `NewMalloc`, `NewCalloc`, `NewAlignedAlloc`, `NewPosixMemalign` |
| `HandleDatastruct` | `handle_datastruct` with `register_datastruct` and `combine` |
| `NewFree`, `OrgFree` | `NewFree` up to the mark, and its call of the original `free` |

The locks appear as guards: while `second` is set, an access is in progress and
holds the MCS lock and `g_rwlock`. No other access then begins and no registration takes
place, while `NewFree`, `OrgFree` and `Malloc` go on. That the MCS lock gives this exclusion
is what MCSLock shows. The program may access any block at any time, since its
allocator is instrumented as well.

When `on_block_seen` is given a node of the other partition, the two lists are
spliced across, which the language leaves undefined. The cache is `corrupt` from
then on: its state is frozen and the properties of simulators no longer speak of
it. The first cache isolates nothing and never gets corrupt.

`Registered` leaves out the calls of `Region::register_datastruct`, which are in Regions.

**RegionCount, Regions, RegionsProofs, MCRegions.** RegionCount says what a region's
numbers mean: per counter, the increments made while it had been entered more often than
left. Regions has the code's counters, snapshots and differences (`on_region_entry`,
`on_region_exit`, `register_datastruct`, `print_csv`), regions found by the pointer to their
name, `thread_count_` as an unsigned number, and Datastructs for what a registration adds.
Targets may leave a region without an exit, or leave one they have not entered; accesses to a thread's
previous block are made and not counted (`SkippedAccess`). Five facts about the code show in it: `Exit` inside a region loses that activation; overloaded functions
share a printed name (`region.cpp:103`), so that an access inside both counts twice under
it; a stop with another pointer to the same name is not found (`imgload.cpp:142`, the
assertion is compiled out); a region called "main" is added to the row of the whole run; and
`access_in_region` of `pincpt.py` reads 0 in a run without a pair of large objects, since `pincpt.py:11`
compares the number of data object 0 as a string. What it reads otherwise is not the "total number of memory
accesses in each region" (`pincpt.py:52`), as skipped accesses are missing.

**Locking, MCLocking.** Where each thread is in the callbacks and replaced
functions, and who holds which lock. The MCS lock is FifoLock, which MCSLock implements.
The order of the locks is: MCS lock, `g_rwlock`, Pin's client lock, `thread_mutex`.
`AccessBlocks` stands for one or two `RD_accessBlock`; `NewFree` scans and marks in one
step; the start of a thread, its end and every instrumentation callback hold the client lock.
`SharedDataGuarded` says that the shared data is used by one writer or by readers. It leaves out `NewFree` and
`Inspector`, which take no lock, so it says nothing about the vector of data objects under these two nor about
`g_fnargs`; `g_pindist_do_profile`, which is set without a lock (`imgload.cpp:162`, `167`), is not among the data.
`LockProofs` has the proofs about this module and about MCSLock.

**DebugReader, Instrumentation, InstrumentationProofs, MCInstrumentation.** DebugReader is `read_debug`: one
action per line of objdump's output, with a line as a record of the tag or attribute it has,
and a reference that reads the functions off the first n lines as a whole, without flags: the
parameters of a function are the entries between its own and the next function's, and the attributes of an
entry are those before the next header. A name is kept up to its last word (`Token`). `sscanf` matches pointer
types at depth 1 only; one at another depth adds an element to `ptr_types` that stays unwritten (`Scanned`). Instrumentation composes it with
`ImageLoad`, `inspect_ptr_args`, `Inspector`, `Instruction` and the replaced functions:

| Action | Code |
|---|---|
| `BeginImageLoad`, `ReadDebug`, `OpenRoutine`, `EndImageLoad` | `ImageLoad`: the executable's debug information, each of its routines, the replaced functions |
| `Malloc`, `Free` | allocations, failed ones too, and `NewFree` |
| `EnterRoutine` | the calls of `Inspector` at the entry of a routine |
| `Instruction`, `Execute`, `Flush` | an instruction is instrumented, executed, dropped from Pin's code cache |
| `StartProfile`, `StopProfile` | `New_PINDIST_start_profile`, `New_PINDIST_stop_profile` |

An access is only counted in Instrumentation. Its instructions show that a profile which was stopped goes on for
the code in Pin's cache; nothing in the code promises otherwise, so no property is about it.

**Recommendation, RecommendationProofs, MCRecommendation.** Profiler, with the LRU caches of every split beside it and
the loops of `pincpt.py` over the histograms it leaves. The profiler decides where an access goes from what it has
stored with a block, the target's caches decide from the object that is live there. The two differ for
memory that is accessed before it is registered, for memory that is accessed again after a free, and for accesses that
`RD_accessBlock` skips although another thread made one in between. The caches in which that has happened are
`misplaced`, those with foreign nodes are `corrupt`; a cache is `Faithful` if it is neither, and the properties
compare faithful caches. They do not say that a target has only such caches: `pincpt.cpp:61` and `:86` make others.
Of two splits with equal misses the loops keep the one they come to first: `Preferred` says so with an order
instead of loops.

## Runs

| Run | Question | Instance |
|---|---|---|
| `cache_global` | Are the numbers of data object 0 exact? | 5 blocks, 8 accesses, L1 of 2 ways of 1 block, L2 of 2 ways of 2 |
| `cache_split` | Do two partitions predict the misses of every split? | same caches, 2 of 5 blocks isolated, 7 accesses |
| `lock` | Is the queue lock a fair lock? | 3 threads, no bound |
| `profiler_reuse` | What survives free and reuse of memory? | 1 thread, 3 blocks, 2 overlapping allocations, 2 objects, 5 accesses |
| `profiler_threads` | Do concurrent allocation and free disturb the map of blocks? | 2 threads, 3 accesses |
| `profiler_objects` | Are objects registered during the run simulated properly? | 1 thread, 3 adjacent objects, one below the combination threshold, 4 accesses |
| `regions` | Are the numbers of a region those of the time it was entered? | 2 regions, one called "main", 2 objects, 2 accesses, 1 surplus exit |
| `locking` | Do the locks exclude what they must, without deadlock or starvation? | 3 threads, no bound |
| `instrumentation` | Is the right call inserted everywhere, and what do the calls record? | the output for 4 targets, 2 allocations, 1 call, 1 instruction executed |
| `recommendation` | Is the recommended split the best one? | 1 thread, 3 blocks, 2 objects of 1 block, L1 of 2 ways and L2 of 5 of 1 block, 7 accesses |
| `profiler_stray` | `move_markers`' assertion | as `profiler_reuse`; violated |
| `profiler_skip` | "zero distance" | 2 threads; violated |

What the passing runs show:

* `PartitionsConsistent`, `CachesConsistent`: after every access each marker is at the
  minimum distance of its bucket and each node stores its bucket.
* `RemainingHistogram`, `IsolatedHistogram`, `GlobalHistogram`: the counters are the
  reuse distance histogram, in the last case in the presence of everything the target
  allocates and frees. `GlobalHistogram` also says that no access which is looked at is
  lost: each is an access of the abstract histogram to the same block.
* `SharedMissesExact`, `SplitMissesExact`: the sums of `pincpt.py` are the misses of fully
  associative LRU caches. `EveryAccessCounted`: both partitions together count each access once.
* `MutualExclusion`, `NodeNotReused`, `WakeIsGrant`, `ImplementsFifoLock`,
  `NoStarvation`, `UnlockEnds`: the lock.
* `IteratorsAligned`: the i-th iterator of a block is that of its node in the i-th
  cache. `ColdMissPerNode`: a cache added late starts with cold misses.
* `AttributionSound`: a block attributed to a live object begins in it, and the
  object is still allocated.
* `IteratorsWithinStack`: as long as nothing is freed, each node is in the list its
  block's object selects, although objects are registered after blocks were accessed.
  `StrayNodesNeedFree`: with frees, only caches that isolate a freed object have nodes
  in the wrong list, until a free of a null or unregistered pointer marks data object
  0. From then on a block first accessed before its object was registered can move
  from 0 to that object, and the caches of live objects are affected as well: the property then says nothing, it
  documents the effect and does not exclude it.
* `EveryObjectSimulated`: one cache per object and per pair of large ones.

* `ImplementsRegionCount`: with registrations and other threads in between, the snapshots and
  differences give RegionCount's numbers. `RegionsAligned`: a region has one sum per cache.
  `AccessInRegionExact`: what the script reads for a name is the number of accesses made in the regions of that name and
  looked at, if entries and exits are paired, and 0 without a pair of objects. `NeverOvercounts`: unless a region has both
  missed and surplus exits, it never has more.
* `SharedDataGuarded`: no two threads are at the same data when one of them writes it.
  Those of `NewFree` and `Inspector`, which take no lock, are left out. `SomeoneRuns`, `CallsEnd`, `MaxThreadsExact`: no deadlock, every call ends, the
  largest number of threads is right.
* `FunctionsRead`, `InspectsPointerArguments`: whatever part of the output is read, the parser has given each function its
  own name and parameters, and a routine gets an `Inspector` for its parameters of pointer types at depth 1, and for no
  other as long as all pointer types are at that depth. `ArgumentsMapped`: the map of
  arguments names the live objects, and null arguments only as failed allocations.
* `LateCachesUndercount`: of a faithful cache "misses sc" is at most what misses in the target, and at least what misses
  since the cache was added; for a cache as old as the run it is exact. `BestSplitRecommended`: what is recommended
  isolates an object and is below "misses nosc" by more than the threshold, and no split of a faithful cache has fewer
  misses in the whole run than it has since its registration. A cache that is added later lacks the earlier misses
  while "misses nosc" has them (`pincpt.py:178`): the script can recommend a split that is worse than none.
  `ReductionFound`: it never misses a reduction that a faithful cache would bring, as long as the run has a pair of
  large objects (`pincpt.py:11`).

What the violated ones show:

* `profiler_stray`: `on_block_seen` records a block's new data object after the old
  one was freed, but its nodes stay in the old partition's lists. Two blocks of an object
  are accessed, the object is freed, both are accessed again: the next access calls
  `move_markers` of a simulator with a bucket that is not active in it. The assertion
  `topBucket < next_bucket_` is compiled out, so a marker that was never set is
  decremented.
* `profiler_skip`: `RD_accessBlock` skips an access to the thread's own previous
  block. When another thread has accessed another block meanwhile, that is not an access
  of distance zero, and it is neither counted nor does it move its block. With
  one thread (`profiler_objects`) the same property holds.

**Bounds.** Five blocks are one more than the largest capacity, so every bucket gets
active and blocks are evicted; eight accesses fill the stack and reorder it. The
levels share a distance and leave a gap, as the real table does. Three threads are the
fewest with a waiter behind a waiter. Blocks of two bytes let an object begin inside a
block and cross into another. Two overlapping allocations force a
free between their registrations. Five accesses reach a corrupt cache with one thread: two
blocks, and both again after the free. In Profiler `MaxAccesses`,
`MaxObjects` and `MayFree` are the only bounds in guards; the other modules name theirs among the
constants. In `regions` one region is called like the row of the whole run, so two rows share a name, and
`thread_count_` has three bits, which a surplus exit wraps; one bucket suffices there, since regions treat all counters
alike. In `instrumentation` the targets
have pointer types before and after their use and at depth 2, variables, overloads, function types, an entry without a
name, a name of two words and a routine with a suffix. In `recommendation` three blocks overflow the L1, so accesses
miss, lines are evicted, and a split of one way each can be better than none; a threshold of 10 % lets a
reduction of one in seven misses pass. The target has one thread, makes at most four accesses if it
frees something and frees only what is registered (`MCFreesBound`, a state constraint). Both objects may be registered at
any time, before or after accesses to their memory, and be freed. Three blocks never overflow any split of the L2, so it is
never recommended in the run; L2 loops and targets with two threads are covered by the theorems only.

`CHECK_DEADLOCK FALSE` is set where the bounded target stops: in all runs but `lock` and `locking`.

**Fairness.** MCSLock and Locking state fairness. MCSLock: a thread that is inside `lock`, inside the
critical section or inside `unlock` goes on, since the threads are preemptively scheduled. That a thread gets through
the critical section is an assumption there, since `memAccess` takes `g_rwlock` inside (`pincpt.cpp:211`); Locking
has both locks and shows that each call ends (`CallsEnd`). No thread
has to access memory again. Locking has weak fairness for the steps of a call, and strong fairness for the
grant of Pin's locks, since these are only specified by Pin: with weak fairness alone a writer of `g_rwlock`
could starve behind readers that follow each other. That Pin's locks do not let a thread wait
for ever is an assumption.

## Proofs

`tlapm` checks, for every set of blocks, bucket table, access sequence and number
of threads:

* `AccessCounted`: one access keeps a simulator consistent, and counts one bucket: that of the number of other blocks
  accessed since, or that of cold misses. The markers
  are at the minimum distances before the access. Those above the block's old position move
  by one node towards the top while the block goes to the front, which is again the
  minimum distance (`OnBlockNewConsistent`, `OnBlockSeenConsistent`).
* `ConsistencyHolds`, `TypeCorrect`: the invariant `IInv` of PartitionedCache is their conjunction with
  `PartitionsSeparate`, which is needed since a block on both stacks would be seen in one and new in the other.
* `IsolatedImplementsReuseDistance`, `RemainingImplementsReuseDistance`: the stack order is
  the order of the last accesses, so the number of newer blocks is the position, and
  the stored bucket is that of the position.
* `SplitMissesHold`, `SharedMissesHold`, `CountingHolds`: the sums of `pincpt.py` are the misses of real caches, for
  every bucket table, every split and every pair of levels. The invariant, `MissIInv`, adds to `IInv` that the lines
  of an LRU cache of C blocks are the top C blocks of its partition's stack (`TopOfStack`). An access misses
  exactly if the block is not among them, that is deeper than C or new; since C is a minimum distance of the table, this
  is so exactly if the bucket that counts the access is one of those the script adds up (`MissIsDeep`, `BeyondIsMiss`).
  The misses are then inductive: an access adds one to its bucket and to the sums that hold it (`AccessAddsToSums`).
* `MutualExclusionHolds`, `NodeNotReusedHolds`, `WakeIsGrantHolds`, and `LockTypeCorrect`: from
  `QueueInvariance`. Mutual
  exclusion alone is not inductive: it needs that `tail` is the end of the queue
  (`TailIsLast`), that `next` or a pending `Link` leads from each qnode to the
  following one (`Chained`), that all but the head wait (`OthersWait`), and what the head
  may be doing (`HeadReady`).
* `Refinement`: each step of MCSLock is a step of FifoLock or invisible in it. `OwnerFacts`
  says what `Owner` and `Waiting` are: the head of the queue, once it is past the
  spinning, and the rest. `Exchange` is then a grant or a request at the end, `Spin` the grant
  to the longest waiting thread, and both ends of `unlock` the release.
* `AddedCachesAre`: `combine` adds the pairs of the new object with the large ones before it, each
  once. An element of a finite set of numbers has a rank, and each rank below the set's size an element.
* `ProfilerProofs`, for any number of threads, allocations, objects and accesses: from `Invariance` the
  state invariants of Profiler's passing runs (`AlignmentHolds`, `ConsistencyHolds`, `AttributionHolds`,
  `StrayNodesHold`, `ColdMissesHold`, `SimulationHolds`, and `TypeCorrect`).
  The invariant has three parts. `ObjectsInv`: the target's allocations are disjoint, a live
  object is one of them, no other object's, and in no call's hands; so an address is in at most one live
  object. `MapInv`: the iterators of a block are as many as the caches were at its last access; a cache
  without foreign nodes is consistent; the object a block is attributed to contains it or is freed
  (`Attributed`), and the block has its nodes in no cache of another object that contains it (`OneObject`).
  The last part is what keeps the caches of live objects free of foreign nodes, and is not
  inductive without `ObjectsInv`. `StepShape`: the access in progress. To the caches each step is then an access, the
  addition of new caches, or nothing.
* `NoFreeNoStray`: in a target that frees nothing each node is in the list its object selects, and no
  lists are spliced. `GlobalImplementsReuseDistance`: the numbers of data object 0 implement
  ReuseDistance in every target; the first cache isolates nothing, so its lists are never
  spliced, and an access of it is one of CacheSimProofs. `OneThreadSkipsZero`: with one thread the
  previous block of the thread is on top of the first cache.
* `RegionsProofs`: `TypeCorrect`, `AlignmentHolds` and `RegionRefinement`. The sum of a region plus
  what its caches have counted since its snapshot is what RegionCount counts, as long as it is entered; a
  registration extends all vectors by zeros, so the equation holds for the new cache too.
* `AccessesHold`, `NoOvercount`: the invariant `LedgerInv` compares what a region has counted in the first cache (as
  RegionCount means it) and what of it is in the region's sums with `total`, a history variable that counts the accesses
  made inside. Neither property is inductive: a missed exit keeps `thread_count_` above the number of activations, so
  that nothing is added to the sums any more, and a surplus exit keeps it below, so that less is counted
  (`LedgerOf`). Without unpaired calls both are equal, and the file, which has one row per cache of which only the
  first isolates nothing (`FileInv`), adds up to `total` less `skipped`, once for each region of the name.
* `SumProofs`: sums of numbers over finite sets, first elements and ranks. `SubsetInduction` is induction over the subsets of a finite set in the
  form of sets instead of predicates: a collection of subsets that holds the empty set and is closed under adding an element
  holds them all, by the well-foundedness of the numbers. How a sum takes in an element, and that it grows with its
  function, follow from it.
* `RecommendationProofs`: `LateCachesHold`, `BestSplitHolds`, `ReductionHolds`, for any threads, blocks, allocations, frees,
  registrations, levels and thresholds. `TargetInvariance` extends the invariant of ProfilerProofs by what each cache that
  is neither corrupt nor misplaced has to do with the lines of the target (`CachesTracked`): for every partition and
  capacity, stack and lines agree in every place that both have, and only a full cache has fewer lines than the stack (`Follows`). A
  late cache starts empty beside lines from earlier accesses. What it is told of goes to the front of both, so the lines
  it lacks are always the oldest. "At most" is not inductive: the cold miss of a late cache on a block that the target
  holds is no miss of the target. `Tracks` therefore adds the length of the lines to the count and that of the stack to
  the misses: each line the cache lacks came with a miss before, and such an access makes one less of them.
  `LastInv` says that the previous block is the newest line of its partition, so that what is skipped rightly
  changes nothing. The loops' choice exists since their order is total on the candidates, of which there are finitely
  many (`FirstExists`, `RecommendedFacts`); a split of no object is no candidate since fewer ways add up more buckets
  (`NoDatastructFacts`), and what is no candidate is above the threshold that every candidate is below.
* `FunctionsHold`, `PointersHold`, `ArgumentsHold`, for any output of objdump, any images, routines,
  allocations and calls: the invariant `IInv` of InstrumentationProofs has one part for each of the actors.
  `Reader`: the two flags are set exactly while the last header read is a function's, or a parameter's
  (`CurrentStep`, `EntryIs`), so an attribute goes to the entry that it belongs to; a line then changes the
  last function described and no other (`HeaderDescribed`, `AttributeDescribed`). The types read are those at depth 1,
  and others only if something else was described (`AllScanned`). `Loader`: routines are looked at
  when all of the output is read, so a call of `Inspector` that was inserted once is the right one for ever.
  `Heap` and `Registry`: the live objects of the target are apart, and the followed allocations are the
  entries of the registry in their order, with `is_freed` set when they are no longer live. So an address is in at
  most one entry that is not freed, and this one has the number of the object (`NumbersAre`, `ContainsIs`,
  `ObjectContains`); what `free` marks is that of the object freed (`DatastructNumFinds`). Failed
  allocations are the exception: their entries contain null. `FunctionArguments`: what is in the
  map keeps its meaning as more is registered or freed.
* Locking: `ExclusionHolds`, `NoDeadlock`, `MaxThreadsHolds`, `TypeCorrect`. The invariant lists for each
  lock the locations of its holder. Since the locks are taken in one order, the holder of the
  last one of that order never waits.

The assumptions are those named in the modules: a bucket table that starts with 0 and
increases, sentinels that are no blocks or threads, allocations at addresses above 0; that
objdump's output has no parameter before the first function (`OutputsAssumption`); for MissAnalysis that a level has a way and a way a
block (`WaysAssumption`) and that the table has every capacity, as `main` builds it (`CapacityAssumption`; TLC evaluates
it on BucketTable's tables); for Recommendation the same, with a threshold of 0 to 100 and a `None` that is no recommendation; for DebugReader that an unwritten element has some value (`LeftoverAssumption`); for Regions that the targets' regions are finitely many and "main" is none of their pointers.

Only model-checked: the liveness properties `NoStarvation`, `UnlockEnds` and `CallsEnd`, since the provers cannot reason about
fairness. `TopBucketActive` is false.

## Not modelled

* Reading, formatting and printing, with the CSV file and `print_fnargmap`; Pin itself; `Prototype`, which builds argument lists.
* `realloc`, which is not replaced; the overflow of `calloc`'s product; the undefined result of a
  failed `posix_memalign`; a failed allocation larger than the addresses in use.
* The move of the vector of data objects under `NewFree` and `Inspector`. The access is undefined;
  `SharedDataGuarded` says that no other access of it is.
* Thread numbers beyond `MAX_THREADS`, for which the code has a TODO.
* `Exit` while other threads run: whether they do is up to Pin.
* What reading an unwritten name does (`debug_reader.cpp:191`): DebugReader takes it for no function's name.
  Functions without a name are instances of others, which the flags in `README.md:17` of the tool
  largely avoid. A parameter before the first function (`debug_reader.cpp:119`) is excluded by an assumption.
* An instruction with both a stack operand and another one is not analysed at all
  (`pincpt.cpp:274`): `stack` of an instruction stands for any such operand.
* The choice of regions in `pincpt.py`: Recommendation is about the region "main" of a target none of whose regions has
  that name. In a region, caches
  begin with what they hold at its entry, so the sums have no caches of their own to be compared with.
* What is counted in caches that are not faithful: the script compares splits there that the target does not have.
* `mcslock.cpp` and the output files hold no code.

## Plan

1. Done: lock, simulators, partitions, miss sums, registry, access path, regions, locks,
   instrumentation, recommendation; every safety property of a passing run is proved.
2. Left: the vector of data objects as memory that moves (`Registry`), and the recommendation per region.
