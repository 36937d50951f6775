------------------------------ MODULE Profiler ------------------------------
(***************************************************************************)
(* The profiler at run time: the accesses of the target's threads          *)
(* (memAccess and RD_accessBlock of src/pincpt.cpp) and the replaced       *)
(* allocation functions (src/imgload.cpp) on the shared data: the vector   *)
(* of data objects, the vector of caches and the map from memory blocks to *)
(* their nodes.                                                            *)
(*                                                                         *)
(* memAccess holds the MCS lock and g_rwlock for reading, registration     *)
(* holds g_rwlock for writing, and NewFree holds nothing: it may run       *)
(* between the two blocks of an access, and between the two steps of an    *)
(* allocation.  A memory block is the number of its first byte divided by  *)
(* BlockLen.                                                               *)
(*                                                                         *)
(* on_block_seen may be given an iterator of the other partition's list.   *)
(* What such a splice makes of the two lists is undefined; the cache is    *)
(* `corrupt` from then on and the model follows it no further.             *)
(***************************************************************************)
EXTENDS CacheSim, Datastructs

CONSTANTS
  Thread,
  BlockLen,      \* MEMBLOCKLEN
  Allocation,    \* the << address, nbytes >> the allocator may hand out
  MayFree,       \* whether the target frees memory at all
  MaxObjects,    \* bound: data objects besides number 0
  MaxAccesses    \* bound: memory blocks accessed

NoBlock == 0     \* addr_prev's initial value, the block of the null pointer

ASSUME ThreadAssumption == NoBlock \notin Thread
ASSUME BlockAssumption == Block \subseteq Nat \ {NoBlock}
ASSUME BlockLenAssumption == BlockLen \in Nat \ {0}
ASSUME AllocationAssumption == Allocation \subseteq (Nat \ {0}) \X Nat
ASSUME LimitAssumption == MayFree \in BOOLEAN /\ MaxObjects \in Nat /\ MaxAccesses \in Nat

VARIABLES
  heap,         \* the allocations that are live in the target
  call,         \* the allocation function each thread is in
  datastructs,  \* Datastruct::datastructs
  cachesims,    \* g_cachesims
  addrMap,      \* g_addrMap
  addr_prev,    \* the static array of RD_accessBlock
  second,       \* the second block of the access in progress, and its thread
  corrupt,      \* indices of the caches with a foreign node in a list
  accesses      \* number of blocks accessed so far

vars == << heap, call, datastructs, cachesims, addrMap, addr_prev, second, corrupt, accesses >>

NoCall == [op |-> "none"]
NoSecond == [thread |-> NoBlock, block |-> NoBlock]

Base(x) == x * BlockLen

NewPartitionedCache(ds_nums) ==
  [ds_nums |-> ds_nums, partition |-> [p \in 0 .. 1 |-> NewCacheSim]]

\* A wrong first access: counted as if the block were on top.
CacheNewCountedZero(cs, ds_num, x) ==
  LET p == PartitionFor(cs, ds_num)
  IN  [cs EXCEPT !.partition =
         [cs.partition EXCEPT ![p] = IncrAccess(OnBlockNew(cs.partition[p], x), 0)]]

\* PartitionedCache::on_block_new and incr_access_inf.
CacheNew(cs, ds_num, x) ==
  LET p == PartitionFor(cs, ds_num)
  IN  [cs EXCEPT !.partition =
         [cs.partition EXCEPT ![p] = IncrAccess(OnBlockNew(cs.partition[p], x), InfBucket)]]

\* PartitionedCache::on_block_seen and incr_access.
CacheSeen(cs, ds_num, x) ==
  LET p == PartitionFor(cs, ds_num)
      c == cs.partition[p]
  IN  [cs EXCEPT !.partition =
         [cs.partition EXCEPT ![p] = IncrAccess(OnBlockSeen(c, x), SeenBucket(c, x))]]

\* The caches register_datastruct pushes, after ds has been pushed.
Registered(dss, css) ==
  LET added == AddedCaches(dss)
  IN  css \o [i \in 1 .. Len(added) |-> NewPartitionedCache(added[i])]

\* RD_init registers data object 0, at address 0 and without a byte.
Init ==
  /\ heap = {}
  /\ call = [t \in Thread |-> NoCall]
  /\ datastructs = << NewDatastruct(0, 0) >>
  /\ cachesims = Registered(datastructs, << >>)
  /\ addrMap = << >>
  /\ addr_prev = [t \in Thread |-> NoBlock]
  /\ second = NoSecond
  /\ corrupt = {}
  /\ accesses = 0

-----------------------------------------------------------------------------
(* Memory accesses *)

\* on_block_new: the block gets its data object, and a node in every cache.
NewBlock(x) ==
  LET ds_num == DatastructNum(datastructs, Base(x))
      entry  == [ds_num    |-> ds_num,
                 iterators |-> [i \in 1 .. Len(cachesims) |-> PartitionFor(cachesims[i], ds_num)]]
  IN  /\ addrMap' = [y \in DOMAIN addrMap \cup {x} |-> IF y = x THEN entry ELSE addrMap[y]]
      /\ cachesims' = [i \in 1 .. Len(cachesims) |->
                         IF i \in corrupt THEN cachesims[i]
                         ELSE CacheNew(cachesims[i], ds_num, x)]
      /\ UNCHANGED corrupt

\* The data object on_block_seen leaves in the block's entry.
Reattributed(x) ==
  IF datastructs[addrMap[x].ds_num + 1].is_freed
  THEN DatastructNum(datastructs, Base(x))
  ELSE addrMap[x].ds_num

\* The data object on_block_seen hands to the caches that were added since the
\* block's last access: ic.ds_num_, not the local ds_num.
LateObjectOld(old, new) == old
LateObjectNone(old, new) == NoDatastruct
LateObject(old, new) == new

\* A wrong on_block_seen: the iterators of the new nodes are not stored.
StoredUnextended(x, late) == addrMap[x].iterators

\* iterators_ after on_block_seen: one iterator per cache.
Stored(x, late) ==
  [i \in 1 .. Len(cachesims) |->
     PartitionFor(cachesims[i],
                  IF i <= Len(addrMap[x].iterators) THEN addrMap[x].ds_num ELSE late)]

\* on_block_seen: the caches that have a node of the block already are given
\* the data object it had before this access, the caches registered since its
\* last access the one it has now.
SeenBlock(x) ==
  LET old   == addrMap[x].ds_num
      new   == Reattributed(x)
      late  == LateObject(old, new)
      nodes == addrMap[x].iterators
      known == 1 .. Len(nodes)
  IN  /\ corrupt' = corrupt \cup {i \in known : nodes[i] # PartitionFor(cachesims[i], old)}
      /\ addrMap' = [addrMap EXCEPT ![x] = [ds_num |-> new, iterators |-> Stored(x, late)]]
      /\ cachesims' = [i \in 1 .. Len(cachesims) |->
                         IF i \in corrupt' THEN cachesims[i]
                         ELSE IF i \in known THEN CacheSeen(cachesims[i], old, x)
                         ELSE CacheNew(cachesims[i], late, x)]

\* A wrong RD_accessBlock: addr_prev is only stored for a new block.
AccessBlockStale(t, x) ==
  /\ accesses' = accesses + 1
  /\ addr_prev' = IF x \in DOMAIN addrMap THEN addr_prev ELSE [addr_prev EXCEPT ![t] = x]
  /\ \/ addr_prev[t] = x /\ UNCHANGED << addrMap, cachesims, corrupt >>
     \/ addr_prev[t] # x /\ x \notin DOMAIN addrMap /\ NewBlock(x)
     \/ addr_prev[t] # x /\ x \in DOMAIN addrMap /\ SeenBlock(x)

\* RD_accessBlock; a block that is the thread's previous one is not looked at.
AccessBlock(t, x) ==
  /\ accesses' = accesses + 1
  /\ addr_prev' = [addr_prev EXCEPT ![t] = x]
  /\ \/ addr_prev[t] = x /\ UNCHANGED << addrMap, cachesims, corrupt >>
     \/ addr_prev[t] # x /\ x \notin DOMAIN addrMap /\ NewBlock(x)
     \/ addr_prev[t] # x /\ x \in DOMAIN addrMap /\ SeenBlock(x)

\* memAccess of bytes in one block, or of bytes that cross into the next.
\* The target's allocator is instrumented as well, so a thread may access any
\* block at any time, except between an allocation and its registration.
MemAccess(t, x, crosses) ==
  /\ second = NoSecond
  /\ call[t].op # "malloc"
  /\ accesses + (IF crosses THEN 2 ELSE 1) <= MaxAccesses
  /\ AccessBlock(t, x)
  /\ crosses => x + 1 \in Block
  /\ second' = IF crosses THEN [thread |-> t, block |-> x + 1] ELSE NoSecond
  /\ UNCHANGED << heap, call, datastructs >>

\* The second RD_accessBlock of memAccess.
SecondAccess(t) ==
  /\ second.thread = t
  /\ AccessBlock(t, second.block)
  /\ second' = NoSecond
  /\ UNCHANGED << heap, call, datastructs >>

-----------------------------------------------------------------------------
(* Allocation functions *)

Disjoint(a, b) == a[1] + a[2] <= b[1] \/ b[1] + b[2] <= a[1]

\* NewMalloc and its likes: the call of the original function ...
Malloc(t, a) ==
  /\ second.thread # t
  /\ call[t] = NoCall
  /\ \A b \in heap : Disjoint(a, b)
  /\ heap' = heap \cup {a}
  /\ call' = [call EXCEPT ![t] = [op |-> "malloc", alloc |-> a]]
  /\ UNCHANGED << datastructs, cachesims, addrMap, addr_prev, second, corrupt, accesses >>

\* ... and handle_datastruct, once no access holds g_rwlock.  Whether Pin
\* knows the source file of the call is not up to the profiler.
HandleDatastruct(t, has_file) ==
  /\ call[t].op = "malloc"
  /\ second = NoSecond
  /\ call' = [call EXCEPT ![t] = NoCall]
  /\ LET a == call[t].alloc
     IN  IF has_file /\ a[2] > DatastructThreshold
         THEN /\ Len(datastructs) <= MaxObjects
              /\ datastructs' = Append(datastructs, NewDatastruct(a[1], a[2]))
              /\ cachesims' = Registered(datastructs', cachesims)
         ELSE UNCHANGED << datastructs, cachesims >>
  /\ UNCHANGED << heap, addrMap, addr_prev, second, corrupt, accesses >>

\* The pointers the target may free: live, returned to it, freed by nobody.
Freeable(a) ==
  a \in heap /\ \A t \in Thread : call[t] # NoCall => call[t].alloc # a

NullAllocation == << 0, 0 >>

\* A wrong NewFree: the data object is not marked.
NewFreeUnmarked(t, a) ==
  /\ MayFree
  /\ second.thread # t
  /\ call[t] = NoCall
  /\ a = NullAllocation \/ Freeable(a)
  /\ call' = [call EXCEPT ![t] = [op |-> "free", alloc |-> a]]
  /\ UNCHANGED << heap, datastructs, cachesims, addrMap, addr_prev, second, corrupt, accesses >>

\* NewFree, under no lock: the data object is marked, number 0 when the
\* pointer is null or belongs to an allocation that was not registered ...
NewFree(t, a) ==
  /\ MayFree
  /\ second.thread # t
  /\ call[t] = NoCall
  /\ a = NullAllocation \/ Freeable(a)
  /\ datastructs' = [datastructs EXCEPT ![DatastructNum(datastructs, a[1]) + 1].is_freed = TRUE]
  /\ call' = [call EXCEPT ![t] = [op |-> "free", alloc |-> a]]
  /\ UNCHANGED << heap, cachesims, addrMap, addr_prev, second, corrupt, accesses >>

\* ... and the call of the original function gives the memory back.
OrgFree(t) ==
  /\ second.thread # t
  /\ call[t].op = "free"
  /\ heap' = heap \ {call[t].alloc}
  /\ call' = [call EXCEPT ![t] = NoCall]
  /\ UNCHANGED << datastructs, cachesims, addrMap, addr_prev, second, corrupt, accesses >>

-----------------------------------------------------------------------------
Next ==
  \E t \in Thread :
    \/ \E x \in Block, crosses \in BOOLEAN : MemAccess(t, x, crosses)
    \/ SecondAccess(t)
    \/ \E a \in Allocation : Malloc(t, a)
    \/ \E has_file \in BOOLEAN : HandleDatastruct(t, has_file)
    \/ \E a \in Allocation \cup {NullAllocation} : NewFree(t, a)
    \/ OrgFree(t)

Spec == Init /\ [][Next]_vars

-----------------------------------------------------------------------------
Entry == [ds_num : Nat, iterators : Seq(0 .. 1)]

TypeOK ==
  /\ heap \subseteq Allocation
  /\ \A t \in Thread : call[t] = NoCall \/ call[t] \in
       [op : {"malloc", "free"}, alloc : Allocation \cup {NullAllocation}]
  /\ datastructs \in Seq([address : Nat, nbytes : Nat, is_freed : BOOLEAN])
  /\ cachesims \in Seq([ds_nums : SUBSET Nat, partition : [0 .. 1 -> CacheSimState]])
  /\ DOMAIN addrMap \subseteq Block /\ \A x \in DOMAIN addrMap : addrMap[x] \in Entry
  /\ addr_prev \in [Thread -> Block \cup {NoBlock}]
  /\ second = NoSecond \/ second \in [thread : Thread, block : Block]
  /\ corrupt \subseteq 1 .. Len(cachesims)
  /\ accesses \in 0 .. MaxAccesses

Caches == 1 .. Len(cachesims)

LargeOnes(ds) == {k \in 1 .. Len(ds) - 1 : ds[k + 1].nbytes >= CombineThreshold}

\* The sets of data objects to isolate: none, each, and every two large ones.
Wanted(ds) ==
  {{}} \cup {{k} : k \in 1 .. Len(ds) - 1} \cup {{j, k} : j, k \in LargeOnes(ds)}

\* For every registered data object there is one cache that isolates it alone,
\* and for every two one that isolates both (those below the combination
\* threshold aside); nothing is simulated twice, and the first cache isolates
\* nothing.
EveryObjectSimulated ==
  /\ cachesims[1].ds_nums = {}
  /\ {cachesims[i].ds_nums : i \in Caches} = Wanted(datastructs)
  /\ \A i, j \in Caches : cachesims[i].ds_nums = cachesims[j].ds_nums => i = j

\* A block's iterators are aligned with the caches although caches are added
\* while blocks keep the iterators they have: the i-th iterator is that of the
\* block's only node in the i-th cache, and a cache added after the block's
\* last access has no node of it.
IteratorsAligned ==
  /\ \A x \in DOMAIN addrMap : Len(addrMap[x].iterators) \in Caches
  /\ \A i \in Caches \ corrupt : \A p \in 0 .. 1 : \A x \in Block :
       OnStack(cachesims[i].partition[p], x) <=>
         /\ x \in DOMAIN addrMap
         /\ i <= Len(addrMap[x].iterators)
         /\ addrMap[x].iterators[i] = p

\* The map's comment: "we need to store the iterators to the memory block
\* within each stack".  The stack of a cache that on_block_seen will splice a
\* block's node in, the one of the partition that the block's data object
\* selects, is the stack that node is in.
IteratorsWithinStack ==
  \A x \in DOMAIN addrMap : \A i \in 1 .. Len(addrMap[x].iterators) :
    addrMap[x].iterators[i] = PartitionFor(cachesims[i], addrMap[x].ds_num)

\* "assert(topBucket < next_bucket_ && topBucket >= 0)" in move_markers: the
\* bucket on_block_seen reads from a block's node is an active bucket of the
\* simulator whose markers it then moves.
TopBucketActive ==
  \A x \in DOMAIN addrMap : \A i \in 1 .. Len(addrMap[x].iterators) :
    i \notin corrupt =>
      LET cs == cachesims[i]
      IN  cs.partition[addrMap[x].iterators[i]].bucket[x]
            < cs.partition[PartitionFor(cs, addrMap[x].ds_num)].next_bucket

\* A node is in a list that its block's data object does not select only in a
\* cache that isolates an object some free has marked, as long as no free of a
\* pointer that is not registered has marked data object 0: then the caches of
\* the objects that live on have every node where they look for it.
StrayNodesNeedFree ==
  LET isolatesFreed(i) == \E k \in cachesims[i].ds_nums \cup {NoDatastruct} :
                            datastructs[k + 1].is_freed
  IN  /\ \A i \in corrupt : isolatesFreed(i)
      /\ \A x \in DOMAIN addrMap : \A i \in 1 .. Len(addrMap[x].iterators) :
           addrMap[x].iterators[i] # PartitionFor(cachesims[i], addrMap[x].ds_num)
             => isolatesFreed(i)

\* A block is attributed to a live data object only if it begins in that
\* object's memory: the object is an allocation still in the target's heap,
\* whatever was freed and handed out again in between.
AttributionSound ==
  \A x \in DOMAIN addrMap :
    LET k  == addrMap[x].ds_num
        ds == datastructs[k + 1]
    IN  k # NoDatastruct /\ ~ds.is_freed =>
          /\ << ds.address, ds.nbytes >> \in heap
          /\ Contains(ds, Base(x))
          /\ DatastructNum(datastructs, Base(x)) = k

\* Every block has one cold miss per cache, that of the access that made its
\* node: in the caches added late the first access after that is one as well.
ColdMissPerNode ==
  \A i \in Caches \ corrupt :
    LET p0 == cachesims[i].partition[0]
        p1 == cachesims[i].partition[1]
    IN  p0.count[InfBucket] + p1.count[InfBucket] = Len(p0.stack) + Len(p1.stack)

\* In every cache without a foreign node both partitions keep the sanity check
\* of cachesim.cpp.
CachesConsistent ==
  \A i \in Caches \ corrupt : \A p \in 0 .. 1 : Consistent(cachesims[i].partition[p])

Reuse == INSTANCE ReuseDistance WITH
  seen <- SeenOf(cachesims[1].partition[1]),
  newer <- NewerOf(cachesims[1].partition[1]),
  hist <- cachesims[1].partition[1].count

\* Thread t accesses block x in this step.
Accesses(t, x) ==
  \/ \E crosses \in BOOLEAN : MemAccess(t, x, crosses)
  \/ second.block = x /\ SecondAccess(t)

\* The numbers printed for data object 0 are the reuse distance histogram of
\* the whole target, whatever it allocates and frees and whatever becomes of
\* the other caches: each access that is looked at is an access of the
\* abstract histogram, to the same block, and nothing else changes that.
GlobalHistogram ==
  /\ Reuse!Spec
  /\ [][\A t \in Thread, x \in Block :
          Accesses(t, x) /\ addr_prev[t] # x => Reuse!Access(x)]_vars

\* "Do not account for zero distance accesses": an access that is not looked
\* at is one of reuse distance zero.
SkipsZeroDistance ==
  [][\A t \in Thread, x \in Block :
       Accesses(t, x) /\ addr_prev[t] = x => cachesims[1].partition[1].stack[1] = x]_vars
=============================================================================
