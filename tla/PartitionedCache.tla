-------------------------- MODULE PartitionedCache --------------------------
(***************************************************************************)
(* Class PartitionedCache (src/cachesim.h, src/cachesim.cpp): two          *)
(* simulators, partition 0 for the blocks of the isolated data objects and *)
(* partition 1 for all the others, driven by a sequence of block accesses  *)
(* (on_block_new / on_block_seen of src/pincpt.cpp for one cache) in which *)
(* no block changes its data object.                                       *)
(***************************************************************************)
EXTENDS CacheSim

CONSTANTS
  Isolated,     \* the blocks of the data objects in ds_nums_
  MaxAccesses   \* bound: length of the access sequence

ASSUME IsolatedAssumption == Isolated \subseteq Block
ASSUME BoundAssumption == MaxAccesses \in Nat

VARIABLES
  partition,   \* partition0_ and partition1_
  accesses     \* number of accesses so far

vars == << partition, accesses >>

\* contains(ds_num) chooses the partition.
PartitionOf(x) == IF x \in Isolated THEN 0 ELSE 1

Members(p) == {x \in Block : PartitionOf(x) = p}

Init ==
  /\ partition = [p \in 0 .. 1 |-> NewCacheSim]
  /\ accesses = 0

Access(x) ==
  /\ accesses < MaxAccesses
  /\ partition' = [partition EXCEPT ![PartitionOf(x)] = AccessSim(@, x)]
  /\ accesses' = accesses + 1

Next == \E x \in Block : Access(x)

Spec == Init /\ [][Next]_vars

-----------------------------------------------------------------------------
TypeOK ==
  /\ partition \in [0 .. 1 -> CacheSimState]
  /\ accesses \in Nat

\* The sanity check of cachesim.cpp holds after every access, in both
\* partitions: every active marker is at its bucket's minimum distance from
\* the top, exactly the buckets the stack reaches are active, and the bucket
\* stored in every node is the bucket of that node's distance.  One marker
\* moved too little or one bucket activated too late breaks it for good.
PartitionsConsistent == \A p \in 0 .. 1 : Consistent(partition[p])

\* No block of one partition is ever found on the stack of the other.
PartitionsSeparate ==
  \A p \in 0 .. 1 : \A i \in 1 .. Len(partition[p].stack) :
    PartitionOf(partition[p].stack[i]) = p

IInv ==
  /\ TypeOK
  /\ PartitionsConsistent
  /\ PartitionsSeparate

Reuse0 == INSTANCE ReuseDistance WITH
  Block <- Members(0), seen <- SeenOf(partition[0]),
  newer <- NewerOf(partition[0]), hist <- partition[0].count
Reuse1 == INSTANCE ReuseDistance WITH
  Block <- Members(1), seen <- SeenOf(partition[1]),
  newer <- NewerOf(partition[1]), hist <- partition[1].count

\* Partition 0 implements the definition of a reuse distance histogram over
\* the blocks of the isolated data objects: markers and stored buckets give
\* every access the bucket that counting the distinct blocks since its last
\* access would give, whatever the other partition does in between.
IsolatedHistogram == Reuse0!Spec

\* And so does partition 1 over the blocks of everything else.
RemainingHistogram == Reuse1!Spec
=============================================================================
