------------------------------ MODULE CacheSim ------------------------------
(***************************************************************************)
(* Class CacheSim (src/cachesim.h, src/cachesim.cpp): one LRU stack of     *)
(* memory blocks whose bucket boundaries are kept by markers, so that the  *)
(* histogram bucket of an access is known without walking the stack.       *)
(*                                                                         *)
(* A simulator is a record, its methods are operators on that record:      *)
(*                                                                         *)
(*   stack        std::list<MemoryBlock> stack_, the top of the stack first*)
(*   bucket       MemoryBlock::bucket of every block's node                *)
(*   marker       Bucket::marker, an iterator to a node; NoNode is the     *)
(*                default-constructed iterator of an inactive bucket       *)
(*   next_bucket  next_bucket_, the lowest bucket that is not active yet   *)
(*   count        Bucket::access_count                                     *)
(*                                                                         *)
(* A block has at most one node per simulator, so a node is named by its   *)
(* block and an iterator is a block or NoNode.                             *)
(***************************************************************************)
EXTENDS Naturals, Sequences, FiniteSets

CONSTANTS
  Block,      \* the memory blocks of the target (g_addrMap's keys)
  MinDist,    \* Bucket::min_dists without its last element
  InfBucket,  \* index of the last bucket, whose min_dists is inf_dist
  NoNode

\* What main() makes of min_dists: 0 first, sorted, without duplicates,
\* inf_dist (here: beyond every number) last.
ASSUME MinDistAssumption ==
  /\ InfBucket \in Nat \ {0}
  /\ MinDist \in [0 .. InfBucket - 1 -> Nat]
  /\ MinDist[0] = 0
  /\ \A i, j \in 0 .. InfBucket - 1 : i < j => MinDist[i] < MinDist[j]

ASSUME NoNodeAssumption == NoNode \notin Block

Bucket == 0 .. InfBucket

CacheSimState ==
  [stack       : Seq(Block),
   bucket      : [Block -> Nat],
   marker      : [1 .. InfBucket - 1 -> Block \cup {NoNode}],
   next_bucket : 1 .. InfBucket,
   count       : [Bucket -> Nat]]

\* A wrong constructor: the bucket of distance 0 is not active yet.
NewCacheSimNoBucket ==
  [stack       |-> << >>,
   bucket      |-> [x \in Block |-> 0],
   marker      |-> [b \in 1 .. InfBucket - 1 |-> NoNode],
   next_bucket |-> 0,
   count       |-> [b \in Bucket |-> 0]]

\* The constructor, with the in-class initialisers of the members.
NewCacheSim ==
  [stack       |-> << >>,
   bucket      |-> [x \in Block |-> 0],
   marker      |-> [b \in 1 .. InfBucket - 1 |-> NoNode],
   next_bucket |-> 1,
   count       |-> [b \in Bucket |-> 0]]

OnStack(c, x) == \E i \in 1 .. Len(c.stack) : c.stack[i] = x

Position(c, x) == CHOOSE i \in 1 .. Len(c.stack) : c.stack[i] = x

\* --it on a list iterator.
Previous(c, x) == c.stack[Position(c, x) - 1]

\* A wrong move_markers: the nodes the markers reach keep their bucket.
MoveMarkersOnly(c, topBucket) ==
  [c EXCEPT !.marker = [b \in DOMAIN c.marker |->
                          IF b <= topBucket THEN Previous(c, c.marker[b]) ELSE c.marker[b]]]

\* move_markers: every marker up to topBucket goes one node towards the top,
\* and the node it reaches moves into the marker's bucket.
MoveMarkers(c, topBucket) ==
  LET moved(b) == Previous(c, c.marker[b])
      hits(x)  == {b \in 1 .. topBucket : moved(b) = x}
  IN  [c EXCEPT
        !.marker = [b \in DOMAIN c.marker |->
                      IF b <= topBucket THEN moved(b) ELSE c.marker[b]],
        !.bucket = [x \in Block |-> c.bucket[x] + Cardinality(hits(x))]]

\* on_next_bucket_gets_active: the last node is the first of a new bucket.
OnNextBucketGetsActive(c) ==
  LET last == c.stack[Len(c.stack)]
  IN  [c EXCEPT !.marker = [c.marker EXCEPT ![c.next_bucket] = last],
                !.bucket = [c.bucket EXCEPT ![last] = @ + 1],
                !.next_bucket = c.next_bucket + 1]

\* push_front of a default MemoryBlock (bucket 0).
PushFront(c, x) ==
  [c EXCEPT !.stack = << x >> \o c.stack, !.bucket = [c.bucket EXCEPT ![x] = 0]]

\* A wrong on_block_new: a bucket gets active one block too late.
OnBlockNewLate(c, x) ==
  LET moved == MoveMarkers(PushFront(c, x), c.next_bucket - 1)
  IN  IF /\ moved.next_bucket # InfBucket
         /\ Len(moved.stack) > MinDist[moved.next_bucket] + 1
      THEN OnNextBucketGetsActive(moved)
      ELSE moved

OnBlockNew(c, x) ==
  LET moved == MoveMarkers(PushFront(c, x), c.next_bucket - 1)
  IN  IF /\ moved.next_bucket # InfBucket
         /\ Len(moved.stack) > MinDist[moved.next_bucket]
      THEN OnNextBucketGetsActive(moved)
      ELSE moved

\* stack_.splice(stack_.begin(), stack_, it)
MoveToFront(s, i) == << s[i] >> \o SubSeq(s, 1, i - 1) \o SubSeq(s, i + 1, Len(s))

\* A wrong on_block_seen: the bucket is read after it has been reset.
SeenBucketAfterReset(c, x) == 0

\* The bucket on_block_seen returns, and the state it leaves.
SeenBucket(c, x) == IF x = c.stack[1] THEN 0 ELSE c.bucket[x]

OnBlockSeen(c, x) ==
  LET moved == MoveMarkers(c, c.bucket[x])
  IN  IF x = c.stack[1]
      THEN c
      ELSE [moved EXCEPT !.stack = MoveToFront(moved.stack, Position(c, x)),
                         !.bucket = [moved.bucket EXCEPT ![x] = 0]]

IncrAccess(c, b) == [c EXCEPT !.count = [c.count EXCEPT ![b] = @ + 1]]

\* A wrong access: incr_access_inf is not called for a new block.
AccessSimHitsOnly(c, x) ==
  IF OnStack(c, x)
  THEN IncrAccess(OnBlockSeen(c, x), SeenBucket(c, x))
  ELSE OnBlockNew(c, x)

\* One access as pincpt.cpp makes it on every simulator: on_block_new and
\* incr_access_inf for a block without a node, on_block_seen and incr_access
\* of the bucket it returned for the others.
AccessSim(c, x) ==
  IF OnStack(c, x)
  THEN IncrAccess(OnBlockSeen(c, x), SeenBucket(c, x))
  ELSE IncrAccess(OnBlockNew(c, x), InfBucket)

-----------------------------------------------------------------------------
(***************************************************************************)
(* What the methods rely on and re-establish (the comment and the loop of  *)
(* check_consistency, and the asserts of move_markers and                  *)
(* on_next_bucket_gets_active).                                            *)
(***************************************************************************)

\* No block has two nodes.
StackDistinct(c) ==
  \A i, j \in 1 .. Len(c.stack) : c.stack[i] = c.stack[j] => i = j

\* Every active marker points at the node whose distance from the top is the
\* minimum distance of its bucket.
MarkersInPlace(c) ==
  \A b \in 1 .. c.next_bucket - 1 :
    /\ MinDist[b] < Len(c.stack)
    /\ c.marker[b] = c.stack[MinDist[b] + 1]

\* A bucket is active exactly when the stack is deep enough to reach it.
ActiveBuckets(c) ==
  c.next_bucket # InfBucket => Len(c.stack) <= MinDist[c.next_bucket]

\* The bucket number in every node is the bucket of the node's distance from
\* the top of the stack.
BucketsInPlace(c) ==
  \A i \in 1 .. Len(c.stack) :
    /\ c.bucket[c.stack[i]] \in 0 .. c.next_bucket - 1
    /\ \A b \in 1 .. c.next_bucket - 1 :
         b <= c.bucket[c.stack[i]] <=> MinDist[b] <= i - 1

Consistent(c) ==
  /\ c \in CacheSimState
  /\ StackDistinct(c)
  /\ MarkersInPlace(c)
  /\ ActiveBuckets(c)
  /\ BucketsInPlace(c)
-----------------------------------------------------------------------------
\* What a stack says about the accesses it has seen: which blocks there were,
\* and which of two was accessed later.
SeenOf(c)  == {c.stack[i] : i \in 1 .. Len(c.stack)}
NewerOf(c) == UNION {{<< c.stack[i], c.stack[j] >> : i \in 1 .. j - 1} : j \in 1 .. Len(c.stack)}
=============================================================================
