--------------------------- MODULE Recommendation ---------------------------
(***************************************************************************)
(* What src/pincpt.py recommends for a whole run (region "main"): the      *)
(* loops that choose a data object or a pair, and a number of ways for it, *)
(* on each cache level, over the histograms that Profiler leaves when the  *)
(* target has ended.                                                       *)
(*                                                                         *)
(* Beside the profiler run the LRU caches of the target: one for each      *)
(* partition of every way to split each level, for every set of objects.   *)
(* The profiler decides from what it has stored with a block where an      *)
(* access goes, the target's caches from the object that is live at it.    *)
(***************************************************************************)
EXTENDS Profiler, Sums

CONSTANTS
  L1Ways, L1PerWay, L2Ways, L2PerWay,   \* ways, and memory blocks per way
  ReductionThreshold,                   \* REDUCTION_THRESHOLD in percent
  None

ASSUME RecommendationAssumption ==
  ReductionThreshold \in 0 .. 100 /\ None \notin [cs : Nat, nways : Nat, miss_sc : Nat]

\* The levels that main() has: at least one way, of at least one block.
ASSUME WaysAssumption ==
  /\ L1Ways \in Nat \ {0} /\ L1PerWay \in Nat \ {0}
  /\ L2Ways \in Nat \ {0} /\ L2PerWay \in Nat \ {0}

VARIABLES
  lru,           \* history: lru[S][p][C]: the lines of the cache of C blocks for
                 \* partition p when the objects S are isolated, newest first
  misses,        \* history: its misses
  before,        \* history: before[k]: those that were made when cache k was added
  last,          \* history: the last access: its block and the live object there
  misplaced,     \* history: the caches in which an access went elsewhere, or was
                 \* left out although it is not one of distance zero
  phase,         \* the target runs, or pincpt.py is done
  recommendation \* per level: [cs, nways, miss_sc], or None

lruVars == << lru, misses, before, last, misplaced >>
recVars == << vars, lruVars, phase, recommendation >>

Level == 1 .. 2
Ways(level) == IF level = 1 THEN L1Ways ELSE L2Ways
Capacity(level, nways) == nways * (IF level = 1 THEN L1PerWay ELSE L2PerWay)
Capacities == UNION {{Capacity(level, n) : n \in 1 .. Ways(level)} : level \in Level}

\* main() makes the capacity of every number of ways a bucket boundary.
ASSUME CapacityAssumption ==
  \A C \in Capacities : \E b \in 0 .. InfBucket - 1 : MinDist[b] = C

Isolations == {S \in SUBSET (1 .. MaxObjects) : Cardinality(S) <= 2}

RecInit ==
  /\ Init
  /\ lru = [S \in Isolations |-> [p \in 0 .. 1 |-> [C \in Capacities |-> << >>]]]
  /\ misses = [S \in Isolations |-> [p \in 0 .. 1 |-> [C \in Capacities |-> 0]]]
  /\ before = << misses[{}] >>
  /\ last = [block |-> NoBlock, owner |-> NoDatastruct]
  /\ misplaced = {}
  /\ phase = "running"
  /\ recommendation = [level \in Level |-> None]

-----------------------------------------------------------------------------
(* The target's caches *)

Holds(lines, x) == \E i \in 1 .. Len(lines) : lines[i] = x
Line(lines, x) == CHOOSE i \in 1 .. Len(lines) : lines[i] = x

\* x becomes the newest of C lines; without a free one the oldest is evicted.
Touched(lines, C, x) ==
  IF Holds(lines, x) THEN MoveToFront(lines, Line(lines, x))
  ELSE << x >> \o SubSeq(lines, 1, IF Len(lines) < C THEN Len(lines) ELSE C - 1)

\* No block is in both partitions.
Without(lines, x) ==
  IF Holds(lines, x)
  THEN SubSeq(lines, 1, Line(lines, x) - 1) \o SubSeq(lines, Line(lines, x) + 1, Len(lines))
  ELSE lines

\* The live data object that a block begins in.
Owner(x) == DatastructNum(datastructs, Base(x))

LruPartition(S, k) == IF k \in S THEN 0 ELSE 1

\* The caches that do not simulate this access to x where it belongs.
Misplacing(t, x) ==
  LET belongs(k, ds_num) == LruPartition(cachesims[k].ds_nums, ds_num)
  IN  {k \in 1 .. Len(cachesims) :
         IF addr_prev[t] = x
         THEN x # last.block \/ belongs(k, last.owner) # belongs(k, Owner(x))
         ELSE addrMap'[x].iterators[k] # belongs(k, Owner(x))}

Touch(t, x) ==
  /\ lru' = [S \in Isolations |-> [p \in 0 .. 1 |-> [C \in Capacities |->
       IF p = LruPartition(S, Owner(x)) THEN Touched(lru[S][p][C], C, x)
                                        ELSE Without(lru[S][p][C], x)]]]
  /\ misses' = [S \in Isolations |-> [p \in 0 .. 1 |-> [C \in Capacities |->
       IF p = LruPartition(S, Owner(x)) /\ ~Holds(lru[S][p][C], x)
       THEN misses[S][p][C] + 1 ELSE misses[S][p][C]]]]
  /\ last' = [block |-> x, owner |-> Owner(x)]
  /\ misplaced' = misplaced \cup Misplacing(t, x)
  /\ UNCHANGED before

\* A registered object adds caches, which start empty.
NoteCaches ==
  /\ before' = [k \in 1 .. Len(cachesims') |->
       IF k <= Len(cachesims) THEN before[k] ELSE misses[cachesims'[k].ds_nums]]
  /\ UNCHANGED << lru, misses, last, misplaced >>

\* What the target does, in Profiler.
Run(t) ==
  \/ \E x \in Block, crosses \in BOOLEAN : MemAccess(t, x, crosses) /\ Touch(t, x)
  \/ SecondAccess(t) /\ Touch(t, second.block)
  \/ \E a \in Allocation : Malloc(t, a) /\ UNCHANGED lruVars
  \/ \E has_file \in BOOLEAN : HandleDatastruct(t, has_file) /\ NoteCaches
  \/ \E a \in Allocation \cup {NullAllocation} : NewFree(t, a) /\ UNCHANGED lruVars
  \/ OrgFree(t) /\ UNCHANGED lruVars

-----------------------------------------------------------------------------
(* The script *)

\* df['min_dist'] >= min
CountFrom(k, p, min) ==
  SumOf(cachesims[k].partition[p].count, {b \in Bucket : b # InfBucket => MinDist[b] >= min})

\* df['data_object'] == NO_DATASTRUCT: a string, as the column is when the
\* file has a name that is no number, that of a pair.
HasPair == \E k \in DOMAIN cachesims : Cardinality(cachesims[k].ds_nums) > 1
NoDatastructRows == {k \in DOMAIN cachesims : HasPair /\ cachesims[k].ds_nums = {}}

Misses(k, min0, min1) == CountFrom(k, 0, min0) + CountFrom(k, 1, min1)

\* misses_nosc of the rows of data object 0
MissesNosc(level) ==
  LET whole == Capacity(level, Ways(level))
  IN  SumOf([k \in NoDatastructRows |-> Misses(k, whole, whole)], NoDatastructRows)

\* A wrong misses_sc: the partitions' ways are swapped.
MissesScSwapped(k, level, nways) ==
  Misses(k, Capacity(level, Ways(level) - nways), Capacity(level, nways))

MissesSc(k, level, nways) ==
  Misses(k, Capacity(level, nways), Capacity(level, Ways(level) - nways))

\* A wrong loop: it ends one number of ways early.
SplitsShort(level) == IF level = 1 THEN 1 .. L1Ways - 2 ELSE 2 .. L2Ways - 3

\* range(1, L1ways), range(2, L2ways - 1)
Splits(level) == IF level = 1 THEN 1 .. L1Ways - 1 ELSE 2 .. L2Ways - 2

\* ratio > REDUCTION_THRESHOLD
Worthwhile(misses_nosc, misses_sc) ==
  100 * (misses_nosc - misses_sc) > ReductionThreshold * misses_nosc

\* What the loops find worthwhile, in the file's order of the objects.
Candidates(level) ==
  LET All == {[cs |-> k, nways |-> n, miss_sc |-> MissesSc(k, level, n)] :
                k \in DOMAIN cachesims, n \in Splits(level)}
      misses_nosc == MissesNosc(level)
  IN  {c \in All : Worthwhile(misses_nosc, c.miss_sc)}

\* Does the loop come to r before it comes to s?
Earlier(r, s) == r.cs < s.cs \/ (r.cs = s.cs /\ r.nways < s.nways)

\* A wrong loop: the first one that is worthwhile is kept.
PreferredFirst(r, s) == Earlier(r, s)

\* cache_misses < l1_cache_misses: of equals the first is kept.
Preferred(r, s) == r.miss_sc < s.miss_sc \/ (r.miss_sc = s.miss_sc /\ Earlier(r, s))

Recommended(level) ==
  LET candidates == Candidates(level)
  IN  IF MissesNosc(level) = 0 \/ candidates = {} THEN None
      ELSE CHOOSE r \in candidates : \A s \in candidates \ {r} : Preferred(r, s)

\* The target ends, the counters are written to the file, and pincpt.py reads
\* them.
Analyse ==
  /\ phase = "running" /\ second = NoSecond
  /\ phase' = "analysed"
  /\ recommendation' = [level \in Level |-> Recommended(level)]
  /\ UNCHANGED << vars, lruVars >>

RecNext ==
  \/ /\ phase = "running"
     /\ \E t \in Thread : Run(t)
     /\ UNCHANGED << phase, recommendation >>
  \/ Analyse

RecSpec == RecInit /\ [][RecNext]_recVars

-----------------------------------------------------------------------------
\* The misses of the target when the level is split: nways for the objects S.
RealMisses(S, level, nways) ==
  misses[S][0][Capacity(level, nways)] + misses[S][1][Capacity(level, Ways(level) - nways)]

RealShared(level) == misses[{}][1][Capacity(level, Ways(level))]

\* Those that cache k was not there to see.
EarlierMisses(k, level, nways) ==
  before[k][0][Capacity(level, nways)] + before[k][1][Capacity(level, Ways(level) - nways)]

\* The numbers of ways that the code tries.
Allowed(level) == IF level = 1 THEN 1 .. L1Ways - 1 ELSE 2 .. L2Ways - 2

\* What the properties leave out: caches whose accesses the profiler attributes
\* to an object that the block is not in (memory accessed before it was
\* registered, or again after a free), and those that lack an access which
\* another thread's access had moved from distance zero.
Faithful(k) == k \in Caches /\ k \notin corrupt \cup misplaced

\* pincpt.py's number of misses of a split, of a cache that places the accesses
\* where they belong.  A cache that is added later begins empty: it counts a
\* cold miss for what the target's cache holds, and it does not count the
\* earlier misses.  It never has more misses than the target has in all, and
\* never fewer than the target has since the cache was added.
LateCachesUndercount ==
  phase = "analysed" =>
    \A k \in Caches, level \in Level : \A n \in Allowed(level) : Faithful(k) =>
      LET real == RealMisses(cachesims[k].ds_nums, level, n)
          counted == MissesSc(k, level, n)
      IN  counted <= real /\ real - EarlierMisses(k, level, n) <= counted

\* What is recommended isolates at least one object, and its misses are fewer
\* than those of the unpartitioned cache by more than the threshold.  From the
\* object's registration on the target has not had more misses with it than any
\* split for any other object or pair causes in the whole run.
BestSplitRecommended ==
  Faithful(1) =>
    \A level \in Level : recommendation[level] # None =>
      LET r == recommendation[level]
          S == cachesims[r.cs].ds_nums
      IN  /\ S # {} /\ r.nways \in Allowed(level)
          /\ 100 * (RealShared(level) - r.miss_sc) > ReductionThreshold * RealShared(level)
          /\ Faithful(r.cs) =>
               \A k \in Caches : \A n \in Allowed(level) : Faithful(k) =>
                 RealMisses(S, level, r.nways) - EarlierMisses(r.cs, level, r.nways)
                   <= RealMisses(cachesims[k].ds_nums, level, n)

\* If a split of some object or pair reduces the misses of the target by more
\* than the threshold, then the script recommends one, provided that the run
\* has a pair of large objects: without it the script does not find the rows
\* of data object 0 (pincpt.py:11).
ReductionFound ==
  phase = "analysed" /\ HasPair /\ Faithful(1) =>
    \A level \in Level, k \in Caches : \A n \in Allowed(level) :
      /\ Faithful(k)
      /\ 100 * (RealShared(level) - RealMisses(cachesims[k].ds_nums, level, n))
           > ReductionThreshold * RealShared(level)
      => recommendation[level] # None
=============================================================================
