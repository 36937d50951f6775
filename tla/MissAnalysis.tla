---------------------------- MODULE MissAnalysis ----------------------------
(***************************************************************************)
(* The histograms of a PartitionedCache, as src/pincpt.py evaluates them,  *)
(* next to the caches they stand for.  pincpt.py adds up the buckets at or *)
(* above a capacity and calls the sum "cache misses"; here the accesses    *)
(* also run through fully associative LRU caches of every capacity a       *)
(* number of ways can give, and the sums are compared with their misses.   *)
(***************************************************************************)
EXTENDS PartitionedCache, Sums

CONSTANTS L1Ways, L1PerWay, L2Ways, L2PerWay  \* ways, and memory blocks per way

\* The levels that main() has: at least one way, of at least one block.
ASSUME WaysAssumption ==
  /\ L1Ways \in Nat \ {0} /\ L1PerWay \in Nat \ {0}
  /\ L2Ways \in Nat \ {0} /\ L2PerWay \in Nat \ {0}

VARIABLES
  cache,    \* cache[p][C]: the LRU cache of C blocks behind partition p
  misses    \* misses[p][C]: its misses so far

missVars == << partition, accesses, cache, misses >>

Level == 1 .. 2
Ways(level) == IF level = 1 THEN L1Ways ELSE L2Ways
PerWay(level) == IF level = 1 THEN L1PerWay ELSE L2PerWay
Capacity(level, nways) == nways * PerWay(level)
Capacities == UNION {{Capacity(level, n) : n \in 1 .. Ways(level)} : level \in Level}

\* main() makes the capacity of every number of ways a bucket boundary.
ASSUME CapacityAssumption ==
  \A C \in Capacities : \E b \in 0 .. InfBucket - 1 : MinDist[b] = C

IsMiss(lines, x) == \A i \in 1 .. Len(lines) : lines[i] # x

\* The line that x takes its place from: its own one, else a free line, else
\* the least recently used one.
LineFor(lines, C, x) ==
  IF ~IsMiss(lines, x) THEN CHOOSE i \in 1 .. Len(lines) : lines[i] = x
  ELSE IF Len(lines) < C THEN Len(lines) + 1
  ELSE Len(lines)

\* The target's cache, a sequence of at most C lines: x becomes the most
\* recently used line, and what does not fit any more is evicted.
Touched(lines, C, x) ==
  LET line == LineFor(lines, C, x)
  IN  [i \in 1 .. Len(lines) \cup {line} |->
         IF i = 1 THEN x ELSE IF i <= line THEN lines[i - 1] ELSE lines[i]]

MissInit ==
  /\ Init
  /\ cache = [p \in 0 .. 1 |-> [C \in Capacities |-> << >>]]
  /\ misses = [p \in 0 .. 1 |-> [C \in Capacities |-> 0]]

MissAccess(x) ==
  LET p == PartitionOf(x)
  IN  /\ Access(x)
      /\ cache' = [cache EXCEPT ![p] = [C \in Capacities |-> Touched(@[C], C, x)]]
      /\ misses' = [misses EXCEPT ![p] =
                     [C \in Capacities |-> @[C] + (IF IsMiss(cache[p][C], x) THEN 1 ELSE 0)]]

MissNext == \E x \in Block : MissAccess(x)

MissSpec == MissInit /\ [][MissNext]_missVars

-----------------------------------------------------------------------------
\* A wrong selection: df['min_dist'] > min.
CountAbove(p, min) ==
  SumOf(partition[p].count, {b \in Bucket : b # InfBucket => MinDist[b] > min})

\* sum(df[df['min_dist'] >= min]['partition<p>'])
CountFrom(p, min) ==
  SumOf(partition[p].count, {b \in Bucket : b # InfBucket => MinDist[b] >= min})

\* misses_nosc(df, level)
MissesNosc(level) ==
  CountFrom(0, Capacity(level, Ways(level))) + CountFrom(1, Capacity(level, Ways(level)))

\* misses_sc(df, level, nways)
MissesSc(level, nways) ==
  CountFrom(0, Capacity(level, nways)) + CountFrom(1, Capacity(level, Ways(level) - nways))

\* For every split of either level's ways that pincpt.py tries, its
\* "misses sc" is the number of misses of two LRU caches of that many ways,
\* one for the isolated objects and one for the rest.
SplitMissesExact ==
  \A level \in Level : \A n \in 1 .. Ways(level) - 1 :
    MissesSc(level, n) =
      misses[0][Capacity(level, n)] + misses[1][Capacity(level, Ways(level) - n)]

\* With no isolated object (the cache of data object 0) "misses nosc" is the
\* number of misses of the whole unpartitioned LRU cache.
SharedMissesExact ==
  Isolated = {} =>
    \A level \in Level :
      MissesNosc(level) = misses[1][Capacity(level, Ways(level))]

\* Each access lands in exactly one bucket of one partition.
EveryAccessCounted == CountFrom(0, 0) + CountFrom(1, 0) = accesses
=============================================================================
