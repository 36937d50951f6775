---------------------------- MODULE BucketTable ----------------------------
(***************************************************************************)
(* main() of src/pincpt.cpp fills Bucket::min_dists from the ways of the   *)
(* two cache levels of the target, in memory blocks, then sorts it and     *)
(* removes the duplicates.  The last element, inf_dist, is left out here.  *)
(***************************************************************************)
EXTENDS Naturals, Sequences

LOCAL INSTANCE SequencesExt

\* 0, and the distance at which each number of ways of each level is full.
RawDistances(l1_ways, l1_per_way, l2_ways, l2_per_way) ==
  << 0 >> \o [i \in 1 .. l1_ways |-> l1_per_way * i]
          \o [i \in 1 .. l2_ways |-> l2_per_way * i]

SortUnique(s) == SetToSortSeq(ToSet(s), <)

\* min_dists with the indices of the C++ vector.
ZeroBased(s) == [b \in 0 .. Len(s) - 1 |-> s[b + 1]]

Distances(l1_ways, l1_per_way, l2_ways, l2_per_way) ==
  ZeroBased(SortUnique(RawDistances(l1_ways, l1_per_way, l2_ways, l2_per_way)))
=============================================================================
