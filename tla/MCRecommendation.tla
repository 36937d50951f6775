-------------------------- MODULE MCRecommendation --------------------------
(***************************************************************************)
(* Three blocks of two bytes, two of them data objects; an L1 of two ways  *)
(* and an L2 of five, of one block each.                                   *)
(***************************************************************************)
EXTENDS Recommendation, BucketTable

CONSTANT t1

MCOneThread == {t1}
MCBlock == {1, 2, 4}
MCAllocation == {<< 2, 2 >>, << 4, 2 >>}
MCMinDist == [b \in 0 .. 5 |-> b]
MCInfBucket == 6

\* Bound: a target that has freed something makes at most four accesses, and
\* it frees nothing that is not registered.
MCFreesBound ==
  /\ ~datastructs[1].is_freed
  /\ accesses > 4 => \A i \in DOMAIN datastructs : ~datastructs[i].is_freed

ASSUME MCMinDistAssumption == MCMinDist = Distances(L1Ways, L1PerWay, L2Ways, L2PerWay)
=============================================================================
