------------------------------ MODULE MCCache ------------------------------
(***************************************************************************)
(* Small caches: an L1 of 2 ways of 1 block and an L2 of 2 ways of 2       *)
(* blocks.  The two levels share the distance 2, as sorted duplicates that *)
(* main() removes, and leave a gap between 2 and 4.                        *)
(***************************************************************************)
EXTENDS MissAnalysis, BucketTable

CONSTANTS b1, b2, b3, b4, b5

MCBlock == {b1, b2, b3, b4, b5}
MCMinDist == Distances(2, 1, 2, 2)
MCInfBucket == Cardinality(DOMAIN MCMinDist)
MCNoBlocks == {}
MCTwoBlocks == {b1, b2}
=============================================================================
