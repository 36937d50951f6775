----------------------------- MODULE MCRegions -----------------------------
(***************************************************************************)
(* Two pointers to region names, one bucket, objects of one size, which is *)
(* above the combination threshold.  The second region is named like the   *)
(* row of the whole run.                                                   *)
(***************************************************************************)
EXTENDS Regions

CONSTANTS p1, p2

MCPtr == {p1, p2}
MCOneBucket == {0}
MCNameOf == [p \in MCPtr |-> IF p = p1 THEN "f" ELSE Main]
MCSize == {2}
=============================================================================
