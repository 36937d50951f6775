---------------------------- MODULE RegionCount ----------------------------
(***************************************************************************)
(* What the numbers of a code region mean, without snapshots and           *)
(* differences: each counter of each cache has for each region the number  *)
(* of increments made while the region had been entered more often than    *)
(* left.                                                                   *)
(***************************************************************************)
EXTENDS Integers

CONSTANTS Ptr, Counter

VARIABLES
  caches,   \* number of caches
  depth,    \* the entries of each region minus its exits
  during    \* during[p][i][c]: increments of counter c of cache i

vars == << caches, depth, during >>

Zero == [c \in Counter |-> 0]

Init ==
  /\ caches = 1
  /\ depth = [p \in Ptr |-> 0]
  /\ during = [p \in Ptr |-> [i \in 1 .. 1 |-> Zero]]

Enter(p) ==
  /\ depth' = [depth EXCEPT ![p] = @ + 1]
  /\ UNCHANGED << caches, during >>

Leave(p) ==
  /\ depth' = [depth EXCEPT ![p] = @ - 1]
  /\ UNCHANGED << caches, during >>

\* An access increments one counter of each cache.
Count(hit) ==
  /\ during' = [p \in Ptr |->
                  IF depth[p] <= 0 THEN during[p]
                  ELSE [i \in 1 .. caches |->
                          [during[p][i] EXCEPT ![hit[i]] = @ + 1]]]
  /\ UNCHANGED << caches, depth >>

\* More caches: they start with zero for the regions that are entered already.
Grow ==
  /\ caches' \in Nat /\ caches' > caches
  /\ during' = [p \in Ptr |->
                  [i \in 1 .. caches' |-> IF i <= caches THEN during[p][i] ELSE Zero]]
  /\ UNCHANGED depth

Next ==
  \/ \E p \in Ptr : Enter(p) \/ Leave(p)
  \/ \E hit \in [1 .. caches -> Counter] : Count(hit)
  \/ Grow

Spec == Init /\ [][Next]_vars
=============================================================================
