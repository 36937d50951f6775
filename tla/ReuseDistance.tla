--------------------------- MODULE ReuseDistance ---------------------------
(***************************************************************************)
(* What a cache simulator promises, without stacks or markers: the         *)
(* histogram of the reuse distances of an access sequence.  The reuse      *)
(* distance of an access to x is the number of other blocks accessed since *)
(* the last access to x, infinite when there was none (README.md).         *)
(***************************************************************************)
EXTENDS Naturals, FiniteSets

CONSTANTS Block, MinDist, InfBucket

VARIABLES
  seen,    \* the blocks accessed so far
  newer,   \* << y, x >>: the last access to y came after the last one to x
  hist     \* number of accesses per bucket

vars == << seen, newer, hist >>

Distance(x) == Cardinality({y \in seen : << y, x >> \in newer})

BucketOf(d) ==
  CHOOSE b \in 0 .. InfBucket - 1 :
    /\ MinDist[b] <= d
    /\ \A k \in 0 .. InfBucket - 1 : MinDist[k] <= d => k <= b

Init ==
  /\ seen = {}
  /\ newer = {}
  /\ hist = [b \in 0 .. InfBucket |-> 0]

Access(x) ==
  /\ hist' = [hist EXCEPT ![IF x \in seen THEN BucketOf(Distance(x)) ELSE InfBucket] = @ + 1]
  /\ seen' = seen \cup {x}
  /\ newer' = {p \in newer : p[1] # x /\ p[2] # x} \cup {<< x, y >> : y \in seen \ {x}}

Next == \E x \in Block : Access(x)

Spec == Init /\ [][Next]_vars
=============================================================================
