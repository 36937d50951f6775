----------------------- MODULE PartitionedCacheProofs -----------------------
(***************************************************************************)
(* Theorems about PartitionedCache, for every bucket table, every set of   *)
(* blocks and every choice of isolated ones: IInv is an inductive          *)
(* invariant, and each partition implements ReuseDistance.                 *)
(***************************************************************************)
EXTENDS MissAnalysis, CacheSimProofs, SumProofs

\* One access keeps every part of the invariant: it works on the simulator of
\* the accessed block's partition (AccessSimConsistent) and leaves the other
\* one alone.
LEMMA AccessKeepsIInv ==
  ASSUME IInv, NEW x \in Block, Access(x)
  PROVE  IInv'
<1> DEFINE q == PartitionOf(x)
           r == AccessSim(partition[q], x)
<1>t. /\ q \in 0 .. 1
      /\ partition \in [0 .. 1 -> CacheSimState] /\ accesses \in Nat
      /\ Consistent(partition[q])
  BY DEF IInv, TypeOK, PartitionsConsistent, PartitionOf
<1>1. /\ Consistent(r)
      /\ \A i \in 1 .. Len(r.stack) : r.stack[i] = x \/ OnStack(partition[q], r.stack[i])
  BY <1>t, AccessSimConsistent
<1>2. /\ partition' = [partition EXCEPT ![q] = r]
      /\ accesses' = accesses + 1
  BY DEF Access
<1> HIDE DEF r
<1>3. r \in CacheSimState
  BY <1>1 DEF Consistent
<1>4. \A p \in 0 .. 1 : partition'[p] = IF p = q THEN r ELSE partition[p]
  BY <1>2, <1>t
<1>5. TypeOK'
  BY <1>2, <1>3, <1>t DEF TypeOK
<1>6. PartitionsConsistent'
  BY <1>1, <1>4 DEF IInv, PartitionsConsistent
<1>7. PartitionsSeparate'
  <2> SUFFICES ASSUME NEW p \in 0 .. 1, NEW i \in 1 .. Len(partition'[p].stack)
               PROVE  PartitionOf(partition'[p].stack[i]) = p
    BY DEF PartitionsSeparate
  <2>1. CASE p = q
    <3>1. CASE r.stack[i] = x
      BY <3>1, <2>1, <1>4
    <3>2. CASE OnStack(partition[q], r.stack[i])
      BY <3>2, <2>1, <1>4 DEF OnStack, IInv, PartitionsSeparate
    <3>3. QED
      BY <3>1, <3>2, <2>1, <1>1, <1>4
  <2>2. CASE p # q
    BY <2>2, <1>4 DEF IInv, PartitionsSeparate
  <2>3. QED
    BY <2>1, <2>2
<1>8. QED
  BY <1>5, <1>6, <1>7 DEF IInv

\* The constructor establishes the invariant.
LEMMA InitIInv == Init => IInv
<1> SUFFICES ASSUME Init PROVE IInv
  OBVIOUS
<1>1. /\ partition = [p \in 0 .. 1 |-> NewCacheSim] /\ accesses = 0
      /\ \A p \in 0 .. 1 : partition[p] = NewCacheSim
  BY DEF Init
<1>2. Consistent(NewCacheSim) /\ NewCacheSim \in CacheSimState
  BY NewConsistent DEF Consistent
<1>3. Len(NewCacheSim.stack) = 0
  BY EmptySeq DEF NewCacheSim
<1>4. TypeOK
  BY <1>1, <1>2 DEF TypeOK
<1>5. PartitionsConsistent
  BY <1>1, <1>2 DEF PartitionsConsistent
<1>6. PartitionsSeparate
  BY <1>1, <1>3 DEF PartitionsSeparate
<1>7. QED
  BY <1>4, <1>5, <1>6 DEF IInv

LEMMA NextIInv == IInv /\ [Next]_vars => IInv'
<1> SUFFICES ASSUME IInv, [Next]_vars PROVE IInv'
  OBVIOUS
<1>1. ASSUME NEW x \in Block, Access(x)
      PROVE  IInv'
  BY <1>1, AccessKeepsIInv
<1>2. CASE UNCHANGED vars
  BY <1>2 DEF vars, IInv, TypeOK, PartitionsConsistent, PartitionsSeparate
<1>3. QED
  BY <1>1, <1>2 DEF Next

\* The inductive invariant holds in every reachable state of PartitionedCache.
THEOREM Invariance == Spec => []IInv
<1>1. Init => IInv
  BY InitIInv
<1>2. IInv /\ [Next]_vars => IInv'
  BY NextIInv
<1>3. QED
  BY <1>1, <1>2, PTL DEF Spec

\* Every value stays in its C++ type: markers are null or name a block, the
\* next bucket never passes the last one (cachesim.cpp on_block_new).
THEOREM TypeCorrect == Spec => []TypeOK
<1>1. IInv => TypeOK
  BY DEF IInv
<1>2. QED
  BY <1>1, Invariance, PTL

\* check_consistency (cachesim.cpp) never fails, however many blocks, buckets
\* and accesses there are.
THEOREM ConsistencyHolds == Spec => []PartitionsConsistent
<1>1. IInv => PartitionsConsistent
  BY DEF IInv
<1>2. QED
  BY <1>1, Invariance, PTL

-----------------------------------------------------------------------------
(* The refinement: each partition makes steps of its own history. *)

\* An access makes a history step in its own partition and none in the other.
LEMMA AccessIsHistoryStep ==
  ASSUME IInv, NEW x \in Block, Access(x), NEW p \in 0 .. 1
  PROVE  IF PartitionOf(x) = p THEN HistoryStep(partition[p], partition'[p], x)
                               ELSE partition'[p] = partition[p]
<1>1. partition \in [0 .. 1 -> CacheSimState] /\ Consistent(partition[p])
  BY DEF IInv, TypeOK, PartitionsConsistent
<1>2. HistoryStep(partition[p], AccessSim(partition[p], x), x)
  BY <1>1, AccessSimHistory
<1>3. QED
  BY <1>1, <1>2 DEF Access

\* Partition 0 counts exact reuse distances over the isolated blocks alone, for
\* every bucket table and every access sequence.
THEOREM IsolatedImplementsReuseDistance == Spec => IsolatedHistogram
<1>1. Init => Reuse0!Init
  <2> SUFFICES ASSUME Init PROVE Reuse0!Init
    OBVIOUS
  <2>1. partition[0] = NewCacheSim
    BY DEF Init
  <2>2. QED
    BY <2>1, NewHistory DEF Reuse0!Init
<1>2. IInv /\ [Next]_vars => [Reuse0!Next]_(Reuse0!vars)
  <2> SUFFICES ASSUME IInv, [Next]_vars
               PROVE  [Reuse0!Next]_(Reuse0!vars)
    OBVIOUS
  <2>1. ASSUME NEW x \in Block, Access(x), PartitionOf(x) = 0
        PROVE  Reuse0!Next
    <3>1. HistoryStep(partition[0], partition'[0], x)
      BY <2>1, AccessIsHistoryStep
    <3>d. Reuse0!BucketOf(Reuse0!Distance(x)) = HistoryBucket(HistoryDistance(partition[0], x))
      BY DEF HistoryBucket, HistoryDistance, Reuse0!BucketOf, Reuse0!Distance, Reuse0!Cardinality, Cardinality
    <3>2. Reuse0!Access(x)
      BY <3>1, <3>d DEF HistoryStep, Reuse0!Access
    <3>3. x \in Members(0)
      BY <2>1 DEF Members
    <3>4. QED
      BY <3>2, <3>3 DEF Reuse0!Next
  <2>2. ASSUME NEW x \in Block, Access(x), PartitionOf(x) # 0
        PROVE  UNCHANGED Reuse0!vars
    <3>1. partition'[0] = partition[0]
      BY <2>2, AccessIsHistoryStep
    <3>2. QED
      BY <3>1 DEF Reuse0!vars
  <2>3. CASE UNCHANGED vars
    BY <2>3 DEF vars, Reuse0!vars
  <2>4. QED
    BY <2>1, <2>2, <2>3 DEF Next
<1>3. QED
  BY <1>1, <1>2, Invariance, PTL DEF Spec, Reuse0!Spec, IsolatedHistogram

\* Partition 1 does the same over all the other blocks.
THEOREM RemainingImplementsReuseDistance == Spec => RemainingHistogram
<1>1. Init => Reuse1!Init
  <2> SUFFICES ASSUME Init PROVE Reuse1!Init
    OBVIOUS
  <2>1. partition[1] = NewCacheSim
    BY DEF Init
  <2>2. QED
    BY <2>1, NewHistory DEF Reuse1!Init
<1>2. IInv /\ [Next]_vars => [Reuse1!Next]_(Reuse1!vars)
  <2> SUFFICES ASSUME IInv, [Next]_vars
               PROVE  [Reuse1!Next]_(Reuse1!vars)
    OBVIOUS
  <2>1. ASSUME NEW x \in Block, Access(x), PartitionOf(x) = 1
        PROVE  Reuse1!Next
    <3>1. HistoryStep(partition[1], partition'[1], x)
      BY <2>1, AccessIsHistoryStep
    <3>d. Reuse1!BucketOf(Reuse1!Distance(x)) = HistoryBucket(HistoryDistance(partition[1], x))
      BY DEF HistoryBucket, HistoryDistance, Reuse1!BucketOf, Reuse1!Distance, Reuse1!Cardinality, Cardinality
    <3>2. Reuse1!Access(x)
      BY <3>1, <3>d DEF HistoryStep, Reuse1!Access
    <3>3. x \in Members(1)
      BY <2>1 DEF Members
    <3>4. QED
      BY <3>2, <3>3 DEF Reuse1!Next
  <2>2. ASSUME NEW x \in Block, Access(x), PartitionOf(x) # 1
        PROVE  UNCHANGED Reuse1!vars
    <3>1. partition'[1] = partition[1]
      BY <2>2, AccessIsHistoryStep
    <3>2. QED
      BY <3>1 DEF Reuse1!vars
  <2>3. CASE UNCHANGED vars
    BY <2>3 DEF vars, Reuse1!vars
  <2>4. QED
    BY <2>1, <2>2, <2>3 DEF Next
<1>3. QED
  BY <1>1, <1>2, Invariance, PTL DEF Spec, Reuse1!Spec, RemainingHistogram

-----------------------------------------------------------------------------
(* MissAnalysis: the sums over the histograms and the misses of real caches. *)

\* The lines of a cache of C blocks are the first C blocks of the stack.
TopOfStack(lines, s, C) ==
  /\ Len(lines) = IF Len(s) < C THEN Len(s) ELSE C
  /\ \A i \in 1 .. Len(lines) : lines[i] = s[i]

LEMMA CapacityPositive == Capacities \subseteq Nat \ {0}
<1> SUFFICES ASSUME NEW level \in Level, NEW n \in 1 .. Ways(level)
             PROVE  Capacity(level, n) \in Nat \ {0}
  BY DEF Capacities
<1>1. Ways(level) \in Nat \ {0} /\ PerWay(level) \in Nat \ {0}
  BY WaysAssumption DEF Ways, PerWay
<1>2. \A i, j \in Nat \ {0} : i * j \in Nat \ {0}
  OBVIOUS
<1> QED  BY <1>1, <1>2 DEF Capacity

\* What an access does to the stack of its simulator: its block comes to the
\* front, from its position or from outside.
LEMMA AccessMovesToFront ==
  ASSUME NEW c, Consistent(c), NEW x \in Block
  PROVE  LET s == c.stack
             t == AccessSim(c, x).stack
         IN  /\ \A p \in 1 .. Len(s) : s[p] = x => InFront(s, t, p)
             /\ ~OnStack(c, x) => /\ Len(t) = Len(s) + 1 /\ t[1] = x
                                  /\ \A i \in 1 .. Len(s) : t[i + 1] = s[i]
<1> DEFINE t == AccessSim(c, x).stack
<1>t. InfBucket \in Bucket
  BY MinDistAssumption DEF Bucket
<1>1. ASSUME NEW p \in 1 .. Len(c.stack), c.stack[p] = x
      PROVE  InFront(c.stack, t, p)
  <2> DEFINE s == OnBlockSeen(c, x)
             b == SeenBucket(c, x)
  <2>1. Consistent(s) /\ InFront(c.stack, s.stack, p)
    BY <1>1, OnBlockSeenConsistent
  <2>2. b \in Bucket
    BY <1>1, SeenBucketHoldsDistance, MinDistAssumption DEF Bucket
  <2>3. AccessSim(c, x) = IncrAccess(s, b)
    BY <1>1 DEF AccessSim, OnStack
  <2> HIDE DEF s, b
  <2> QED  BY <2>1, <2>2, <2>3, IncrAccessConsistent
<1>2. ASSUME ~OnStack(c, x)
      PROVE  /\ Len(t) = Len(c.stack) + 1 /\ t[1] = x
             /\ \A i \in 1 .. Len(c.stack) : t[i + 1] = c.stack[i]
  <2> DEFINE s == OnBlockNew(c, x)
  <2>1. /\ Consistent(s) /\ Len(s.stack) = Len(c.stack) + 1 /\ s.stack[1] = x
        /\ \A i \in 1 .. Len(c.stack) : s.stack[i + 1] = c.stack[i]
    BY <1>2, OnBlockNewConsistent
  <2>2. AccessSim(c, x) = IncrAccess(s, InfBucket)
    BY <1>2 DEF AccessSim
  <2> HIDE DEF s
  <2>3. IncrAccess(s, InfBucket).stack = s.stack
    BY <2>1, <1>t, IncrAccessConsistent
  <2> QED  BY <2>1, <2>2, <2>3
<1> QED  BY <1>1, <1>2

\* A block is in the cache when its position on the stack is at most C.
LEMMA MissIsDeep ==
  ASSUME NEW c, Consistent(c), NEW x \in Block, NEW C \in Nat,
         NEW lines, TopOfStack(lines, c.stack, C)
  PROVE  /\ ~OnStack(c, x) => IsMiss(lines, x)
         /\ \A p \in 1 .. Len(c.stack) : c.stack[p] = x => (IsMiss(lines, x) <=> C < p)
<1>1. StackDistinct(c) /\ Len(c.stack) \in Nat
  BY LenProperties DEF Consistent, CacheSimState
<1>2. /\ Len(lines) \in Nat /\ Len(lines) <= C /\ Len(lines) <= Len(c.stack)
      /\ Len(lines) = C \/ Len(lines) = Len(c.stack)
      /\ \A i \in 1 .. Len(lines) : i \in 1 .. Len(c.stack) /\ lines[i] = c.stack[i]
  BY <1>1 DEF TopOfStack
<1>3. ~OnStack(c, x) => IsMiss(lines, x)
  BY <1>2 DEF OnStack, IsMiss
<1>4. ASSUME NEW p \in 1 .. Len(c.stack), c.stack[p] = x
      PROVE  IsMiss(lines, x) <=> C < p
  <2>1. CASE p <= C
    <3>1. p \in 1 .. Len(lines)
      BY <1>2, <2>1
    <3> QED  BY <1>2, <1>4, <2>1, <3>1 DEF IsMiss
  <2>2. CASE C < p
    <3>1. \A i \in 1 .. Len(lines) : i # p
      BY <1>2, <2>2
    <3> QED  BY <1>1, <1>2, <1>4, <2>2, <3>1 DEF IsMiss, StackDistinct
  <2> QED  BY <2>1, <2>2
<1> QED  BY <1>3, <1>4

\* LRU replacement and the stack keep the same order.
LEMMA TouchedIsTop ==
  ASSUME NEW c, Consistent(c), NEW x \in Block, NEW C \in Nat \ {0},
         NEW lines, lines \in Seq(Block), TopOfStack(lines, c.stack, C)
  PROVE  /\ Touched(lines, C, x) \in Seq(Block)
         /\ TopOfStack(Touched(lines, C, x), AccessSim(c, x).stack, C)
<1> DEFINE s == c.stack
           t == AccessSim(c, x).stack
           k == Len(lines)
           n == Len(s)
           line == LineFor(lines, C, x)
           u == Touched(lines, C, x)
           m == IF k < line THEN line ELSE k
<1>t. /\ n \in Nat /\ k \in Nat /\ k <= C /\ k <= n /\ (k = C \/ k = n)
      /\ \A i \in 1 .. k : i \in 1 .. n /\ lines[i] = s[i] /\ lines[i] \in Block
      /\ StackDistinct(c)
  BY LenProperties, ElementOfSeq DEF TopOfStack, Consistent, CacheSimState
<1>s. /\ \A p \in 1 .. n : s[p] = x => InFront(s, t, p)
      /\ ~OnStack(c, x) => /\ Len(t) = n + 1 /\ t[1] = x
                           /\ \A i \in 1 .. n : t[i + 1] = s[i]
  BY AccessMovesToFront
<1>m. /\ ~OnStack(c, x) => IsMiss(lines, x)
      /\ \A p \in 1 .. n : s[p] = x => (IsMiss(lines, x) <=> C < p)
  BY MissIsDeep
<1>u. /\ line \in 1 .. k + 1 => m \in Nat /\ 1 .. k \cup {line} = 1 .. m
      /\ u = [i \in 1 .. k \cup {line} |->
                IF i = 1 THEN x ELSE IF i <= line THEN lines[i - 1] ELSE lines[i]]
  BY <1>t DEF Touched
<1> HIDE DEF t, u, line
<1>1. ASSUME line \in 1 .. k + 1, m = IF Len(t) < C THEN Len(t) ELSE C,
             t[1] = x,
             \A i \in 2 .. m : IF i <= line THEN t[i] = s[i - 1] ELSE i <= k /\ t[i] = s[i]
      PROVE  u \in Seq(Block) /\ TopOfStack(u, t, C)
  <2>1. m \in Nat /\ 1 .. k \cup {line} = 1 .. m
    BY <1>1, <1>u
  <2>2. u = [i \in 1 .. m |->
                IF i = 1 THEN x ELSE IF i <= line THEN lines[i - 1] ELSE lines[i]]
    BY <1>u, <2>1
  <2>3. \A i \in 2 .. m : i <= line => i - 1 \in 1 .. k
    BY <1>t, <1>1
  <2>4. \A i \in 1 .. m : u[i] \in Block /\ u[i] = t[i]
    BY <1>t, <1>1, <2>2, <2>3
  <2> HIDE DEF m
  <2>5. u \in [1 .. m -> Block]
    BY <2>2, <2>4
  <2>6. u \in Seq(Block) /\ Len(u) = m
    BY <2>1, <2>5, SeqDef
  <2> QED  BY <1>1, <2>4, <2>6 DEF TopOfStack
<1>2. CASE ~OnStack(c, x)
  <2>1. line = IF k < C THEN k + 1 ELSE k
    BY <1>2, <1>m DEF line, LineFor
  <2>2. line \in 1 .. k + 1 /\ m = IF n + 1 < C THEN n + 1 ELSE C
    BY <1>t, <2>1
  <2>3. \A i \in 2 .. m : i <= line /\ i - 1 \in 1 .. n /\ (i - 1) + 1 = i
    BY <1>t, <2>1
  <2>4. \A i \in 2 .. m : t[i] = s[i - 1]
    BY <1>2, <1>s, <2>3
  <2>5. Len(t) = n + 1 /\ t[1] = x
    BY <1>2, <1>s
  <2> HIDE DEF m, n
  <2> QED  BY <1>1, <2>2, <2>3, <2>4, <2>5 DEF u, t
<1>3. CASE OnStack(c, x)
  <2> PICK p \in 1 .. n : s[p] = x
    BY <1>3 DEF OnStack
  <2>1. /\ Len(t) = n /\ t[1] = x
        /\ \A i \in 1 .. p - 1 : t[i + 1] = s[i]
        /\ \A i \in p + 1 .. n : t[i] = s[i]
    BY <1>s DEF InFront
  <2>2. CASE C < p
    <3>1. line = k /\ k = C
      <4>1. IsMiss(lines, x) /\ k = C
        BY <1>m, <1>t, <2>2
      <4> QED  BY <4>1 DEF line, LineFor
    <3>2. line \in 1 .. k + 1 /\ m = C
      BY <1>t, <3>1
    <3>3. \A i \in 2 .. m : i <= line /\ i - 1 \in 1 .. p - 1 /\ (i - 1) + 1 = i
      BY <2>2, <3>1, <3>2
    <3>4. ~(n < C)
      BY <1>t, <3>1
    <3>5. \A i \in 2 .. m : t[i] = s[i - 1]
      BY <2>1, <3>3
    <3> HIDE DEF m, n
    <3> QED  BY <1>1, <2>1, <3>2, <3>3, <3>4, <3>5 DEF u, t
  <2>3. CASE p <= C
    <3>1. line = p /\ p \in 1 .. k
      <4>1. ~IsMiss(lines, x) /\ p \in 1 .. k
        BY <1>m, <1>t, <2>3
      <4>2. \A i \in 1 .. k : lines[i] = x <=> i = p
        BY <1>t, <4>1 DEF StackDistinct
      <4> QED  BY <4>1, <4>2 DEF line, LineFor
    <3>2. line \in 1 .. k + 1 /\ m = k
      BY <1>t, <3>1
    <3>3. \A i \in 2 .. m : IF i <= line THEN i - 1 \in 1 .. p - 1 /\ (i - 1) + 1 = i
                                         ELSE i <= k /\ i \in p + 1 .. n
      BY <1>t, <3>1, <3>2
    <3>4. k = IF n < C THEN n ELSE C
      BY <1>t
    <3>5. \A i \in 2 .. m : IF i <= line THEN t[i] = s[i - 1] ELSE i <= k /\ t[i] = s[i]
      BY <2>1, <3>3
    <3> HIDE DEF m, n
    <3> QED  BY <1>1, <2>1, <3>2, <3>4, <3>5 DEF u, t
  <2> QED  BY <1>t, <2>2, <2>3
<1> QED  BY <1>2, <1>3 DEF u, t

\* The buckets that pincpt.py adds up for a capacity.
Beyond(min) == {b \in Bucket : b # InfBucket => MinDist[b] >= min}

\* The bucket of the next access of x.
NextBucket(c, x) == IF x \in SeenOf(c) THEN SeenBucket(c, x) ELSE InfBucket

LEMMA CountFromIsSum ==
  ASSUME NEW p, NEW min
  PROVE  /\ CountFrom(p, min) = SumOf(partition[p].count, Beyond(min))
         /\ CountFrom(p, min)' = SumOf(partition'[p].count, Beyond(min))
<1>1. CountFrom(p, min) = SumOf(partition[p].count, Beyond(min))
  BY DEF CountFrom, Beyond
<1>2. CountFrom(p, min)' = SumOf(partition'[p].count, Beyond(min))
  BY DEF CountFrom, Beyond
<1> QED  BY <1>1, <1>2

LEMMA BeyondType ==
  ASSUME NEW min
  PROVE  IsFiniteSet(Beyond(min)) /\ Beyond(min) \subseteq Bucket
<1>1. IsFiniteSet(0 .. InfBucket)
  BY MinDistAssumption, FS_Interval
<1> QED  BY <1>1, FS_Subset DEF Beyond, Bucket

\* The bucket of an access is beyond a capacity that is a bucket boundary
\* exactly when the access misses in the cache of that capacity: the bucket's
\* minimum distance is the largest one that does not exceed the block's.
LEMMA BeyondIsMiss ==
  ASSUME NEW c, Consistent(c), NEW x \in Block, NEW C \in Capacities,
         NEW lines, TopOfStack(lines, c.stack, C)
  PROVE  NextBucket(c, x) \in Beyond(C) <=> IsMiss(lines, x)
<1> DEFINE e == NextBucket(c, x)
<1>t. C \in Nat /\ InfBucket \in Nat \ {0} /\ MinDist \in [0 .. InfBucket - 1 -> Nat]
  BY CapacityPositive, MinDistAssumption
<1>1. CASE OnStack(c, x)
  <2> PICK p \in 1 .. Len(c.stack) : c.stack[p] = x
    BY <1>1 DEF OnStack
  <2>1. e = SeenBucket(c, c.stack[p])
    BY DEF NextBucket, SeenOf
  <2>2. /\ e \in 0 .. InfBucket - 1
        /\ MinDist[e] <= p - 1
        /\ \A k \in 0 .. InfBucket - 1 : MinDist[k] <= p - 1 => k <= e
    BY <2>1, SeenBucketHoldsDistance
  <2> HIDE DEF e
  <2>3. IsMiss(lines, x) <=> C < p
    BY <1>t, MissIsDeep
  <2>4. e \in Beyond(C) <=> MinDist[e] >= C
    BY <1>t, <2>2 DEF Beyond, Bucket
  <2>5. PICK j \in 0 .. InfBucket - 1 : MinDist[j] = C
    BY CapacityAssumption
  <2>6. MinDist[e] >= C <=> C < p
    <3>1. ASSUME C < p PROVE MinDist[e] >= C
      <4>1. j <= e
        BY <1>t, <2>2, <2>5, <3>1
      <4>2. j = e \/ MinDist[j] < MinDist[e]
        BY <1>t, <2>2, <4>1, MinDistAssumption
      <4> QED  BY <1>t, <2>2, <2>5, <4>2
    <3> QED  BY <1>t, <2>2, <3>1
  <2> QED  BY <2>3, <2>4, <2>6 DEF e
<1>2. CASE ~OnStack(c, x)
  <2>1. e = InfBucket /\ IsMiss(lines, x)
    BY <1>2, <1>t, MissIsDeep DEF NextBucket, SeenOf, OnStack
  <2> QED  BY <1>t, <2>1 DEF Beyond, Bucket
<1> QED  BY <1>1, <1>2

\* An access adds one to the sums its bucket is part of.
LEMMA AccessAddsToSums ==
  ASSUME NEW c, Consistent(c), NEW x \in Block, NEW min
  PROVE  /\ NextBucket(c, x) \in Bucket
         /\ SumOf(c.count, Beyond(min)) \in Nat
         /\ SumOf(AccessSim(c, x).count, Beyond(min)) =
              SumOf(c.count, Beyond(min)) + (IF NextBucket(c, x) \in Beyond(min) THEN 1 ELSE 0)
<1> DEFINE e == NextBucket(c, x)
           S == Beyond(min)
           f == c.count
           g == AccessSim(c, x).count
<1>1. f \in [Bucket -> Nat]
  BY DEF Consistent, CacheSimState
<1>2. e \in Bucket
  <2>1. CASE x \in SeenOf(c)
    <3> PICK p \in 1 .. Len(c.stack) : c.stack[p] = x
      BY <2>1 DEF SeenOf
    <3>1. SeenBucket(c, c.stack[p]) \in 0 .. InfBucket - 1
      BY SeenBucketHoldsDistance
    <3> QED  BY <2>1, <3>1, MinDistAssumption DEF NextBucket, Bucket
  <2>2. CASE x \notin SeenOf(c)
    BY <2>2, MinDistAssumption DEF NextBucket, Bucket
  <2> QED  BY <2>1, <2>2
<1>3. g = [f EXCEPT ![e] = @ + 1]
  BY AccessCounts DEF NextBucket
<1> HIDE DEF e, f, g, S
<1>4. IsFiniteSet(S) /\ S \subseteq Bucket
  BY BeyondType DEF S
<1>5. \A b \in S : f[b] \in Nat /\ g[b] = IF b = e THEN f[b] + 1 ELSE f[b]
  BY <1>1, <1>2, <1>3, <1>4
<1>6. SumOf(f, S) \in Nat
  BY <1>4, <1>5, SumType
<1>7. CASE e \in S
  <2>1. SumOf(g, S) = SumOf(f, S) + 1
    BY <1>4, <1>5, <1>7, SumGrowsAt
  <2> QED  BY <1>2, <1>6, <1>7, <2>1 DEF e, f, g, S
<1>8. CASE e \notin S
  <2>1. \A b \in S : f[b] \in Nat /\ g[b] = f[b]
    BY <1>5, <1>8
  <2>2. SumOf(g, S) = SumOf(f, S)
    BY <1>4, <2>1, SumSame
  <2> QED  BY <1>2, <1>6, <1>8, <2>2 DEF e, f, g, S
<1> QED  BY <1>7, <1>8

-----------------------------------------------------------------------------
\* The invariant of MissAnalysis: the caches hold the top of the stacks, so a
\* miss is an access whose bucket is in the sum.
MissIInv ==
  /\ IInv
  /\ cache \in [0 .. 1 -> [Capacities -> Seq(Block)]]
  /\ misses \in [0 .. 1 -> [Capacities -> Nat]]
  /\ \A p \in 0 .. 1 : \A C \in Capacities :
       /\ TopOfStack(cache[p][C], partition[p].stack, C)
       /\ CountFrom(p, C) = misses[p][C]
  /\ EveryAccessCounted
  /\ Isolated = {} => \A C \in Capacities : misses[0][C] = 0

LEMMA MissInitIInv == MissInit => MissIInv
<1> SUFFICES ASSUME MissInit PROVE MissIInv
  OBVIOUS
<1>1. /\ IInv /\ accesses = 0
      /\ \A p \in 0 .. 1 : partition[p] = NewCacheSim
      /\ cache = [p \in 0 .. 1 |-> [C \in Capacities |-> << >>]]
      /\ misses = [p \in 0 .. 1 |-> [C \in Capacities |-> 0]]
  BY InitIInv DEF MissInit, Init
<1>2. Len(NewCacheSim.stack) = 0 /\ Len(<< >>) = 0 /\ << >> \in Seq(Block)
  BY EmptySeq DEF NewCacheSim
<1>3. \A p \in 0 .. 1 : \A min \in Nat : CountFrom(p, min) = 0
  <2> TAKE p \in 0 .. 1
  <2> TAKE min \in Nat
  <2>1. \A b \in Beyond(min) : partition[p].count[b] = 0
    BY <1>1, BeyondType DEF NewCacheSim
  <2>2. SumOf(partition[p].count, Beyond(min)) = 0
    BY <2>1, BeyondType, SumZero
  <2> QED  BY <2>2, CountFromIsSum
<1>4. /\ cache \in [0 .. 1 -> [Capacities -> Seq(Block)]]
      /\ misses \in [0 .. 1 -> [Capacities -> Nat]]
  BY <1>1, <1>2
<1>5. \A p \in 0 .. 1 : \A C \in Capacities :
        /\ TopOfStack(cache[p][C], partition[p].stack, C)
        /\ CountFrom(p, C) = misses[p][C]
  BY <1>1, <1>2, <1>3, CapacityPositive DEF TopOfStack
<1>6. EveryAccessCounted
  BY <1>1, <1>3 DEF EveryAccessCounted
<1> QED  BY <1>1, <1>4, <1>5, <1>6 DEF MissIInv

LEMMA AccessKeepsMissIInv ==
  ASSUME MissIInv, NEW x \in Block, MissAccess(x)
  PROVE  MissIInv'
<1> DEFINE q == PartitionOf(x)
           c == partition[q]
           r == AccessSim(c, x)
<1>t. /\ IInv /\ q \in 0 .. 1 /\ partition \in [0 .. 1 -> CacheSimState] /\ accesses \in Nat
      /\ Consistent(c) /\ Consistent(partition[0]) /\ Consistent(partition[1])
      /\ cache \in [0 .. 1 -> [Capacities -> Seq(Block)]]
      /\ misses \in [0 .. 1 -> [Capacities -> Nat]]
  BY DEF MissIInv, IInv, TypeOK, PartitionsConsistent, PartitionOf
<1>a. Access(x)
  BY DEF MissAccess
<1>1. IInv'
  BY <1>t, <1>a, AccessKeepsIInv
<1>2. /\ \A p \in 0 .. 1 : partition'[p] = IF p = q THEN r ELSE partition[p]
      /\ accesses' = accesses + 1
  BY <1>t, <1>a DEF Access
<1>3. /\ cache' = [cache EXCEPT ![q] = [C \in Capacities |-> Touched(cache[q][C], C, x)]]
      /\ misses' = [misses EXCEPT ![q] =
           [C \in Capacities |-> misses[q][C] + (IF IsMiss(cache[q][C], x) THEN 1 ELSE 0)]]
  BY <1>t DEF MissAccess
<1> HIDE DEF q, r
<1>4. ASSUME NEW C \in Capacities
      PROVE  /\ Touched(cache[q][C], C, x) \in Seq(Block)
             /\ TopOfStack(Touched(cache[q][C], C, x), r.stack, C)
             /\ NextBucket(c, x) \in Beyond(C) <=> IsMiss(cache[q][C], x)
  <2>1. C \in Nat \ {0} /\ cache[q][C] \in Seq(Block) /\ TopOfStack(cache[q][C], c.stack, C)
    BY <1>t, CapacityPositive DEF MissIInv
  <2> QED  BY <1>t, <2>1, TouchedIsTop, BeyondIsMiss DEF r
<1>5. cache' \in [0 .. 1 -> [Capacities -> Seq(Block)]]
  BY <1>t, <1>3, <1>4
<1>6. misses' \in [0 .. 1 -> [Capacities -> Nat]]
  BY <1>t, <1>3
<1>7. ASSUME NEW p \in 0 .. 1, NEW min
      PROVE  /\ CountFrom(p, min) \in Nat
             /\ CountFrom(p, min)' = CountFrom(p, min) +
                  (IF p = q /\ NextBucket(c, x) \in Beyond(min) THEN 1 ELSE 0)
  <2>1. CASE p = q
    <3>1. /\ SumOf(c.count, Beyond(min)) \in Nat
          /\ SumOf(r.count, Beyond(min)) = SumOf(c.count, Beyond(min)) +
               (IF NextBucket(c, x) \in Beyond(min) THEN 1 ELSE 0)
      BY <1>t, AccessAddsToSums DEF r
    <3>2. /\ CountFrom(p, min) = SumOf(c.count, Beyond(min))
          /\ CountFrom(p, min)' = SumOf(r.count, Beyond(min))
      BY <1>2, <2>1, CountFromIsSum
    <3> QED  BY <2>1, <3>1, <3>2
  <2>2. CASE p # q
    <3>1. SumOf(partition[p].count, Beyond(min)) \in Nat
      BY <1>t, AccessAddsToSums
    <3>2. CountFrom(p, min)' = CountFrom(p, min)
      BY <1>2, <2>2, CountFromIsSum
    <3>3. CountFrom(p, min) \in Nat
      BY <3>1, CountFromIsSum
    <3> QED  BY <2>2, <3>2, <3>3
  <2> QED  BY <2>1, <2>2
<1>8. ASSUME NEW p \in 0 .. 1, NEW C \in Capacities
      PROVE  /\ TopOfStack(cache'[p][C], partition'[p].stack, C)
             /\ CountFrom(p, C)' = misses'[p][C]
  <2>1. TopOfStack(cache[p][C], partition[p].stack, C) /\ CountFrom(p, C) = misses[p][C]
    BY DEF MissIInv
  <2>2. CASE p = q
    <3>1. /\ cache'[p][C] = Touched(cache[q][C], C, x)
          /\ misses'[p][C] = misses[q][C] + (IF IsMiss(cache[q][C], x) THEN 1 ELSE 0)
      BY <1>t, <1>3, <2>2
    <3> QED  BY <1>2, <1>4, <1>7, <2>1, <2>2, <3>1
  <2>3. CASE p # q
    <3>1. cache'[p][C] = cache[p][C] /\ misses'[p][C] = misses[p][C]
      BY <1>t, <1>3, <2>3
    <3>2. CountFrom(p, C)' = CountFrom(p, C)
      BY <1>7, <2>3
    <3> QED  BY <1>2, <2>1, <2>3, <3>1, <3>2
  <2> QED  BY <2>2, <2>3
<1>9. EveryAccessCounted'
  <2>1. NextBucket(c, x) \in Beyond(0)
    <3>1. NextBucket(c, x) \in Bucket
      BY <1>t, AccessAddsToSums
    <3>2. Bucket \subseteq Beyond(0)
      BY MinDistAssumption DEF Beyond, Bucket
    <3> QED  BY <3>1, <3>2
  <2>2. /\ CountFrom(0, 0) \in Nat /\ CountFrom(1, 0) \in Nat
        /\ CountFrom(0, 0)' = CountFrom(0, 0) + (IF 0 = q THEN 1 ELSE 0)
        /\ CountFrom(1, 0)' = CountFrom(1, 0) + (IF 1 = q THEN 1 ELSE 0)
    BY <1>7, <2>1
  <2>3. CountFrom(0, 0) + CountFrom(1, 0) = accesses
    BY DEF MissIInv, EveryAccessCounted
  <2>4. CountFrom(0, 0)' + CountFrom(1, 0)' = accesses'
    BY <1>2, <1>t, <2>2, <2>3
  <2> QED  BY <2>4 DEF EveryAccessCounted
<1>10. Isolated = {} => \A C \in Capacities : misses'[0][C] = 0
  BY <1>t, <1>3 DEF MissIInv, PartitionOf, q
<1> QED  BY <1>1, <1>5, <1>6, <1>8, <1>9, <1>10 DEF MissIInv

LEMMA MissNextIInv == MissIInv /\ [MissNext]_missVars => MissIInv'
<1> SUFFICES ASSUME MissIInv, [MissNext]_missVars PROVE MissIInv'
  OBVIOUS
<1>1. ASSUME NEW x \in Block, MissAccess(x)
      PROVE  MissIInv'
  BY <1>1, AccessKeepsMissIInv
<1>2. CASE UNCHANGED missVars
  <2>1. IInv'
    BY <1>2, NextIInv DEF missVars, vars, MissIInv
  <2>2. /\ partition' = partition /\ cache' = cache /\ misses' = misses /\ accesses' = accesses
    BY <1>2 DEF missVars
  <2>3. \A p, min : CountFrom(p, min)' = CountFrom(p, min)
    BY <2>2, CountFromIsSum
  <2> QED  BY <2>1, <2>2, <2>3 DEF MissIInv, EveryAccessCounted
<1> QED  BY <1>1, <1>2 DEF MissNext

\* The inductive invariant holds in every reachable state of MissAnalysis.
THEOREM MissInvariance == MissSpec => []MissIInv
<1>1. MissInit => MissIInv
  BY MissInitIInv
<1>2. MissIInv /\ [MissNext]_missVars => MissIInv'
  BY MissNextIInv
<1> QED  BY <1>1, <1>2, PTL DEF MissSpec

LEMMA CapacityIn ==
  ASSUME NEW level \in Level, NEW n \in 1 .. Ways(level)
  PROVE  Capacity(level, n) \in Capacities
BY DEF Capacities

\* misses_sc (pincpt.py) is exact: for every split of the ways of either
\* level the sum is the number of misses of the two caches.
THEOREM SplitMissesHold == MissSpec => []SplitMissesExact
<1>1. ASSUME MissIInv
      PROVE  SplitMissesExact
  <2> SUFFICES ASSUME NEW level \in Level, NEW n \in 1 .. Ways(level) - 1
               PROVE  MissesSc(level, n) = misses[0][Capacity(level, n)]
                                           + misses[1][Capacity(level, Ways(level) - n)]
    BY DEF SplitMissesExact
  <2>1. Ways(level) \in Nat
    BY WaysAssumption DEF Ways
  <2>2. n \in 1 .. Ways(level) /\ Ways(level) - n \in 1 .. Ways(level)
    BY <2>1
  <2>3. Capacity(level, n) \in Capacities /\ Capacity(level, Ways(level) - n) \in Capacities
    BY <2>2, CapacityIn
  <2> QED  BY <1>1, <2>3 DEF MissIInv, MissesSc
<1> QED  BY <1>1, MissInvariance, PTL

\* misses_nosc (pincpt.py) is exact for data object 0: the sum is the number
\* of misses of the whole cache.
THEOREM SharedMissesHold == MissSpec => []SharedMissesExact
<1>1. ASSUME MissIInv
      PROVE  SharedMissesExact
  <2> SUFFICES ASSUME Isolated = {}, NEW level \in Level
               PROVE  MissesNosc(level) = misses[1][Capacity(level, Ways(level))]
    BY DEF SharedMissesExact
  <2> DEFINE C == Capacity(level, Ways(level))
  <2>1. Ways(level) \in 1 .. Ways(level)
    BY WaysAssumption DEF Ways
  <2>2. C \in Capacities
    BY <2>1, CapacityIn
  <2> HIDE DEF C
  <2>3. CountFrom(0, C) = 0 /\ CountFrom(1, C) = misses[1][C] /\ misses[1][C] \in Nat
    BY <1>1, <2>2 DEF MissIInv
  <2>4. CountFrom(0, C) + CountFrom(1, C) = misses[1][C]
    BY <2>3
  <2> QED  BY <2>4 DEF MissesNosc, C
<1> QED  BY <1>1, MissInvariance, PTL

\* Every access is in exactly one bucket of one partition.
THEOREM CountingHolds == MissSpec => []EveryAccessCounted
<1>1. MissIInv => EveryAccessCounted
  BY DEF MissIInv
<1> QED  BY <1>1, MissInvariance, PTL
=============================================================================
