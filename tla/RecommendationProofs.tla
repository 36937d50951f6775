------------------------ MODULE RecommendationProofs ------------------------
(***************************************************************************)
(* Theorems about Recommendation, for any threads, blocks, allocations,    *)
(* thresholds and levels and for runs of any length: what the script's     *)
(* numbers of misses have to do with those of the target's caches, and     *)
(* what that makes of the split it recommends.                             *)
(***************************************************************************)
EXTENDS Recommendation, ProfilerProofs

-----------------------------------------------------------------------------
(* The capacities, and the buckets that pincpt.py adds up for one. *)

LEMMA CapacityIn ==
  ASSUME NEW level \in Level, NEW n \in 1 .. Ways(level)
  PROVE  Capacity(level, n) \in Capacities
BY DEF Capacities

LEMMA CapacityPositive == \A C \in Capacities : C \in Nat \ {0}
<1> SUFFICES ASSUME NEW level \in Level, NEW n \in 1 .. Ways(level)
             PROVE  Capacity(level, n) \in Nat \ {0}
  BY DEF Capacities
<1>1. Ways(level) \in Nat
  BY WaysAssumption DEF Ways
<1>2. \A m \in Nat \ {0} : n * m \in Nat \ {0}
  BY <1>1
<1> QED  BY <1>2, WaysAssumption DEF Capacity

Beyond(min) == {b \in Bucket : b # InfBucket => MinDist[b] >= min}

LEMMA BeyondType ==
  ASSUME NEW min
  PROVE  IsFiniteSet(Beyond(min)) /\ Beyond(min) \subseteq Bucket
<1>1. IsFiniteSet(0 .. InfBucket)
  BY MinDistAssumption, FS_Interval
<1> QED  BY <1>1, FS_Subset DEF Beyond, Bucket

LEMMA CountFromIs ==
  ASSUME NEW k, NEW p, NEW min
  PROVE  /\ CountFrom(k, p, min) = SumOf(cachesims[k].partition[p].count, Beyond(min))
         /\ CountFrom(k, p, min)' = SumOf(cachesims'[k].partition[p].count, Beyond(min))
<1>1. CountFrom(k, p, min) = SumOf(cachesims[k].partition[p].count, Beyond(min))
  BY DEF CountFrom, Beyond
<1>2. CountFrom(k, p, min)' = SumOf(cachesims'[k].partition[p].count, Beyond(min))
  BY DEF CountFrom, Beyond
<1> QED  BY <1>1, <1>2

\* The bucket of a distance is among those of a capacity when the distance is
\* not below it: the capacity is the start of a bucket.
LEMMA BeyondIs ==
  ASSUME NEW C \in Capacities, NEW d \in Nat, NEW b \in 0 .. InfBucket - 1, MinDist[b] <= d,
         \A k \in 0 .. InfBucket - 1 : MinDist[k] <= d => k <= b
  PROVE  b \in Beyond(C) <=> C <= d
<1>t. /\ InfBucket \in Nat \ {0} /\ MinDist \in [0 .. InfBucket - 1 -> Nat] /\ C \in Nat
      /\ \A i, j \in 0 .. InfBucket - 1 : i < j => MinDist[i] < MinDist[j]
  BY MinDistAssumption, CapacityPositive
<1>1. PICK j \in 0 .. InfBucket - 1 : MinDist[j] = C
  BY CapacityAssumption
<1>2. b \in Beyond(C) <=> C <= MinDist[b]
  BY <1>t DEF Beyond, Bucket
<1>3. ASSUME C <= d PROVE C <= MinDist[b]
  <2>1. j <= b
    BY <1>1, <1>3
  <2>2. j = b \/ j < b
    BY <1>t, <2>1
  <2>3. MinDist[j] <= MinDist[b]
    BY <1>t, <2>2
  <2> QED  BY <1>1, <2>3
<1>4. MinDist[b] \in Nat
  BY <1>t
<1> QED  BY <1>2, <1>3, <1>4, <1>t

\* The sum of a histogram that counts one more.
LEMMA SumIncrement ==
  ASSUME NEW f, NEW g, NEW S, IsFiniteSet(S), NEW e \in S,
         \A x \in S : f[x] \in Nat /\ g[x] = IF x = e THEN f[x] + 1 ELSE f[x]
  PROVE  SumOf(g, S) = SumOf(f, S) + 1
BY SumGrowsAt

LEMMA CountedSum ==
  ASSUME NEW f \in [Bucket -> Nat], NEW e \in Bucket, NEW min
  PROVE  /\ SumOf(f, Beyond(min)) \in Nat
         /\ SumOf([f EXCEPT ![e] = @ + 1], Beyond(min)) =
              IF e \in Beyond(min) THEN SumOf(f, Beyond(min)) + 1 ELSE SumOf(f, Beyond(min))
<1> DEFINE g == [f EXCEPT ![e] = @ + 1]
<1>1. IsFiniteSet(Beyond(min)) /\ Beyond(min) \subseteq Bucket
  BY BeyondType
<1>2. \A x \in Beyond(min) : f[x] \in Nat /\ g[x] = IF x = e THEN f[x] + 1 ELSE f[x]
  BY <1>1
<1> HIDE DEF g
<1>3. CASE e \in Beyond(min)
  BY <1>1, <1>2, <1>3, SumIncrement, SumType DEF g
<1>4. CASE e \notin Beyond(min)
  <2>1. \A x \in Beyond(min) : f[x] \in Nat /\ g[x] = f[x]
    BY <1>2, <1>4
  <2> QED  BY <1>1, <1>4, <2>1, SumSame, SumType DEF g
<1> QED  BY <1>3, <1>4

-----------------------------------------------------------------------------
(* The lines of an LRU cache. *)

Distinct(s) == \A i, j \in 1 .. Len(s) : s[i] = s[j] => i = j

\* Lines of a cache of C blocks.
Lines(l, C) == l \in Seq(Block) /\ Distinct(l) /\ Len(l) <= C

LEMMA LineIs ==
  ASSUME NEW l, Distinct(l), NEW j \in 1 .. Len(l)
  PROVE  Holds(l, l[j]) /\ Line(l, l[j]) = j
BY DEF Distinct, Holds, Line

\* t is x in front of the first n elements of s.
Pushed(s, t, x, n) ==
  /\ Len(t) = n + 1 /\ t[1] = x
  /\ \A i \in 1 .. n : t[i + 1] = s[i]

LEMMA TouchedIs ==
  ASSUME NEW C \in Nat \ {0}, NEW l, Lines(l, C), NEW x \in Block
  PROVE  LET t == Touched(l, C, x)
         IN  /\ t \in Seq(Block)
             /\ ~Holds(l, x) => Pushed(l, t, x, IF Len(l) < C THEN Len(l) ELSE C - 1)
             /\ \A j \in 1 .. Len(l) : l[j] = x => InFront(l, t, j)
<1> DEFINE n == IF Len(l) < C THEN Len(l) ELSE C - 1
           t == Touched(l, C, x)
<1>t. l \in Seq(Block) /\ Len(l) \in Nat /\ Len(l) <= C /\ n \in 0 .. Len(l)
  BY LenProperties DEF Lines
<1>1. CASE Holds(l, x)
  <2>1. PICK j \in 1 .. Len(l) : l[j] = x
    BY <1>1 DEF Holds
  <2>2. Line(l, x) = j /\ \A i \in 1 .. Len(l) : l[i] = x => i = j
    BY <2>1, LineIs DEF Lines, Distinct
  <2>3. t = MoveToFront(l, j)
    BY <1>1, <2>2 DEF Touched
  <2>4. t \in Seq(Block) /\ InFront(l, t, j)
    BY <1>t, <2>3, MoveToFrontElements
  <2> QED  BY <1>1, <2>2, <2>4
<1>2. CASE ~Holds(l, x)
  <2> DEFINE u == SubSeq(l, 1, n)
             h == << x >>
  <2>1. t = h \o u
    BY <1>2 DEF Touched
  <2> HIDE DEF n, t
  <2>2. u \in Seq(Block) /\ Len(u) = n /\ \A i \in 1 .. n : u[i] = l[i]
    <3>1. n \in Nat /\ n \in Int /\ 1 \in Int
      BY <1>t
    <3>2. \A i \in 1 .. n : l[i] \in Block
      BY <1>t, ElementOfSeq
    <3>3. /\ u \in Seq(Block)
          /\ Len(u) = IF 1 <= n THEN n - 1 + 1 ELSE 0
          /\ \A i \in 1 .. n - 1 + 1 : u[i] = l[1 + i - 1]
      BY <1>t, <3>1, <3>2, SubSeqProperties
    <3>4. \A i \in 1 .. n : i \in 1 .. n - 1 + 1 /\ 1 + i - 1 = i
      BY <3>1
    <3>5. Len(u) = n
      BY <3>1, <3>3
    <3> HIDE DEF u
    <3> QED  BY <3>3, <3>4, <3>5
  <2>3. h \in Seq(Block) /\ Len(h) = 1 /\ h[1] = x
    OBVIOUS
  <2> HIDE DEF u, h
  <2>4. t \in Seq(Block) /\ Len(t) = n + 1 /\ t[1] = x /\ \A i \in 1 .. n : t[i + 1] = u[i]
    <3>1. /\ t \in Seq(Block) /\ Len(t) = 1 + n
          /\ \A i \in 1 .. 1 + n : t[i] = IF i <= 1 THEN h[i] ELSE u[i - 1]
      <4>1. /\ h \o u \in Seq(Block) /\ Len(h \o u) = Len(h) + Len(u)
            /\ \A i \in 1 .. Len(h) + Len(u) :
                 (h \o u)[i] = IF i <= Len(h) THEN h[i] ELSE u[i - Len(h)]
        BY <2>2, <2>3, ConcatProperties
      <4> QED  BY <4>1, <2>1, <2>2, <2>3
    <3>2. n \in Nat
      BY <1>t
    <3> QED  BY <2>3, <3>1, <3>2
  <2>5. ~\E j \in 1 .. Len(l) : l[j] = x
    BY <1>2 DEF Holds
  <2> QED  BY <2>2, <2>4, <2>5 DEF n, t, Pushed
<1> QED  BY <1>1, <1>2

LEMMA TouchedLines ==
  ASSUME NEW C \in Nat \ {0}, NEW l, Lines(l, C), NEW x \in Block
  PROVE  LET t == Touched(l, C, x)
         IN  /\ Lines(t, C) /\ Len(t) \in Nat \ {0} /\ t[1] = x
             /\ Len(t) <= IF Holds(l, x) THEN Len(l) ELSE Len(l) + 1
<1> DEFINE t == Touched(l, C, x)
<1>t. /\ l \in Seq(Block) /\ Len(l) \in Nat /\ Len(l) <= C
      /\ \A i, j \in 1 .. Len(l) : l[i] = l[j] => i = j
  BY LenProperties DEF Lines, Distinct
<1>1. CASE Holds(l, x)
  <2>1. PICK j \in 1 .. Len(l) : l[j] = x
    BY <1>1 DEF Holds
  <2>2. t \in Seq(Block) /\ InFront(l, t, j)
    BY <2>1, TouchedIs
  <2> HIDE DEF t
  <2>3. Len(t) = Len(l) /\ t[1] = x
    BY <2>1, <2>2 DEF InFront
  <2>4. ASSUME NEW a \in 1 .. Len(t), NEW b \in 1 .. Len(t), t[a] = t[b] PROVE a = b
    <3>1. \A i \in 1 .. Len(l) : \/ i = 1 /\ t[i] = l[j]
                                 \/ i - 1 \in 1 .. j - 1 /\ t[i] = l[i - 1]
                                 \/ i \in j + 1 .. Len(l) /\ t[i] = l[i]
      BY <1>t, <2>2, InFrontPositions
    <3>2. \A i \in 1 .. j - 1 : i \in 1 .. Len(l) /\ i # j
      BY <1>t
    <3>3. \A i \in j + 1 .. Len(l) : i \in 1 .. Len(l) /\ i # j
      BY <1>t
    <3>4. a \in 1 .. Len(l) /\ b \in 1 .. Len(l)
      BY <2>3
    <3>5. CASE a = 1 \/ b = 1
      <4>1. \A i \in 1 .. Len(l) : i # 1 => t[i] # l[j]
        <5> SUFFICES ASSUME NEW i \in 1 .. Len(l), i # 1 PROVE t[i] # l[j]
          OBVIOUS
        <5>1. CASE i - 1 \in 1 .. j - 1 /\ t[i] = l[i - 1]
          BY <1>t, <3>2, <5>1
        <5>2. CASE i \in j + 1 .. Len(l) /\ t[i] = l[i]
          BY <1>t, <3>3, <5>2
        <5> QED  BY <3>1, <5>1, <5>2
      <4>2. t[1] = l[j]
        BY <2>1, <2>3
      <4> QED  BY <2>4, <3>4, <3>5, <4>1, <4>2
    <3>6. CASE a - 1 \in 1 .. j - 1 /\ t[a] = l[a - 1] /\ b - 1 \in 1 .. j - 1 /\ t[b] = l[b - 1]
      <4>1. a - 1 = b - 1
        BY <1>t, <2>4, <3>2, <3>6
      <4> QED  BY <4>1
    <3>7. CASE a \in j + 1 .. Len(l) /\ t[a] = l[a] /\ b \in j + 1 .. Len(l) /\ t[b] = l[b]
      BY <1>t, <2>4, <3>3, <3>7
    <3>8. ASSUME NEW c \in 1 .. Len(l), NEW d \in 1 .. Len(l), t[c] = t[d],
                 c - 1 \in 1 .. j - 1, t[c] = l[c - 1], d \in j + 1 .. Len(l), t[d] = l[d]
          PROVE  FALSE
      <4>1. c - 1 = d
        BY <1>t, <3>2, <3>3, <3>8
      <4> QED  BY <4>1, <3>8
    <3> QED  BY <2>4, <3>1, <3>4, <3>5, <3>6, <3>7, <3>8
  <2> QED  BY <1>1, <1>t, <2>1, <2>2, <2>3, <2>4 DEF Lines, Distinct, t
<1>2. CASE ~Holds(l, x)
  <2> DEFINE n == IF Len(l) < C THEN Len(l) ELSE C - 1
  <2>1. t \in Seq(Block) /\ Pushed(l, t, x, n)
    BY <1>2, TouchedIs
  <2>2. n \in Nat /\ n <= Len(l) /\ n + 1 <= C
    BY <1>t
  <2> HIDE DEF t, n
  <2>3. Len(t) = n + 1 /\ t[1] = x /\ \A i \in 1 .. n : t[i + 1] = l[i]
    BY <2>1 DEF Pushed
  <2>4. \A i \in 1 .. Len(l) : l[i] # x
    BY <1>2 DEF Holds
  <2>5. \A i \in 1 .. Len(t) : i # 1 => i - 1 \in 1 .. n /\ i - 1 \in 1 .. Len(l) /\ t[i] = l[i - 1]
    <3> SUFFICES ASSUME NEW i \in 1 .. Len(t), i # 1
                 PROVE  i - 1 \in 1 .. n /\ i - 1 \in 1 .. Len(l) /\ t[i] = l[i - 1]
      OBVIOUS
    <3>1. i - 1 \in 1 .. n /\ (i - 1) + 1 = i
      BY <2>2, <2>3
    <3>2. t[(i - 1) + 1] = l[i - 1]
      BY <2>3, <3>1
    <3> QED  BY <1>t, <2>2, <3>1, <3>2
  <2>6. ASSUME NEW a \in 1 .. Len(t), NEW b \in 1 .. Len(t), t[a] = t[b] PROVE a = b
    <3>1. CASE a = 1 \/ b = 1
      BY <2>3, <2>4, <2>5, <2>6, <3>1
    <3>2. CASE a # 1 /\ b # 1
      <4>1. a - 1 = b - 1
        BY <1>t, <2>5, <2>6, <3>2
      <4> QED  BY <4>1
    <3> QED  BY <3>1, <3>2
  <2> QED  BY <1>2, <1>t, <2>1, <2>2, <2>3, <2>6 DEF Lines, Distinct, t
<1> QED  BY <1>1, <1>2

\* The newest line stays where it is.
LEMMA TouchedNewest ==
  ASSUME NEW C \in Nat \ {0}, NEW l, Lines(l, C), Len(l) > 0
  PROVE  Holds(l, l[1]) /\ Touched(l, C, l[1]) = l
<1> DEFINE t == Touched(l, C, l[1])
<1>t. l \in Seq(Block) /\ Len(l) \in Nat /\ 1 \in 1 .. Len(l) /\ l[1] \in Block
  BY LenProperties, ElementOfSeq DEF Lines
<1>1. t \in Seq(Block) /\ InFront(l, t, 1)
  BY <1>t, TouchedIs
<1> HIDE DEF t
<1>2. Len(t) = Len(l) /\ \A i \in 1 .. Len(l) : t[i] = l[i]
  <2>1. t[1] = l[1] /\ Len(t) = Len(l) /\ \A i \in 1 + 1 .. Len(l) : t[i] = l[i]
    BY <1>1 DEF InFront
  <2>2. \A i \in 1 .. Len(l) : i = 1 \/ i \in 1 + 1 .. Len(l)
    BY <1>t
  <2> QED  BY <2>1, <2>2
<1>3. t = l
  BY <1>t, <1>1, <1>2, SeqEqual
<1> QED  BY <1>t, <1>3 DEF Holds, t

LEMMA WithoutIs ==
  ASSUME NEW C \in Nat, NEW l, Lines(l, C), NEW x
  PROVE  LET t == Without(l, x)
         IN  /\ Lines(t, C) /\ ~Holds(t, x) /\ Len(t) <= Len(l)
             /\ ~Holds(l, x) => t = l
             /\ \A j \in 1 .. Len(l) : l[j] = x => /\ Len(t) = Len(l) - 1
                                                   /\ \A i \in 1 .. j - 1 : t[i] = l[i]
<1> DEFINE t == Without(l, x)
<1>t. /\ l \in Seq(Block) /\ Len(l) \in Nat /\ Len(l) <= C
      /\ \A i, j \in 1 .. Len(l) : l[i] = l[j] => i = j
  BY LenProperties DEF Lines, Distinct
<1>1. CASE ~Holds(l, x)
  <2>1. t = l
    BY <1>1 DEF Without
  <2>2. ~\E j \in 1 .. Len(l) : l[j] = x
    BY <1>1 DEF Holds
  <2> HIDE DEF t
  <2> QED  BY <1>1, <1>t, <2>1, <2>2 DEF t
<1>2. CASE Holds(l, x)
  <2>1. PICK j \in 1 .. Len(l) : l[j] = x
    BY <1>2 DEF Holds
  <2>2. Line(l, x) = j /\ \A i \in 1 .. Len(l) : l[i] = x => i = j
    BY <1>t, <2>1, LineIs DEF Distinct
  <2> DEFINE u == SubSeq(l, 1, j - 1)
             v == SubSeq(l, j + 1, Len(l))
  <2>3. t = u \o v
    BY <1>2, <2>2 DEF Without
  <2>4. u \in Seq(Block) /\ Len(u) = j - 1 /\ \A i \in 1 .. j - 1 : u[i] = l[i]
    <3>1. /\ u \in Seq(Block)
          /\ Len(u) = IF 1 <= j - 1 THEN (j - 1) - 1 + 1 ELSE 0
          /\ \A i \in 1 .. (j - 1) - 1 + 1 : u[i] = l[1 + i - 1]
      <4>1. 1 \in Int /\ j - 1 \in Int /\ \A i \in 1 .. j - 1 : l[i] \in Block
        BY <1>t, ElementOfSeq
      <4> QED  BY <1>t, <4>1, SubSeqProperties
    <3>2. \A i \in 1 .. j - 1 : i \in 1 .. (j - 1) - 1 + 1 /\ 1 + i - 1 = i
      OBVIOUS
    <3>3. Len(u) = j - 1
      BY <3>1
    <3> HIDE DEF u
    <3> QED  BY <3>1, <3>2, <3>3
  <2>5. v \in Seq(Block) /\ Len(v) = Len(l) - j /\ \A i \in 1 .. Len(l) - j : v[i] = l[j + i]
    <3>1. /\ v \in Seq(Block)
          /\ Len(v) = IF j + 1 <= Len(l) THEN Len(l) - (j + 1) + 1 ELSE 0
          /\ \A i \in 1 .. Len(l) - (j + 1) + 1 : v[i] = l[(j + 1) + i - 1]
      <4>1. j + 1 \in Int /\ Len(l) \in Int /\ \A i \in j + 1 .. Len(l) : l[i] \in Block
        BY <1>t, ElementOfSeq
      <4> QED  BY <1>t, <4>1, SubSeqProperties
    <3>2. \A i \in 1 .. Len(l) - j : i \in 1 .. Len(l) - (j + 1) + 1 /\ (j + 1) + i - 1 = j + i
      BY <1>t
    <3>3. Len(v) = Len(l) - j
      BY <1>t, <3>1
    <3> HIDE DEF v
    <3> QED  BY <3>1, <3>2, <3>3
  <2> HIDE DEF t, u, v
  <2>6. /\ t \in Seq(Block) /\ Len(t) = Len(l) - 1
        /\ \A i \in 1 .. j - 1 : t[i] = l[i]
        /\ \A i \in j .. Len(l) - 1 : t[i] = l[i + 1]
    <3>1. /\ u \o v \in Seq(Block) /\ Len(u \o v) = Len(u) + Len(v)
          /\ \A i \in 1 .. Len(u) + Len(v) : (u \o v)[i] = IF i <= Len(u) THEN u[i] ELSE v[i - Len(u)]
      BY <2>4, <2>5, ConcatProperties
    <3>2. /\ t \in Seq(Block) /\ Len(t) = Len(l) - 1
          /\ \A i \in 1 .. Len(l) - 1 : t[i] = IF i <= j - 1 THEN u[i] ELSE v[i - (j - 1)]
      <4>1. (j - 1) + (Len(l) - j) = Len(l) - 1
        BY <1>t
      <4> QED  BY <2>3, <2>4, <2>5, <3>1, <4>1
    <3>3. \A i \in 1 .. j - 1 : t[i] = l[i]
      <4>1. \A i \in 1 .. j - 1 : i \in 1 .. Len(l) - 1 /\ i <= j - 1
        BY <1>t
      <4> QED  BY <2>4, <3>2, <4>1
    <3>4. ASSUME NEW i \in j .. Len(l) - 1 PROVE t[i] = l[i + 1]
      <4>1. /\ i \in 1 .. Len(l) - 1 /\ ~(i <= j - 1)
            /\ i - (j - 1) \in 1 .. Len(l) - j /\ j + (i - (j - 1)) = i + 1
        BY <1>t
      <4> QED  BY <2>5, <3>2, <4>1
    <3> QED  BY <3>2, <3>3, <3>4
  <2>7. \A i \in 1 .. Len(t) : \/ i \in 1 .. j - 1 /\ i \in 1 .. Len(l) /\ t[i] = l[i]
                               \/ i \in j .. Len(l) - 1 /\ i + 1 \in 1 .. Len(l) /\ t[i] = l[i + 1]
    <3> SUFFICES ASSUME NEW i \in 1 .. Len(t)
                 PROVE  \/ i \in 1 .. j - 1 /\ i \in 1 .. Len(l) /\ t[i] = l[i]
                        \/ i \in j .. Len(l) - 1 /\ i + 1 \in 1 .. Len(l) /\ t[i] = l[i + 1]
      OBVIOUS
    <3>1. i \in 1 .. j - 1 \/ i \in j .. Len(l) - 1
      BY <1>t, <2>6
    <3>2. i \in 1 .. Len(l) /\ i + 1 \in 1 .. Len(l)
      BY <1>t, <2>6
    <3> QED  BY <2>6, <3>1, <3>2
  <2>8. Distinct(t)
    <3> SUFFICES ASSUME NEW a \in 1 .. Len(t), NEW b \in 1 .. Len(t), t[a] = t[b] PROVE a = b
      BY DEF Distinct
    <3>1. CASE a \in 1 .. j - 1 /\ t[a] = l[a] /\ b \in 1 .. j - 1 /\ t[b] = l[b]
      <4>1. a \in 1 .. Len(l) /\ b \in 1 .. Len(l)
        <5>1. Len(l) \in Nat
          BY <1>t
        <5> QED  BY <3>1, <5>1
      <4>2. l[a] = l[b]
        BY <3>1
      <4> QED  BY <1>t, <4>1, <4>2
    <3>2. CASE a \in j .. Len(l) - 1 /\ t[a] = l[a + 1] /\ b \in j .. Len(l) - 1 /\ t[b] = l[b + 1]
      <4>1. a + 1 \in 1 .. Len(l) /\ b + 1 \in 1 .. Len(l)
        BY <1>t, <3>2
      <4>2. a + 1 = b + 1
        BY <1>t, <3>2, <4>1
      <4> QED  BY <4>2
    <3>3. ASSUME NEW c \in 1 .. j - 1, NEW d \in j .. Len(l) - 1, l[c] = l[d + 1] PROVE FALSE
      <4>1. c \in 1 .. Len(l) /\ d + 1 \in 1 .. Len(l) /\ c # d + 1
        BY <1>t
      <4> QED  BY <1>t, <3>3, <4>1
    <3> QED  BY <2>7, <3>1, <3>2, <3>3
  <2>9. ~Holds(t, x)
    <3> SUFFICES ASSUME NEW i \in 1 .. Len(t), t[i] = x PROVE FALSE
      BY DEF Holds
    <3>1. CASE i \in 1 .. j - 1 /\ i \in 1 .. Len(l) /\ t[i] = l[i]
      BY <2>2, <3>1
    <3>2. CASE i \in j .. Len(l) - 1 /\ i + 1 \in 1 .. Len(l) /\ t[i] = l[i + 1]
      BY <2>2, <3>2
    <3> QED  BY <2>7, <3>1, <3>2
  <2> QED  BY <1>2, <1>t, <2>2, <2>6, <2>8, <2>9 DEF Lines, t
<1> QED  BY <1>1, <1>2

-----------------------------------------------------------------------------
(***************************************************************************)
(* The lines of a cache of C blocks, beside the stack of a simulator that  *)
(* was added while the target ran.  Where both have an element they have   *)
(* the same, and only a full cache has fewer of them than the stack: the   *)
(* lines that the stack does not have are the oldest, from earlier.        *)
(***************************************************************************)
Follows(l, s, C) ==
  /\ \A i \in 1 .. Len(l) : i <= Len(s) => l[i] = s[i]
  /\ Len(l) < C => Len(s) <= Len(l)

\* Both had the block, at the same place.
LEMMA FollowsMoved ==
  ASSUME NEW C \in Nat, NEW l \in Seq(Block), NEW s \in Seq(Block), NEW t, NEW r, Follows(l, s, C),
         NEW j \in 1 .. Len(l), j <= Len(s), InFront(l, t, j), InFront(s, r, j)
  PROVE  Follows(t, r, C)
<1>t. /\ Len(l) \in Nat /\ Len(s) \in Nat /\ Len(t) = Len(l) /\ Len(r) = Len(s)
      /\ j \in 1 .. Len(s)
      /\ \A i \in 1 .. Len(l) : i <= Len(s) => l[i] = s[i]
  BY LenProperties DEF InFront, Follows
<1>1. ASSUME NEW i \in 1 .. Len(l), i <= Len(s) PROVE t[i] = r[i]
  <2>1. CASE i = 1
    BY <1>t, <2>1 DEF InFront
  <2>2. CASE i - 1 \in 1 .. j - 1
    <3>1. (i - 1) + 1 = i /\ i - 1 \in 1 .. Len(l) /\ i - 1 <= Len(s)
      BY <1>t, <1>1, <2>2
    <3>2. t[(i - 1) + 1] = l[i - 1] /\ r[(i - 1) + 1] = s[i - 1]
      BY <2>2 DEF InFront
    <3> QED  BY <1>t, <3>1, <3>2
  <2>3. CASE i \in j + 1 .. Len(l)
    <3>1. i \in j + 1 .. Len(s)
      BY <1>t, <1>1, <2>3
    <3>2. t[i] = l[i] /\ r[i] = s[i]
      BY <2>3, <3>1 DEF InFront
    <3> QED  BY <1>t, <1>1, <3>2
  <2>4. i = 1 \/ i - 1 \in 1 .. j - 1 \/ i \in j + 1 .. Len(l)
    BY <1>t
  <2> QED  BY <2>1, <2>2, <2>3, <2>4
<1> QED  BY <1>t, <1>1 DEF Follows

\* The cache had the block from before.
LEMMA FollowsEarlier ==
  ASSUME NEW C \in Nat, NEW l \in Seq(Block), NEW s \in Seq(Block), NEW t, NEW r, Follows(l, s, C),
         NEW j \in 1 .. Len(l), j > Len(s), InFront(l, t, j), Pushed(s, r, l[j], Len(s))
  PROVE  Follows(t, r, C)
<1>t. /\ Len(l) \in Nat /\ Len(s) \in Nat /\ Len(t) = Len(l) /\ Len(r) = Len(s) + 1
      /\ \A i \in 1 .. Len(l) : i <= Len(s) => l[i] = s[i]
  BY LenProperties DEF InFront, Pushed, Follows
<1>1. ASSUME NEW i \in 1 .. Len(l), i <= Len(s) + 1 PROVE t[i] = r[i]
  <2>1. CASE i = 1
    BY <2>1 DEF InFront, Pushed
  <2>2. CASE i # 1
    <3>1. /\ (i - 1) + 1 = i /\ i - 1 \in 1 .. Len(l) /\ i - 1 <= Len(s)
          /\ i - 1 \in 1 .. j - 1 /\ i - 1 \in 1 .. Len(s)
      BY <1>t, <1>1, <2>2
    <3>2. t[(i - 1) + 1] = l[i - 1]
      BY <3>1 DEF InFront
    <3>3. r[(i - 1) + 1] = s[i - 1]
      BY <3>1 DEF Pushed
    <3> QED  BY <1>t, <3>1, <3>2, <3>3
  <2> QED  BY <2>1, <2>2
<1>2. Len(s) + 1 <= Len(l)
  BY <1>t
<1> QED  BY <1>t, <1>1, <1>2 DEF Follows

\* The cache has evicted the block, or neither had it.
LEMMA FollowsEvicted ==
  ASSUME NEW C \in Nat \ {0}, NEW l \in Seq(Block), NEW s \in Seq(Block), NEW t, NEW r, Follows(l, s, C),
         NEW x, Len(l) = C, NEW j \in 1 .. Len(s), s[j] = x, j > Len(l),
         Pushed(l, t, x, C - 1), InFront(s, r, j)
  PROVE  Follows(t, r, C)
<1>t. /\ Len(s) \in Nat /\ Len(t) = C /\ Len(r) = Len(s)
      /\ \A i \in 1 .. Len(l) : i <= Len(s) => l[i] = s[i]
  BY LenProperties DEF InFront, Pushed, Follows
<1>1. ASSUME NEW i \in 1 .. C, i <= Len(s) PROVE t[i] = r[i]
  <2>1. CASE i = 1
    BY <2>1 DEF InFront, Pushed
  <2>2. CASE i # 1
    <3>1. /\ (i - 1) + 1 = i /\ i - 1 \in 1 .. Len(l) /\ i - 1 <= Len(s)
          /\ i - 1 \in 1 .. j - 1 /\ i - 1 \in 1 .. C - 1
      BY <1>t, <1>1, <2>2
    <3>2. r[(i - 1) + 1] = s[i - 1]
      BY <3>1 DEF InFront
    <3>3. t[(i - 1) + 1] = l[i - 1]
      BY <3>1 DEF Pushed
    <3> QED  BY <1>t, <3>1, <3>2, <3>3
  <2> QED  BY <2>1, <2>2
<1> QED  BY <1>t, <1>1 DEF Follows

LEMMA FollowsNew ==
  ASSUME NEW C \in Nat \ {0}, NEW l \in Seq(Block), NEW s \in Seq(Block), NEW t, NEW r, Follows(l, s, C),
         NEW x, Len(l) <= C, Pushed(l, t, x, IF Len(l) < C THEN Len(l) ELSE C - 1),
         Pushed(s, r, x, Len(s))
  PROVE  Follows(t, r, C)
<1> DEFINE n == IF Len(l) < C THEN Len(l) ELSE C - 1
<1>t. /\ Len(l) \in Nat /\ Len(s) \in Nat /\ n \in Nat /\ n <= Len(l)
      /\ n = Len(l) \/ n = C - 1
      /\ Len(l) < C => n = Len(l)
  BY LenProperties
<1>1. /\ Len(t) = n + 1 /\ t[1] = x /\ \A i \in 1 .. n : t[i + 1] = l[i]
      /\ Len(r) = Len(s) + 1 /\ r[1] = x /\ \A i \in 1 .. Len(s) : r[i + 1] = s[i]
  BY DEF Pushed
<1>2. /\ \A i \in 1 .. Len(l) : i <= Len(s) => l[i] = s[i]
      /\ Len(l) < C => Len(s) <= Len(l)
  BY DEF Follows
<1> HIDE DEF n
<1>3. ASSUME NEW i \in 1 .. n + 1, i <= Len(s) + 1 PROVE t[i] = r[i]
  <2>1. CASE i = 1
    BY <1>1, <2>1
  <2>2. CASE i # 1
    <3>1. /\ (i - 1) + 1 = i /\ i - 1 \in 1 .. Len(l) /\ i - 1 <= Len(s)
          /\ i - 1 \in 1 .. n /\ i - 1 \in 1 .. Len(s)
      BY <1>t, <1>3, <2>2
    <3>2. t[(i - 1) + 1] = l[i - 1] /\ r[(i - 1) + 1] = s[i - 1]
      BY <1>1, <3>1
    <3> QED  BY <1>2, <3>1, <3>2
  <2> QED  BY <2>1, <2>2
<1>4. n + 1 < C => Len(s) + 1 <= n + 1
  BY <1>t, <1>2
<1> QED  BY <1>1, <1>3, <1>4 DEF Follows

\* A line that the stack does not have is taken out.
LEMMA FollowsWithout ==
  ASSUME NEW C \in Nat, NEW l, Lines(l, C), NEW c, Consistent(c), Follows(l, c.stack, C),
         NEW x, ~OnStack(c, x)
  PROVE  Follows(Without(l, x), c.stack, C)
<1> DEFINE t == Without(l, x)
           s == c.stack
<1>t. /\ Len(l) \in Nat /\ Len(s) \in Nat /\ Len(l) <= C
      /\ \A i \in 1 .. Len(l) : i <= Len(s) => l[i] = s[i]
      /\ Len(l) < C => Len(s) <= Len(l)
  <2>1. s \in Seq(Block) /\ l \in Seq(Block) /\ Len(l) <= C
    BY DEF Consistent, CacheSimState, Lines
  <2> QED  BY <2>1, LenProperties DEF Follows
<1>1. CASE ~Holds(l, x)
  BY <1>1, WithoutIs
<1>2. CASE Holds(l, x)
  <2>1. PICK j \in 1 .. Len(l) : l[j] = x
    BY <1>2 DEF Holds
  <2>2. j > Len(s)
    <3> SUFFICES ASSUME j <= Len(s) PROVE FALSE
      BY <1>t
    <3>1. j \in 1 .. Len(s) /\ s[j] = x
      BY <1>t, <2>1
    <3> QED  BY <3>1 DEF OnStack
  <2>3. Len(t) = Len(l) - 1 /\ \A i \in 1 .. j - 1 : t[i] = l[i]
    BY <2>1, WithoutIs
  <2> HIDE DEF t, s
  <2>4. ASSUME NEW i \in 1 .. Len(t), i <= Len(s) PROVE t[i] = s[i]
    <3>1. i \in 1 .. j - 1 /\ i \in 1 .. Len(l)
      BY <1>t, <2>2, <2>3, <2>4
    <3> QED  BY <1>t, <2>3, <2>4, <3>1
  <2>5. Len(s) <= Len(t)
    BY <1>t, <2>2, <2>3
  <2>6. Follows(t, s, C)
    BY <2>4, <2>5 DEF Follows
  <2> QED  BY <2>6 DEF t, s
<1> QED  BY <1>1, <1>2

-----------------------------------------------------------------------------
(* What a simulator counts of an access, and what the cache makes of it. *)

CountOf(c, C) == SumOf(c.count, Beyond(C))

LEMMA AccessSimMoves ==
  ASSUME NEW c, Consistent(c), NEW x \in Block, NEW C \in Capacities
  PROVE  LET r == AccessSim(c, x)
         IN  /\ CountOf(c, C) \in Nat
             /\ ~OnStack(c, x) => /\ Pushed(c.stack, r.stack, x, Len(c.stack))
                                  /\ CountOf(r, C) = CountOf(c, C) + 1
             /\ \A j \in 1 .. Len(c.stack) : c.stack[j] = x =>
                  /\ InFront(c.stack, r.stack, j)
                  /\ CountOf(r, C) = IF C <= j - 1 THEN CountOf(c, C) + 1 ELSE CountOf(c, C)
<1> DEFINE r == AccessSim(c, x)
           e == IF x \in SeenOf(c) THEN SeenBucket(c, x) ELSE InfBucket
<1>t. /\ c.count \in [Bucket -> Nat] /\ InfBucket \in Nat \ {0} /\ InfBucket \in Bucket
      /\ x \in SeenOf(c) <=> OnStack(c, x)
      /\ InfBucket \in Beyond(C)
  <2>1. c.count \in [Bucket -> Nat]
    BY DEF Consistent, CacheSimState
  <2>2. InfBucket \in Nat \ {0} /\ InfBucket \in Bucket /\ InfBucket \in Beyond(C)
    BY MinDistAssumption DEF Bucket, Beyond
  <2>3. x \in SeenOf(c) <=> OnStack(c, x)
    BY DEF SeenOf, OnStack
  <2> QED  BY <2>1, <2>2, <2>3
<1>1. r.count = [c.count EXCEPT ![e] = @ + 1]
  BY AccessCounts
<1>2. CASE ~OnStack(c, x)
  <2> DEFINE q == OnBlockNew(c, x)
  <2>1. /\ Consistent(q) /\ Len(q.stack) = Len(c.stack) + 1 /\ q.stack[1] = x
        /\ \A i \in 1 .. Len(c.stack) : q.stack[i + 1] = c.stack[i]
    BY <1>2, OnBlockNewConsistent
  <2>2. r = IncrAccess(q, InfBucket)
    BY <1>2 DEF AccessSim
  <2>3. e = InfBucket
    BY <1>2, <1>t
  <2> HIDE DEF q, r, e
  <2>4. r.stack = q.stack
    BY <1>t, <2>1, <2>2, IncrAccessConsistent
  <2>5. Pushed(c.stack, r.stack, x, Len(c.stack))
    BY <2>1, <2>4 DEF Pushed
  <2>6. CountOf(c, C) \in Nat /\ CountOf(r, C) = CountOf(c, C) + 1
    BY <1>t, <1>1, <2>3, CountedSum DEF CountOf
  <2>7. ~\E j \in 1 .. Len(c.stack) : c.stack[j] = x
    BY <1>2 DEF OnStack
  <2> QED  BY <1>2, <2>5, <2>6, <2>7 DEF r
<1>3. ASSUME NEW j \in 1 .. Len(c.stack), c.stack[j] = x
      PROVE  /\ OnStack(c, x) /\ CountOf(c, C) \in Nat
             /\ InFront(c.stack, r.stack, j)
             /\ CountOf(r, C) = IF C <= j - 1 THEN CountOf(c, C) + 1 ELSE CountOf(c, C)
  <2>0. OnStack(c, x)
    BY <1>3 DEF OnStack
  <2> DEFINE q == OnBlockSeen(c, x)
             b == SeenBucket(c, x)
  <2>1. Consistent(q) /\ InFront(c.stack, q.stack, j)
    BY <1>3, OnBlockSeenConsistent
  <2>2. r = IncrAccess(q, b)
    BY <2>0 DEF AccessSim
  <2>3. e = b
    BY <2>0, <1>t
  <2>4. /\ b \in 0 .. InfBucket - 1 /\ MinDist[b] <= j - 1
        /\ \A k \in 0 .. InfBucket - 1 : MinDist[k] <= j - 1 => k <= b
    BY <1>3, SeenBucketHoldsDistance
  <2> HIDE DEF q, r, e, b
  <2>5. b \in Bucket
    BY <1>t, <2>4 DEF Bucket
  <2>6. r.stack = q.stack
    BY <2>1, <2>2, <2>5, IncrAccessConsistent
  <2>7. b \in Beyond(C) <=> C <= j - 1
    <3>1. j - 1 \in Nat
      OBVIOUS
    <3> QED  BY <2>4, <3>1, BeyondIs
  <2>8. /\ CountOf(c, C) \in Nat
        /\ CountOf(r, C) = IF b \in Beyond(C) THEN CountOf(c, C) + 1 ELSE CountOf(c, C)
    BY <1>t, <1>1, <2>3, <2>5, CountedSum DEF CountOf
  <2> QED  BY <2>0, <2>1, <2>6, <2>7, <2>8
<1>4. OnStack(c, x) => \E j \in 1 .. Len(c.stack) : c.stack[j] = x
  BY DEF OnStack
<1> QED  BY <1>2, <1>3, <1>4

\* A cache of C blocks that had m misses, of which b before the simulator c was
\* added.
Tracks(l, m, c, b, C) ==
  /\ Follows(l, c.stack, C)
  /\ CountOf(c, C) <= m
  /\ CountOf(c, C) + Len(l) <= m + Len(c.stack)
  /\ m <= CountOf(c, C) + b

\* An access that both are told of.
LEMMA TouchTracks ==
  ASSUME NEW C \in Capacities, NEW l, Lines(l, C), NEW c, Consistent(c), NEW x \in Block,
         NEW m \in Nat, NEW b \in Nat, Tracks(l, m, c, b, C)
  PROVE  Tracks(Touched(l, C, x), IF Holds(l, x) THEN m ELSE m + 1, AccessSim(c, x), b, C)
<1> DEFINE t == Touched(l, C, x)
           r == AccessSim(c, x)
           s == c.stack
           M == CountOf(c, C)
           M1 == CountOf(r, C)
           n == IF Len(l) < C THEN Len(l) ELSE C - 1
<1>t. /\ l \in Seq(Block) /\ s \in Seq(Block) /\ C \in Nat \ {0}
      /\ Len(l) \in Nat /\ Len(s) \in Nat /\ Len(l) <= C
      /\ \A i, j \in 1 .. Len(l) : l[i] = l[j] => i = j
  <2>1. l \in Seq(Block) /\ s \in Seq(Block) /\ Len(l) <= C
    BY DEF Lines, Consistent, CacheSimState
  <2> QED  BY <2>1, LenProperties, CapacityPositive DEF Lines, Distinct
<1>1. /\ Follows(l, s, C)
      /\ M <= m /\ M + Len(l) <= m + Len(s) /\ m <= M + b
      /\ \A i \in 1 .. Len(l) : i <= Len(s) => l[i] = s[i]
      /\ Len(l) < C => Len(s) <= Len(l)
  BY DEF Tracks, Follows
<1>2. /\ M \in Nat
      /\ ~OnStack(c, x) => Pushed(s, r.stack, x, Len(s)) /\ M1 = M + 1
      /\ \A j \in 1 .. Len(s) : s[j] = x =>
           /\ InFront(s, r.stack, j)
           /\ M1 = IF C <= j - 1 THEN M + 1 ELSE M
  BY AccessSimMoves
<1>3. /\ ~Holds(l, x) => Pushed(l, t, x, n)
      /\ \A j \in 1 .. Len(l) : l[j] = x => InFront(l, t, j)
  BY <1>t, TouchedIs
<1>4. /\ OnStack(c, x) <=> \E j \in 1 .. Len(s) : s[j] = x
      /\ Holds(l, x) <=> \E j \in 1 .. Len(l) : l[j] = x
  BY DEF OnStack, Holds
<1> HIDE DEF t, r, s, M, M1
<1>5. ASSUME NEW j \in 1 .. Len(l), l[j] = x, j <= Len(s)
      PROVE  Tracks(t, m, r, b, C)
  <2>1. j \in 1 .. Len(s) /\ s[j] = x /\ ~(C <= j - 1)
    BY <1>1, <1>5, <1>t
  <2>2. InFront(l, t, j) /\ InFront(s, r.stack, j) /\ M1 = M
    BY <1>2, <1>3, <1>5, <2>1
  <2>3. Follows(t, r.stack, C)
    BY <1>1, <1>5, <1>t, <2>2, FollowsMoved
  <2>4. Len(t) = Len(l) /\ Len(r.stack) = Len(s)
    BY <2>2 DEF InFront
  <2> QED  BY <1>1, <2>2, <2>3, <2>4 DEF Tracks, M1
<1>6. ASSUME NEW j \in 1 .. Len(l), l[j] = x, j > Len(s)
      PROVE  Tracks(t, m, r, b, C)
  <2>1. ~OnStack(c, x)
    <3> SUFFICES ASSUME NEW i \in 1 .. Len(s), s[i] = x PROVE FALSE
      BY <1>4
    <3>1. i \in 1 .. Len(l) /\ i # j /\ l[i] = x
      BY <1>1, <1>6, <1>t
    <3> QED  BY <1>6, <1>t, <3>1
  <2>2. InFront(l, t, j) /\ Pushed(s, r.stack, l[j], Len(s)) /\ M1 = M + 1
    BY <1>2, <1>3, <1>6, <2>1
  <2>3. Follows(t, r.stack, C)
    BY <1>1, <1>6, <1>t, <2>2, FollowsEarlier
  <2>4. Len(t) = Len(l) /\ Len(r.stack) = Len(s) + 1
    BY <2>2 DEF InFront, Pushed
  <2>5. M1 <= m /\ M1 + Len(t) <= m + Len(r.stack) /\ m <= M1 + b
    BY <1>1, <1>2, <1>6, <1>t, <2>2, <2>4
  <2> QED  BY <2>3, <2>5 DEF Tracks, M1
<1>7. ASSUME ~Holds(l, x), NEW j \in 1 .. Len(s), s[j] = x
      PROVE  Tracks(t, m + 1, r, b, C)
  <2>1. j > Len(l)
    <3> SUFFICES ASSUME j <= Len(l) PROVE FALSE
      BY <1>t
    <3>1. j \in 1 .. Len(l) /\ j <= Len(s)
      BY <1>t
    <3> QED  BY <1>1, <1>4, <1>7, <3>1
  <2>2. Len(l) = C /\ C <= j - 1 /\ n = C - 1
    BY <1>1, <1>t, <2>1
  <2>3. Pushed(l, t, x, C - 1) /\ InFront(s, r.stack, j) /\ M1 = M + 1
    BY <1>2, <1>3, <1>7, <2>2
  <2>4. Follows(t, r.stack, C)
    BY <1>1, <1>7, <1>t, <2>1, <2>2, <2>3, FollowsEvicted
  <2>5. Len(t) = C /\ Len(r.stack) = Len(s)
    BY <1>t, <2>3 DEF InFront, Pushed
  <2>6. M1 <= m + 1 /\ M1 + Len(t) <= m + 1 + Len(r.stack) /\ m + 1 <= M1 + b
    BY <1>1, <1>2, <1>t, <2>2, <2>3, <2>5
  <2> QED  BY <2>4, <2>6 DEF Tracks, M1
<1>8. ASSUME ~Holds(l, x), ~OnStack(c, x)
      PROVE  Tracks(t, m + 1, r, b, C)
  <2>1. Pushed(l, t, x, n) /\ Pushed(s, r.stack, x, Len(s)) /\ M1 = M + 1
    BY <1>2, <1>3, <1>8
  <2>2. Follows(t, r.stack, C)
    BY <1>1, <1>t, <2>1, FollowsNew
  <2>3. Len(t) = n + 1 /\ Len(r.stack) = Len(s) + 1
    BY <2>1 DEF Pushed
  <2>4. M1 <= m + 1 /\ M1 + Len(t) <= m + 1 + Len(r.stack) /\ m + 1 <= M1 + b
    <3>1. n \in Nat /\ n <= Len(l)
      BY <1>t
    <3> HIDE DEF n
    <3> QED  BY <1>1, <1>2, <1>t, <2>1, <2>3, <3>1
  <2> QED  BY <2>2, <2>4 DEF Tracks, M1
<1>9. CASE Holds(l, x)
  <2>1. PICK j \in 1 .. Len(l) : l[j] = x
    BY <1>4, <1>9
  <2>2. Tracks(t, m, r, b, C)
    BY <1>5, <1>6, <1>t, <2>1
  <2> QED  BY <1>9, <2>2 DEF t, r
<1>10. CASE ~Holds(l, x)
  <2>1. Tracks(t, m + 1, r, b, C)
    BY <1>4, <1>7, <1>8, <1>10
  <2> QED  BY <1>10, <2>1 DEF t, r
<1> QED  BY <1>9, <1>10

\* An access to the other partition.
LEMMA WithoutTracks ==
  ASSUME NEW C \in Capacities, NEW l, Lines(l, C), NEW c, Consistent(c), NEW x, ~OnStack(c, x),
         NEW m \in Nat, NEW b \in Nat, Tracks(l, m, c, b, C), CountOf(c, C) \in Nat
  PROVE  Tracks(Without(l, x), m, c, b, C)
<1> DEFINE t == Without(l, x)
<1>1. C \in Nat /\ l \in Seq(Block) /\ c.stack \in Seq(Block)
  BY CapacityPositive DEF Lines, Consistent, CacheSimState
<1>2. Follows(t, c.stack, C)
  BY <1>1, FollowsWithout DEF Tracks
<1>3. t \in Seq(Block) /\ Len(t) <= Len(l)
  BY <1>1, WithoutIs DEF Lines
<1> HIDE DEF t
<1>4. Len(t) \in Nat /\ Len(l) \in Nat /\ Len(c.stack) \in Nat
  BY <1>1, <1>3, LenProperties
<1>5. Tracks(t, m, c, b, C)
  BY <1>2, <1>3, <1>4 DEF Tracks
<1> QED  BY <1>5 DEF t

-----------------------------------------------------------------------------
(***************************************************************************)
(* The invariant: that of Profiler, and what the target's caches have to   *)
(* do with the simulators.                                                 *)
(***************************************************************************)
Table == [Isolations -> [0 .. 1 -> [Capacities -> Nat]]]

LruShape ==
  /\ misses \in Table
  /\ \A S \in Isolations, p \in 0 .. 1, C \in Capacities :
       /\ Lines(lru[S][p][C], C)
       /\ Len(lru[S][p][C]) <= misses[S][p][C]
  /\ \A C \in Capacities : misses[{}][0][C] = 0

\* The block accessed last is the newest line of its partition.
Newest(S, C) ==
  LET l == lru[S][LruPartition(S, last.owner)][C]
  IN  /\ Len(l) > 0 /\ l[1] = last.block
      /\ \A p \in 0 .. 1 : p # LruPartition(S, last.owner) => ~Holds(lru[S][p][C], last.block)

LastInv == last.block # NoBlock => \A S \in Isolations, C \in Capacities : Newest(S, C)

BeforeShape ==
  /\ \A k \in Caches : before[k] \in [0 .. 1 -> [Capacities -> Nat]]
  /\ \A p \in 0 .. 1, C \in Capacities : before[1][p][C] = 0

Sound(k) == k \in Caches /\ k \notin corrupt /\ k \notin misplaced

Tracked(k) ==
  LET S == cachesims[k].ds_nums
  IN  \A p \in 0 .. 1, C \in Capacities :
        Tracks(lru[S][p][C], misses[S][p][C], cachesims[k].partition[p], before[k][p][C], C)

CachesTracked == \A k \in Caches : Sound(k) => Tracked(k)

TargetInv ==
  /\ IInv /\ Simulated /\ Len(datastructs) <= MaxObjects + 1
  /\ LruShape /\ LastInv /\ BeforeShape /\ CachesTracked

RecInv ==
  /\ TargetInv
  /\ \A level \in Level :
       recommendation[level] = IF phase = "analysed" THEN Recommended(level) ELSE None

\* The target has caches for every simulator.
LEMMA WantedSmall ==
  ASSUME NEW ds, Len(ds) \in Nat, Len(ds) <= MaxObjects + 1
  PROVE  Wanted(ds) \subseteq Isolations
<1>1. 1 .. Len(ds) - 1 \subseteq 1 .. MaxObjects
  BY LimitAssumption
<1>2. LargeOnes(ds) \subseteq 1 .. Len(ds) - 1
  BY DEF LargeOnes
<1>3. {} \in Isolations
  BY FS_EmptySet DEF Isolations
<1>4. ASSUME NEW k \in 1 .. MaxObjects PROVE {k} \in Isolations
  <2>1. Cardinality({k}) = 1
    BY FS_Singleton
  <2>2. Cardinality({k}) <= 2
    BY <2>1
  <2> QED  BY <2>2 DEF Isolations
<1>5. ASSUME NEW j \in 1 .. MaxObjects, NEW k \in 1 .. MaxObjects PROVE {j, k} \in Isolations
  <2>1. CASE j = k
    <3>1. {j, k} = {k}
      BY <2>1
    <3> QED  BY <1>4, <3>1
  <2>2. CASE j # k
    <3>1. {j, k} = {k} \cup {j} /\ j \notin {k}
      BY <2>2
    <3>2. IsFiniteSet({k}) /\ Cardinality({k}) = 1
      BY FS_Singleton
    <3>3. Cardinality({k} \cup {j}) = Cardinality({k}) + 1
      BY <3>1, <3>2, FS_AddElement
    <3>4. Cardinality({k} \cup {j}) = 2
      BY <3>2, <3>3
    <3>5. Cardinality({j, k}) = 2
      BY <3>1, <3>4
    <3>6. Cardinality({j, k}) <= 2
      BY <3>5
    <3> QED  BY <3>6 DEF Isolations
  <2> QED  BY <2>1, <2>2
<1> SUFFICES ASSUME NEW s \in Wanted(ds) PROVE s \in Isolations
  OBVIOUS
<1>6. \/ s = {} \/ \E k \in 1 .. Len(ds) - 1 : s = {k}
      \/ \E j, k \in LargeOnes(ds) : s = {j, k}
  BY WantedIs
<1>7. CASE s = {}
  BY <1>3, <1>7
<1>8. ASSUME NEW k \in 1 .. Len(ds) - 1, s = {k} PROVE s \in Isolations
  BY <1>1, <1>4, <1>8
<1>9. ASSUME NEW j \in LargeOnes(ds), NEW k \in LargeOnes(ds), s = {j, k} PROVE s \in Isolations
  <2>1. j \in 1 .. MaxObjects /\ k \in 1 .. MaxObjects
    BY <1>1, <1>2
  <2> QED  BY <1>5, <1>9, <2>1
<1> QED  BY <1>6, <1>7, <1>8, <1>9

LEMMA IsolationKnown ==
  ASSUME IInv, Simulated, Len(datastructs) <= MaxObjects + 1
  PROVE  /\ \A k \in Caches : cachesims[k].ds_nums \in Isolations
         /\ {} \in Isolations
<1>1. Len(datastructs) \in Nat /\ 1 \in Caches
  <2>1. datastructs \in Seq(Object) /\ cachesims \in Seq(Cache) /\ Len(cachesims) > 0
    BY DEF IInv, ObjectsInv, ObjectsShape, MapInv, CachesShape
  <2> QED  BY <2>1, LenProperties DEF Caches
<1>2. \A k \in Caches : cachesims[k].ds_nums \in Isolations
  BY <1>1, WantedSmall DEF Simulated
<1>3. {} \in Isolations
  BY <1>1, <1>2 DEF Simulated
<1> QED  BY <1>2, <1>3

LEMMA NewCount == \A C : CountOf(NewCacheSim, C) = 0 /\ Len(NewCacheSim.stack) = 0
<1> SUFFICES ASSUME NEW C PROVE CountOf(NewCacheSim, C) = 0 /\ Len(NewCacheSim.stack) = 0
  OBVIOUS
<1>1. NewCacheSim.count = [b \in Bucket |-> 0] /\ NewCacheSim.stack = << >>
  BY DEF NewCacheSim
<1>2. \A b \in Beyond(C) : [a \in Bucket |-> 0][b] = 0
  BY BeyondType
<1>3. SumOf([a \in Bucket |-> 0], Beyond(C)) = 0
  BY <1>2, BeyondType, SumZero
<1> QED  BY <1>1, <1>3 DEF CountOf

\* A simulator that has just been added.
LEMMA NewTracks ==
  ASSUME NEW C \in Capacities, NEW l, Lines(l, C), NEW m \in Nat, Len(l) <= m
  PROVE  Tracks(l, m, NewCacheSim, m, C)
<1>1. Len(l) \in Nat
  BY LenProperties DEF Lines
<1>2. CountOf(NewCacheSim, C) = 0 /\ Len(NewCacheSim.stack) = 0
  BY NewCount
<1>3. Follows(l, NewCacheSim.stack, C)
  BY <1>1, <1>2 DEF Follows
<1> QED  BY <1>1, <1>2, <1>3 DEF Tracks

LEMMA InitTarget == RecInit => RecInv
<1> SUFFICES ASSUME RecInit PROVE RecInv
  OBVIOUS
<1>1. Init /\ IInv /\ Simulated
  BY InitIInv, InitSimulated DEF RecInit
<1>2. Len(datastructs) <= MaxObjects + 1
  <2>1. datastructs = << NewDatastruct(0, 0) >>
    BY <1>1 DEF Init
  <2> QED  BY <2>1, LimitAssumption
<1>3. {} \in Isolations
  BY <1>1, <1>2, IsolationKnown
<1>4. \A S \in Isolations, p \in 0 .. 1, C \in Capacities : lru[S][p][C] = << >> /\ misses[S][p][C] = 0
  BY DEF RecInit
<1>5. LruShape
  <2>1. misses \in Table
    BY DEF RecInit, Table
  <2>2. \A C \in Capacities : Lines(<< >>, C)
    <3>1. << >> \in Seq(Block) /\ Len(<< >>) = 0
      OBVIOUS
    <3> QED  BY <3>1, CapacityPositive DEF Lines, Distinct
  <2>3. Len(<< >>) = 0
    OBVIOUS
  <2> QED  BY <1>3, <1>4, <2>1, <2>2, <2>3 DEF LruShape
<1>6. Caches = {1} /\ cachesims[1].ds_nums = {} /\ \A p \in 0 .. 1 : cachesims[1].partition[p] = NewCacheSim
  <2>1. /\ 1 \in Caches
        /\ \A i \in Caches : /\ cachesims[i].ds_nums = {}
                             /\ \A p \in 0 .. 1 : cachesims[i].partition[p] = NewCacheSim
    BY <1>1, InitialCaches DEF Caches
  <2>2. ASSUME NEW i \in Caches PROVE i = 1
    <3>1. \A j, k \in Caches : cachesims[j].ds_nums = cachesims[k].ds_nums => j = k
      BY <1>1 DEF Simulated
    <3>2. cachesims[i].ds_nums = cachesims[1].ds_nums
      BY <2>1
    <3> QED  BY <2>1, <3>1, <3>2
  <2> QED  BY <2>1, <2>2
<1>7. before[1] = misses[{}]
  BY DEF RecInit
<1>8. BeforeShape
  <2>1. misses[{}] \in [0 .. 1 -> [Capacities -> Nat]]
    BY <1>3, <1>5 DEF LruShape, Table
  <2> QED  BY <1>3, <1>4, <1>6, <1>7, <2>1 DEF BeforeShape
<1>9. CachesTracked
  <2>1. ASSUME NEW p \in 0 .. 1, NEW C \in Capacities
        PROVE  Tracks(lru[{}][p][C], misses[{}][p][C], NewCacheSim, misses[{}][p][C], C)
    <3>1. /\ Lines(lru[{}][p][C], C) /\ misses[{}][p][C] \in Nat
          /\ Len(lru[{}][p][C]) <= misses[{}][p][C]
      BY <1>3, <1>5 DEF LruShape, Table
    <3> QED  BY <3>1, NewTracks
  <2>2. Tracked(1)
    BY <1>6, <1>7, <2>1 DEF Tracked
  <2> QED  BY <1>6, <2>2 DEF CachesTracked
<1>10. LastInv
  BY DEF RecInit, LastInv
<1>11. \A level \in Level : recommendation[level] = None /\ phase # "analysed"
  BY DEF RecInit
<1> QED  BY <1>1, <1>2, <1>5, <1>8, <1>9, <1>10, <1>11 DEF RecInv, TargetInv

-----------------------------------------------------------------------------
(* An access of the target keeps the shape of its caches. *)

LEMMA LruPartitionType == \A S, k : LruPartition(S, k) \in 0 .. 1
BY DEF LruPartition

LEMMA TouchEntry ==
  ASSUME NEW t, NEW x, Touch(t, x), NEW S \in Isolations, NEW p \in 0 .. 1, NEW C \in Capacities
  PROVE  LET q == LruPartition(S, Owner(x))
             l == lru[S][p][C]
         IN  /\ lru'[S][p][C] = IF p = q THEN Touched(l, C, x) ELSE Without(l, x)
             /\ misses'[S][p][C] = IF p = q /\ ~Holds(l, x) THEN misses[S][p][C] + 1
                                                          ELSE misses[S][p][C]
BY DEF Touch

LEMMA TouchKeepsShape ==
  ASSUME LruShape, {} \in Isolations, NEW t, NEW x \in Block, Touch(t, x)
  PROVE  LruShape' /\ LastInv'
<1>1. misses' \in Table
  <2> DEFINE f(S, p, C) == IF p = LruPartition(S, Owner(x)) /\ ~Holds(lru[S][p][C], x)
                           THEN misses[S][p][C] + 1 ELSE misses[S][p][C]
  <2>1. misses' = [S \in Isolations |-> [p \in 0 .. 1 |-> [C \in Capacities |-> f(S, p, C)]]]
    BY DEF Touch
  <2>2. \A S \in Isolations, p \in 0 .. 1, C \in Capacities : f(S, p, C) \in Nat
    BY DEF LruShape, Table
  <2> HIDE DEF f
  <2> QED  BY <2>1, <2>2 DEF Table
<1>2. ASSUME NEW S \in Isolations, NEW p \in 0 .. 1, NEW C \in Capacities
      PROVE  /\ Lines(lru'[S][p][C], C)
             /\ Len(lru'[S][p][C]) <= misses'[S][p][C]
  <2> DEFINE l == lru[S][p][C]
             m == misses[S][p][C]
             q == LruPartition(S, Owner(x))
  <2>1. /\ Lines(l, C) /\ Len(l) <= m /\ m \in Nat /\ C \in Nat \ {0} /\ Len(l) \in Nat
    <3>1. Lines(l, C) /\ Len(l) <= m /\ m \in Nat /\ C \in Nat \ {0}
      BY CapacityPositive DEF LruShape, Table
    <3> QED  BY <3>1, LenProperties DEF Lines
  <2>2. /\ lru'[S][p][C] = IF p = q THEN Touched(l, C, x) ELSE Without(l, x)
        /\ misses'[S][p][C] = IF p = q /\ ~Holds(l, x) THEN m + 1 ELSE m
    BY TouchEntry
  <2> HIDE DEF l, m, q
  <2>3. CASE p = q
    <3>1. /\ Lines(Touched(l, C, x), C) /\ Len(Touched(l, C, x)) \in Nat \ {0}
          /\ Len(Touched(l, C, x)) <= IF Holds(l, x) THEN Len(l) ELSE Len(l) + 1
      BY <2>1, TouchedLines
    <3>2. CASE Holds(l, x)
      BY <2>1, <2>2, <2>3, <3>1, <3>2
    <3>3. CASE ~Holds(l, x)
      BY <2>1, <2>2, <2>3, <3>1, <3>3
    <3> QED  BY <3>2, <3>3
  <2>4. CASE p # q
    <3>1. Lines(Without(l, x), C) /\ Len(Without(l, x)) <= Len(l)
      BY <2>1, WithoutIs
    <3>2. Len(Without(l, x)) \in Nat
      BY <3>1, LenProperties DEF Lines
    <3> QED  BY <2>1, <2>2, <2>4, <3>1, <3>2
  <2> QED  BY <2>3, <2>4
<1>3. \A C \in Capacities : misses'[{}][0][C] = 0
  <2> SUFFICES ASSUME NEW C \in Capacities PROVE misses'[{}][0][C] = 0
    OBVIOUS
  <2>1. LruPartition({}, Owner(x)) = 1
    BY DEF LruPartition
  <2>2. misses'[{}][0][C] = misses[{}][0][C]
    BY <2>1, TouchEntry
  <2> QED  BY <2>2 DEF LruShape
<1>4. last' = [block |-> x, owner |-> Owner(x)]
  BY DEF Touch
<1>5. ASSUME NEW S \in Isolations, NEW C \in Capacities PROVE Newest(S, C)'
  <2> DEFINE q == LruPartition(S, Owner(x))
  <2>1. q \in 0 .. 1 /\ C \in Nat \ {0}
    BY LruPartitionType, CapacityPositive
  <2>2. last'.block = x /\ LruPartition(S, last'.owner) = q
    BY <1>4
  <2> HIDE DEF q
  <2>3. Len(lru'[S][q][C]) > 0 /\ lru'[S][q][C][1] = x
    <3>1. lru'[S][q][C] = Touched(lru[S][q][C], C, x)
      BY <2>1, TouchEntry DEF q
    <3>2. Lines(lru[S][q][C], C)
      BY <2>1 DEF LruShape
    <3>3. Len(Touched(lru[S][q][C], C, x)) \in Nat \ {0} /\ Touched(lru[S][q][C], C, x)[1] = x
      BY <2>1, <3>2, TouchedLines
    <3> QED  BY <3>1, <3>3
  <2>4. ASSUME NEW p \in 0 .. 1, p # q PROVE ~Holds(lru'[S][p][C], x)
    <3>1. lru'[S][p][C] = Without(lru[S][p][C], x)
      BY <2>4, TouchEntry DEF q
    <3>2. Lines(lru[S][p][C], C)
      BY DEF LruShape
    <3> QED  BY <2>1, <3>1, <3>2, WithoutIs
  <2> QED  BY <2>2, <2>3, <2>4 DEF Newest
<1> QED  BY <1>1, <1>2, <1>3, <1>5 DEF LruShape, LastInv

-----------------------------------------------------------------------------
(***************************************************************************)
(* The simulators follow the target's caches.                              *)
(***************************************************************************)
\* An access that is looked at, in a cache that simulates it where it belongs.
LEMMA LookedTracked ==
  ASSUME TargetInv, NEW t \in Thread, NEW x \in Block, Accessed(x), addr_prev[t] # x,
         UNCHANGED datastructs, Touch(t, x), NEW k \in Caches, k \notin corrupt', k \notin misplaced'
  PROVE  Tracked(k)'
<1> DEFINE S == cachesims[k].ds_nums
           q == addrMap'[x].iterators[k]
<1>1. k \notin misplaced /\ q = LruPartition(S, Owner(x))
  <2>1. k \notin misplaced /\ k \notin Misplacing(t, x)
    BY DEF Touch
  <2> QED  BY <2>1 DEF Misplacing, Caches
<1>2. k \notin corrupt /\ AccessedIn(cachesims[k], cachesims'[k], q, x)
  BY DEF Accessed
<1>3. Tracked(k) /\ S \in Isolations /\ q \in 0 .. 1
  BY <1>1, <1>2, IsolationKnown, LruPartitionType DEF TargetInv, CachesTracked, Sound
<1>4. cachesims'[k].ds_nums = S /\ before' = before
  BY <1>2 DEF AccessedIn, Touch
<1>5. \A p \in 0 .. 1 : Consistent(cachesims[k].partition[p])
  BY <1>2, SoundCache DEF TargetInv, IInv, MapInv
<1>6. IteratorsAligned' /\ k \in Caches'
  <2>1. IteratorsAligned'
    BY AccessedKeepsCaches DEF TargetInv, IInv
  <2>2. Len(cachesims') = Len(cachesims)
    BY DEF Accessed
  <2> QED  BY <2>1, <2>2 DEF Caches
<1> HIDE DEF S, q
<1>7. ASSUME NEW p \in 0 .. 1, NEW C \in Capacities
      PROVE  Tracks(lru'[S][p][C], misses'[S][p][C], cachesims'[k].partition[p], before[k][p][C], C)
  <2> DEFINE l == lru[S][p][C]
             m == misses[S][p][C]
             c == cachesims[k].partition[p]
             b == before[k][p][C]
  <2>1. Tracks(l, m, c, b, C) /\ Lines(l, C) /\ m \in Nat /\ b \in Nat /\ Consistent(c)
    <3>1. Tracks(l, m, c, b, C)
      BY <1>3 DEF Tracked, S
    <3>2. Lines(l, C) /\ m \in Nat
      BY <1>3 DEF TargetInv, LruShape, Table
    <3>3. b \in Nat
      BY DEF TargetInv, BeforeShape
    <3> QED  BY <3>1, <3>2, <3>3, <1>5
  <2>2. /\ lru'[S][p][C] = IF p = q THEN Touched(l, C, x) ELSE Without(l, x)
        /\ misses'[S][p][C] = IF p = q /\ ~Holds(l, x) THEN m + 1 ELSE m
    BY <1>1, <1>3, TouchEntry
  <2>3. cachesims'[k].partition[p] = IF p = q THEN AccessSim(c, x) ELSE c
    BY <1>2 DEF AccessedIn
  <2>4. ASSUME p # q PROVE ~OnStack(c, x)
    <3>1. OnStack(cachesims'[k].partition[p], x) => addrMap'[x].iterators[k] = p
      BY <1>6 DEF IteratorsAligned
    <3> QED  BY <2>3, <2>4, <3>1 DEF q
  <2> HIDE DEF l, m, c, b
  <2>5. CASE p = q
    <3>1. Tracks(Touched(l, C, x), IF Holds(l, x) THEN m ELSE m + 1, AccessSim(c, x), b, C)
      BY <2>1, TouchTracks
    <3>2. misses'[S][p][C] = IF Holds(l, x) THEN m ELSE m + 1
      BY <2>2, <2>5
    <3> QED  BY <2>2, <2>3, <2>5, <3>1, <3>2 DEF b
  <2>6. CASE p # q
    <3>1. CountOf(c, C) \in Nat
      BY <2>1, AccessSimMoves
    <3>2. Tracks(Without(l, x), m, c, b, C)
      BY <2>1, <2>4, <2>6, <3>1, WithoutTracks
    <3> QED  BY <2>2, <2>3, <2>6, <3>2 DEF b
  <2> QED  BY <2>5, <2>6
<1> QED  BY <1>4, <1>7 DEF Tracked

\* An access that is not looked at: the block is the newest line already.
LEMMA SkippedTracked ==
  ASSUME TargetInv, NEW t \in Thread, NEW x \in Block, addr_prev[t] = x,
         UNCHANGED << datastructs, cachesims, corrupt >>, Touch(t, x),
         NEW k \in Caches, k \notin corrupt', k \notin misplaced'
  PROVE  Tracked(k)'
<1> DEFINE S == cachesims[k].ds_nums
           q == LruPartition(S, Owner(x))
<1>1. k \notin misplaced /\ x = last.block /\ LruPartition(S, last.owner) = q
  <2>1. k \notin misplaced /\ k \notin Misplacing(t, x)
    BY DEF Touch
  <2> QED  BY <2>1 DEF Misplacing, Caches
<1>2. Tracked(k) /\ S \in Isolations /\ q \in 0 .. 1
  BY <1>1, IsolationKnown, LruPartitionType DEF TargetInv, CachesTracked, Sound
<1>3. before' = before
  BY DEF Touch
<1>4. last.block # NoBlock
  BY <1>1, BlockAssumption
<1> HIDE DEF S
<1>5. ASSUME NEW p \in 0 .. 1, NEW C \in Capacities
      PROVE  lru'[S][p][C] = lru[S][p][C] /\ misses'[S][p][C] = misses[S][p][C]
  <2> DEFINE l == lru[S][p][C]
  <2>1. Lines(l, C) /\ C \in Nat \ {0} /\ misses[S][p][C] \in Nat
    BY <1>2, CapacityPositive DEF TargetInv, LruShape, Table
  <2>2. /\ lru'[S][p][C] = IF p = q THEN Touched(l, C, x) ELSE Without(l, x)
        /\ misses'[S][p][C] = IF p = q /\ ~Holds(l, x) THEN misses[S][p][C] + 1 ELSE misses[S][p][C]
    BY <1>2, TouchEntry
  <2>3. Newest(S, C)
    BY <1>2, <1>4 DEF TargetInv, LastInv
  <2> HIDE DEF q
  <2>4. CASE p = q
    <3>1. Len(l) > 0 /\ l[1] = x
      BY <1>1, <2>3, <2>4 DEF Newest
    <3> HIDE DEF l
    <3>2. Holds(l, x) /\ Touched(l, C, x) = l
      BY <2>1, <3>1, TouchedNewest
    <3> QED  BY <2>2, <2>4, <3>2 DEF l
  <2>5. CASE p # q
    <3>1. ~Holds(l, x)
      BY <1>1, <2>3, <2>5 DEF Newest
    <3> HIDE DEF l
    <3>2. Without(l, x) = l
      BY <2>1, <3>1, WithoutIs
    <3> QED  BY <2>2, <2>5, <3>2 DEF l
  <2> QED  BY <2>4, <2>5
<1>6. cachesims'[k] = cachesims[k]
  OBVIOUS
<1> QED  BY <1>2, <1>3, <1>5, <1>6 DEF Tracked, S

LEMMA AccessTarget ==
  ASSUME TargetInv, IInv', Simulated', NEW t \in Thread, NEW x \in Block, AccessBlock(t, x),
         UNCHANGED datastructs, Touch(t, x)
  PROVE  TargetInv'
<1>1. LruShape' /\ LastInv'
  BY IsolationKnown, TouchKeepsShape DEF TargetInv
<1>2. \/ addr_prev[t] = x /\ UNCHANGED << cachesims, corrupt >>
      \/ addr_prev[t] # x /\ Accessed(x)
  <2>1. CASE addr_prev[t] = x
    BY <2>1 DEF AccessBlock
  <2>2. CASE addr_prev[t] # x
    BY <2>2, AccessBlockAccesses DEF TargetInv, IInv
  <2> QED  BY <2>1, <2>2
<1>3. Caches' = Caches
  <2>1. Len(cachesims') = Len(cachesims)
    BY <1>2 DEF Accessed
  <2> QED  BY <2>1 DEF Caches
<1>4. BeforeShape'
  <2>1. before' = before
    BY DEF Touch
  <2> QED  BY <1>3, <2>1 DEF TargetInv, BeforeShape
<1>5. ASSUME NEW k \in Caches, k \notin corrupt', k \notin misplaced' PROVE Tracked(k)'
  <2>1. CASE addr_prev[t] = x /\ UNCHANGED << cachesims, corrupt >>
    BY <1>5, <2>1, SkippedTracked
  <2>2. CASE addr_prev[t] # x /\ Accessed(x)
    BY <1>5, <2>2, LookedTracked
  <2> QED  BY <1>2, <2>1, <2>2
<1>6. CachesTracked'
  <2> SUFFICES ASSUME NEW k \in Caches', Sound(k)' PROVE Tracked(k)'
    BY DEF CachesTracked
  <2>1. k \notin corrupt' /\ k \notin misplaced'
    BY DEF Sound
  <2> QED  BY <1>3, <1>5, <2>1
<1> QED  BY <1>1, <1>4, <1>6 DEF TargetInv

\* A registration: the new caches are those that the target has from the start.
LEMMA HandleTarget ==
  ASSUME TargetInv, IInv', Simulated', NEW t \in Thread, NEW has_file \in BOOLEAN,
         HandleDatastruct(t, has_file), NoteCaches
  PROVE  TargetInv'
<1>1. Grown
  BY HandleDatastructGrows DEF TargetInv, IInv
<1>2. UNCHANGED << lru, misses, last, misplaced, corrupt >>
  BY <1>1 DEF NoteCaches, Grown
<1>3. Len(datastructs') \in Nat /\ Len(datastructs') <= MaxObjects + 1
  <2> DEFINE ds == NewDatastruct(call[t].alloc[1], call[t].alloc[2])
  <2>1. datastructs \in Seq(Object) /\ Len(datastructs) \in Nat /\ MaxObjects \in Nat
    BY LenProperties, LimitAssumption DEF TargetInv, IInv, ObjectsInv, ObjectsShape
  <2>2. CASE datastructs' = datastructs
    BY <2>1, <2>2 DEF TargetInv
  <2>3. CASE datastructs' = Append(datastructs, ds) /\ Len(datastructs) <= MaxObjects
    <3> HIDE DEF ds
    <3>1. Len(datastructs') = Len(datastructs) + 1
      BY <2>1, <2>3
    <3> QED  BY <2>1, <2>3, <3>1
  <2> QED  BY <2>2, <2>3 DEF HandleDatastruct
<1>4. \A k \in Caches' : cachesims'[k].ds_nums \in Isolations
  <2>1. Wanted(datastructs') \subseteq Isolations
    <3> DEFINE ds == datastructs'
    <3>1. Len(ds) \in Nat /\ Len(ds) <= MaxObjects + 1
      BY <1>3
    <3> HIDE DEF ds
    <3>2. Wanted(ds) \subseteq Isolations
      BY <3>1, WantedSmall
    <3>3. Wanted(datastructs') = Wanted(ds)
      BY DEF ds
    <3> QED  BY <3>2, <3>3
  <2>2. \A k \in Caches' : cachesims'[k].ds_nums \in Wanted(datastructs')
    BY DEF Simulated
  <2> QED  BY <2>1, <2>2
<1>5. /\ Len(cachesims) \in Nat /\ Len(cachesims') \in Nat /\ 1 \in Caches
      /\ \A k \in Caches : k \in Caches' /\ cachesims'[k] = cachesims[k]
      /\ \A k \in Caches' : k \notin Caches =>
           \A p \in 0 .. 1 : cachesims'[k].partition[p] = NewCacheSim
  <2>1. cachesims \in Seq(Cache) /\ Len(cachesims) > 0 /\ cachesims' \in Seq(Cache)
    BY <1>1 DEF TargetInv, IInv, MapInv, CachesShape, Grown
  <2>2. Len(cachesims) \in Nat /\ Len(cachesims') \in Nat
    BY <2>1, LenProperties
  <2> QED  BY <1>1, <2>1, <2>2 DEF Grown, Caches
<1>6. /\ \A k \in Caches : before'[k] = before[k]
      /\ \A k \in Caches' : k \notin Caches => before'[k] = misses[cachesims'[k].ds_nums]
  <2>1. before' = [k \in 1 .. Len(cachesims') |->
          IF k <= Len(cachesims) THEN before[k] ELSE misses[cachesims'[k].ds_nums]]
    BY DEF NoteCaches
  <2> QED  BY <1>5, <2>1 DEF Caches
<1>7. LruShape' /\ LastInv'
  BY <1>2 DEF TargetInv, LruShape, LastInv, Newest
<1>8. BeforeShape'
  <2>1. ASSUME NEW k \in Caches' PROVE before'[k] \in [0 .. 1 -> [Capacities -> Nat]]
    <3>1. CASE k \in Caches
      BY <1>6, <3>1 DEF TargetInv, BeforeShape
    <3>2. CASE k \notin Caches
      BY <1>4, <1>6, <3>2 DEF TargetInv, LruShape, Table
    <3> QED  BY <3>1, <3>2
  <2>2. \A p \in 0 .. 1, C \in Capacities : before'[1][p][C] = 0
    BY <1>5, <1>6 DEF TargetInv, BeforeShape
  <2> QED  BY <2>1, <2>2 DEF BeforeShape
<1>9. CachesTracked'
  <2> SUFFICES ASSUME NEW k \in Caches', Sound(k)' PROVE Tracked(k)'
    BY DEF CachesTracked
  <2>1. k \notin corrupt /\ k \notin misplaced
    BY <1>2 DEF Sound
  <2>2. CASE k \in Caches
    <3>1. Tracked(k) /\ cachesims'[k] = cachesims[k] /\ before'[k] = before[k]
      BY <1>5, <1>6, <2>1, <2>2 DEF TargetInv, CachesTracked, Sound
    <3> QED  BY <1>2, <3>1 DEF Tracked
  <2>3. CASE k \notin Caches
    <3> DEFINE S == cachesims'[k].ds_nums
    <3>1. S \in Isolations
      BY <1>4
    <3>2. before'[k] = misses[S] /\ \A p \in 0 .. 1 : cachesims'[k].partition[p] = NewCacheSim
      BY <1>5, <1>6, <2>3
    <3> HIDE DEF S
    <3>3. ASSUME NEW p \in 0 .. 1, NEW C \in Capacities
          PROVE  Tracks(lru'[S][p][C], misses'[S][p][C], NewCacheSim, misses[S][p][C], C)
      <4>1. /\ Lines(lru[S][p][C], C) /\ misses[S][p][C] \in Nat
            /\ Len(lru[S][p][C]) <= misses[S][p][C]
        BY <3>1 DEF TargetInv, LruShape, Table
      <4> QED  BY <1>2, <4>1, NewTracks
    <3> QED  BY <3>2, <3>3 DEF Tracked, S
  <2> QED  BY <2>2, <2>3
<1> QED  BY <1>3, <1>7, <1>8, <1>9 DEF TargetInv

\* Nothing else reaches the caches.
LEMMA IdleTarget ==
  ASSUME TargetInv, IInv', Simulated', UNCHANGED << cachesims, corrupt, lruVars >>,
         Len(datastructs') = Len(datastructs)
  PROVE  TargetInv'
<1>1. UNCHANGED << cachesims, corrupt, lru, misses, before, last, misplaced >> /\ Caches' = Caches
  BY DEF lruVars, Caches
<1>2. LruShape' /\ LastInv' /\ BeforeShape'
  BY <1>1 DEF TargetInv, LruShape, LastInv, Newest, BeforeShape
<1>3. CachesTracked'
  BY <1>1 DEF TargetInv, CachesTracked, Sound, Tracked
<1> QED  BY <1>2, <1>3 DEF TargetInv

LEMMA RunTarget ==
  ASSUME TargetInv, NEW t \in Thread, Run(t)
  PROVE  TargetInv'
<1>1. Next
  BY Zenon DEF Run, Next
<1>2. IInv' /\ Simulated'
  BY <1>1, NextIInv, NextSimulated DEF TargetInv
<1>3. ASSUME NEW x \in Block, NEW crosses \in BOOLEAN, MemAccess(t, x, crosses), Touch(t, x)
      PROVE  TargetInv'
  <2>1. AccessBlock(t, x) /\ UNCHANGED datastructs
    BY <1>3 DEF MemAccess
  <2> QED  BY <1>2, <1>3, <2>1, AccessTarget
<1>4. ASSUME SecondAccess(t), Touch(t, second.block)
      PROVE  TargetInv'
  <2>1. second.block \in Block /\ AccessBlock(t, second.block) /\ UNCHANGED datastructs
    BY <1>4, SecondBlock DEF SecondAccess, TargetInv, IInv
  <2> QED  BY <1>2, <1>4, <2>1, AccessTarget
<1>5. ASSUME NEW a \in Allocation, Malloc(t, a), UNCHANGED lruVars
      PROVE  TargetInv'
  <2>1. UNCHANGED << cachesims, corrupt, datastructs >>
    BY <1>5 DEF Malloc
  <2> QED  BY <1>2, <1>5, <2>1, IdleTarget
<1>6. ASSUME NEW has_file \in BOOLEAN, HandleDatastruct(t, has_file), NoteCaches
      PROVE  TargetInv'
  BY <1>2, <1>6, HandleTarget
<1>7. ASSUME NEW a \in Allocation \cup {NullAllocation}, NewFree(t, a), UNCHANGED lruVars
      PROVE  TargetInv'
  <2>1. UNCHANGED << cachesims, corrupt >>
    BY <1>7 DEF NewFree
  <2>2. Len(datastructs') = Len(datastructs)
    BY <1>7, NewFreeKeepsObjects DEF TargetInv, IInv
  <2> QED  BY <1>2, <1>7, <2>1, <2>2, IdleTarget
<1>8. ASSUME OrgFree(t), UNCHANGED lruVars
      PROVE  TargetInv'
  <2>1. UNCHANGED << cachesims, corrupt, datastructs >>
    BY <1>8 DEF OrgFree
  <2> QED  BY <1>2, <1>8, <2>1, IdleTarget
<1> QED  BY <1>3, <1>4, <1>5, <1>6, <1>7, <1>8 DEF Run

LEMMA KeptTarget ==
  ASSUME TargetInv, UNCHANGED << vars, lruVars >>
  PROVE  TargetInv'
<1>1. IInv' /\ Simulated'
  <2>1. [Next]_vars
    OBVIOUS
  <2> QED  BY <2>1, NextIInv, NextSimulated DEF TargetInv
<1>2. UNCHANGED << cachesims, corrupt, datastructs, lruVars >>
  BY DEF vars
<1> QED  BY <1>1, <1>2, IdleTarget

\* The script's result depends on the caches alone.
LEMMA RecommendedKept ==
  ASSUME NEW level, UNCHANGED cachesims
  PROVE  Recommended(level)' = Recommended(level)
<1>1. \A k, p, min : CountFrom(k, p, min)' = CountFrom(k, p, min)
  BY CountFromIs
<1>2. \A n : (\A k : MissesSc(k, level, n)' = MissesSc(k, level, n))
  BY <1>1 DEF MissesSc, Misses
<1>3. NoDatastructRows' = NoDatastructRows
  BY DEF NoDatastructRows, HasPair
<1>4. MissesNosc(level)' = MissesNosc(level)
  BY <1>1, <1>3 DEF MissesNosc, Misses
<1>5. Candidates(level)' = Candidates(level)
  BY <1>2, <1>4 DEF Candidates
<1> QED  BY <1>4, <1>5 DEF Recommended

LEMMA NextRec == RecInv /\ [RecNext]_recVars => RecInv'
<1> SUFFICES ASSUME RecInv, [RecNext]_recVars PROVE RecInv'
  OBVIOUS
<1>1. ASSUME phase = "running", NEW t \in Thread, Run(t), UNCHANGED << phase, recommendation >>
      PROVE  RecInv'
  <2>1. TargetInv'
    BY <1>1, RunTarget DEF RecInv
  <2> QED  BY <1>1, <2>1 DEF RecInv
<1>2. CASE Analyse
  <2>1. TargetInv' /\ \A level : Recommended(level)' = Recommended(level)
    BY <1>2, KeptTarget, RecommendedKept DEF Analyse, RecInv, vars
  <2>2. phase' = "analysed" /\ recommendation' = [level \in Level |-> Recommended(level)]
    BY <1>2 DEF Analyse
  <2> QED  BY <2>1, <2>2 DEF RecInv
<1>3. CASE UNCHANGED recVars
  <2>1. TargetInv' /\ \A level : Recommended(level)' = Recommended(level)
    BY <1>3, KeptTarget, RecommendedKept DEF recVars, RecInv, vars
  <2>2. UNCHANGED << phase, recommendation >>
    BY <1>3 DEF recVars
  <2> QED  BY <2>1, <2>2 DEF RecInv
<1> QED  BY <1>1, <1>2, <1>3 DEF RecNext

\* A simulator that simulates every access where it belongs follows the
\* target's caches, however many others are added, and the result is computed
\* from what they have counted.
THEOREM TargetInvariance == RecSpec => []RecInv
BY InitTarget, NextRec, PTL DEF RecSpec

-----------------------------------------------------------------------------
(***************************************************************************)
(* What the script finds.                                                  *)
(***************************************************************************)
LEMMA CountFromType ==
  ASSUME TargetInv, NEW k \in Caches, NEW p \in 0 .. 1, NEW C
  PROVE  /\ cachesims[k].partition[p].count \in [Bucket -> Nat]
         /\ CountFrom(k, p, C) = CountOf(cachesims[k].partition[p], C)
         /\ CountFrom(k, p, C) \in Nat
<1>1. cachesims[k] \in Cache
  BY ElementOfSeq DEF TargetInv, IInv, MapInv, CachesShape, Caches
<1>2. cachesims[k].partition[p].count \in [Bucket -> Nat]
  BY <1>1 DEF Cache, CacheSimState
<1>3. CountFrom(k, p, C) = CountOf(cachesims[k].partition[p], C)
  BY CountFromIs DEF CountOf
<1>4. CountOf(cachesims[k].partition[p], C) \in Nat
  BY <1>2, BeyondType, SumType DEF CountOf
<1> QED  BY <1>2, <1>3, <1>4

LEMMA WaysAre ==
  ASSUME NEW level \in Level
  PROVE  /\ Ways(level) \in Nat \ {0} /\ Ways(level) \in 1 .. Ways(level)
         /\ Capacity(level, Ways(level)) \in Capacities
         /\ \A n \in 1 .. Ways(level) - 1 : /\ n \in 1 .. Ways(level) /\ Ways(level) - n \in 1 .. Ways(level)
                                            /\ Capacity(level, n) \in Capacities
                                            /\ Capacity(level, Ways(level) - n) \in Capacities
<1>1. Ways(level) \in Nat \ {0}
  BY WaysAssumption DEF Ways
<1>2. /\ Ways(level) \in 1 .. Ways(level)
      /\ \A n \in 1 .. Ways(level) - 1 : n \in 1 .. Ways(level) /\ Ways(level) - n \in 1 .. Ways(level)
  BY <1>1
<1> QED  BY <1>1, <1>2, CapacityIn

\* The count of a sound simulator and the misses of the cache it simulates.
LEMMA CountIsBetween ==
  ASSUME TargetInv, NEW k \in Caches, NEW p \in 0 .. 1, NEW C \in Capacities
  PROVE  LET m == misses[cachesims[k].ds_nums][p][C]
         IN  /\ m \in Nat /\ before[k][p][C] \in Nat
             /\ Sound(k) => CountFrom(k, p, C) <= m /\ m <= CountFrom(k, p, C) + before[k][p][C]
<1> DEFINE m == misses[cachesims[k].ds_nums][p][C]
<1>1. m \in Nat
  BY IsolationKnown DEF TargetInv, LruShape, Table
<1>2. before[k][p][C] \in Nat
  BY DEF TargetInv, BeforeShape
<1>3. ASSUME Sound(k) PROVE CountFrom(k, p, C) <= m /\ m <= CountFrom(k, p, C) + before[k][p][C]
  <2>1. Tracked(k)
    BY <1>3 DEF TargetInv, CachesTracked
  <2>2. CountFrom(k, p, C) = CountOf(cachesims[k].partition[p], C)
    BY CountFromType
  <2> QED  BY <2>1, <2>2 DEF Tracked, Tracks
<1> QED  BY <1>1, <1>2, <1>3

LEMMA SplitFacts ==
  ASSUME TargetInv, NEW k \in Caches, NEW level \in Level, NEW n \in 1 .. Ways(level) - 1
  PROVE  LET counted == MissesSc(k, level, n)
             real == RealMisses(cachesims[k].ds_nums, level, n)
             earlier == EarlierMisses(k, level, n)
         IN  /\ counted \in Nat /\ real \in Nat /\ earlier \in Nat
             /\ Faithful(k) => counted <= real /\ real - earlier <= counted
<1> DEFINE S == cachesims[k].ds_nums
           c0 == Capacity(level, n)
           c1 == Capacity(level, Ways(level) - n)
<1>1. c0 \in Capacities /\ c1 \in Capacities
  BY WaysAre
<1>2. /\ MissesSc(k, level, n) = CountFrom(k, 0, c0) + CountFrom(k, 1, c1)
      /\ RealMisses(S, level, n) = misses[S][0][c0] + misses[S][1][c1]
      /\ EarlierMisses(k, level, n) = before[k][0][c0] + before[k][1][c1]
  BY DEF MissesSc, Misses, RealMisses, EarlierMisses
<1>3. Faithful(k) => Sound(k)
  BY DEF Faithful, Sound
<1> HIDE DEF c0, c1
<1>4. /\ CountFrom(k, 0, c0) \in Nat /\ misses[S][0][c0] \in Nat /\ before[k][0][c0] \in Nat
      /\ Sound(k) => /\ CountFrom(k, 0, c0) <= misses[S][0][c0]
                     /\ misses[S][0][c0] <= CountFrom(k, 0, c0) + before[k][0][c0]
  BY <1>1, CountFromType, CountIsBetween
<1>5. /\ CountFrom(k, 1, c1) \in Nat /\ misses[S][1][c1] \in Nat /\ before[k][1][c1] \in Nat
      /\ Sound(k) => /\ CountFrom(k, 1, c1) <= misses[S][1][c1]
                     /\ misses[S][1][c1] <= CountFrom(k, 1, c1) + before[k][1][c1]
  BY <1>1, CountFromType, CountIsBetween
<1> QED  BY <1>2, <1>3, <1>4, <1>5 DEF S

LEMMA AllowedIs ==
  ASSUME NEW level \in Level
  PROVE  /\ Splits(level) = Allowed(level) /\ Splits(level) \in SUBSET (1 .. Ways(level) - 1)
         /\ Splits(level) \in SUBSET Nat
<1>1. L1Ways \in Nat /\ L2Ways \in Nat
  BY WaysAssumption
<1>2. Splits(level) = Allowed(level)
  BY DEF Splits, Allowed
<1>3. CASE level = 1
  BY <1>1, <1>2, <1>3 DEF Splits, Ways
<1>4. CASE level = 2
  BY <1>1, <1>2, <1>4 DEF Splits, Ways
<1> QED  BY <1>3, <1>4 DEF Level

\* The number of misses that pincpt.py computes for a split, from a cache that
\* places the accesses where they belong, is at most that of the target's split
\* caches, and at least that of their misses since the cache was added.
THEOREM LateCachesHold == RecSpec => []LateCachesUndercount
<1>1. RecInv => LateCachesUndercount
  <2> SUFFICES ASSUME TargetInv, NEW k \in Caches, NEW level \in Level, NEW n \in Allowed(level),
                      Faithful(k)
               PROVE  LET real == RealMisses(cachesims[k].ds_nums, level, n)
                          counted == MissesSc(k, level, n)
                      IN  counted <= real /\ real - EarlierMisses(k, level, n) <= counted
    BY DEF LateCachesUndercount, RecInv
  <2> QED  BY AllowedIs, SplitFacts
<1> QED  BY <1>1, TargetInvariance, PTL

\* The rows of data object 0 are those of the first cache.  Their sum is what
\* misses the unpartitioned cache, and no split of the first cache has less.
LEMMA NoDatastructFacts ==
  ASSUME TargetInv, NEW level \in Level
  PROVE  /\ MissesNosc(level) \in Nat
         /\ ~HasPair => MissesNosc(level) = 0
         /\ HasPair /\ Faithful(1) => MissesNosc(level) = RealShared(level)
         /\ \A n \in 1 .. Ways(level) - 1 : MissesNosc(level) <= MissesSc(1, level, n)
<1> DEFINE whole == Capacity(level, Ways(level))
           rows == [k \in NoDatastructRows |-> Misses(k, whole, whole)]
<1>1. whole \in Capacities
  BY WaysAre
<1>2. MissesNosc(level) = SumOf(rows, NoDatastructRows)
  BY DEF MissesNosc
<1>3. /\ 1 \in Caches /\ cachesims[1].ds_nums = {}
      /\ NoDatastructRows = IF HasPair THEN {1} ELSE {}
  <2>1. cachesims \in Seq(Cache) /\ Len(cachesims) > 0
    BY DEF TargetInv, IInv, MapInv, CachesShape
  <2>2. DOMAIN cachesims = Caches /\ 1 \in Caches
    BY <2>1, LenProperties DEF Caches
  <2>3. \A k \in Caches : cachesims[k].ds_nums = {} <=> k = 1
    BY <2>2 DEF TargetInv, Simulated
  <2>4. NoDatastructRows = IF HasPair THEN {1} ELSE {}
    BY <2>2, <2>3 DEF NoDatastructRows
  <2> QED  BY <2>2, <2>3, <2>4
<1> DEFINE shared == Misses(1, whole, whole)
<1>4. shared = CountFrom(1, 0, whole) + CountFrom(1, 1, whole)
  BY DEF Misses
<1>5. CountFrom(1, 0, whole) \in Nat /\ CountFrom(1, 1, whole) \in Nat
  BY <1>3, CountFromType
<1>6. Faithful(1) => shared = RealShared(level)
  <2> SUFFICES ASSUME Faithful(1) PROVE shared = RealShared(level)
    OBVIOUS
  <2>1. Sound(1)
    BY DEF Faithful, Sound
  <2>2. \A p \in 0 .. 1 : CountFrom(1, p, whole) = misses[{}][p][whole]
    <3> SUFFICES ASSUME NEW p \in 0 .. 1 PROVE CountFrom(1, p, whole) = misses[{}][p][whole]
      OBVIOUS
    <3> HIDE DEF whole
    <3>1. /\ CountFrom(1, p, whole) <= misses[{}][p][whole]
          /\ misses[{}][p][whole] <= CountFrom(1, p, whole) + before[1][p][whole]
          /\ misses[{}][p][whole] \in Nat
      BY <1>1, <1>3, <2>1, CountIsBetween
    <3>2. before[1][p][whole] = 0 /\ CountFrom(1, p, whole) \in Nat
      BY <1>1, <1>3, CountFromType DEF TargetInv, BeforeShape
    <3> QED  BY <3>1, <3>2
  <2>3. misses[{}][0][whole] = 0
    BY <1>1 DEF TargetInv, LruShape
  <2>4. RealShared(level) = misses[{}][1][whole]
    BY DEF RealShared
  <2> HIDE DEF whole, shared
  <2>5. CountFrom(1, 0, whole) = 0 /\ CountFrom(1, 1, whole) = RealShared(level)
    BY <2>2, <2>3, <2>4
  <2> QED  BY <1>4, <1>5, <2>5
<1> HIDE DEF whole, shared
<1>7. shared \in Nat
  BY <1>4, <1>5
<1>8. MissesNosc(level) = IF HasPair THEN shared ELSE 0
  <2>1. CASE HasPair
    <3>1. NoDatastructRows = {1} /\ rows[1] = shared
      BY <1>3, <2>1 DEF shared
    <3> HIDE DEF rows
    <3>2. SumOf(rows, {1}) = rows[1]
      BY <1>7, <3>1, SumSingleton
    <3> QED  BY <1>2, <2>1, <3>1, <3>2
  <2>2. CASE ~HasPair
    <3>1. NoDatastructRows = {}
      BY <1>3, <2>2
    <3> HIDE DEF rows
    <3> QED  BY <1>2, <2>2, <3>1, SumEmpty
  <2> QED  BY <2>1, <2>2
\* Fewer ways, more buckets.
<1>9. ASSUME NEW n \in 1 .. Ways(level), NEW p \in 0 .. 1
      PROVE  CountFrom(1, p, whole) <= CountFrom(1, p, Capacity(level, n))
  <2> DEFINE C == Capacity(level, n)
             f == cachesims[1].partition[p].count
  <2>1. C \in Nat /\ whole \in Nat /\ C <= whole
    <3> DEFINE b == IF level = 1 THEN L1PerWay ELSE L2PerWay
    <3>1. b \in Nat /\ Ways(level) \in Nat
      BY WaysAssumption, WaysAre
    <3>2. C = n * b /\ whole = Ways(level) * b
      BY DEF Capacity, whole
    <3>3. \A i, j, m \in Nat : i <= j => i * m \in Nat /\ j * m \in Nat /\ i * m <= j * m
      OBVIOUS
    <3> HIDE DEF b, C
    <3> QED  BY <3>1, <3>2, <3>3
  <2>2. Beyond(whole) \in SUBSET Beyond(C)
    <3>1. \A b \in Bucket : b # InfBucket => MinDist[b] \in Nat
      BY MinDistAssumption DEF Bucket
    <3> HIDE DEF C
    <3> QED  BY <2>1, <3>1 DEF Beyond
  <2>3. IsFiniteSet(Beyond(C)) /\ Beyond(C) \subseteq Bucket
    BY BeyondType
  <2>4. f \in [Bucket -> Nat]
    BY <1>3, CountFromType
  <2>5. CountFrom(1, p, whole) = SumOf(f, Beyond(whole)) /\ CountFrom(1, p, C) = SumOf(f, Beyond(C))
    BY CountFromIs
  <2> HIDE DEF f, C
  <2>6. SumOf(f, Beyond(whole)) <= SumOf(f, Beyond(C))
    <3>1. \A b \in Beyond(C) : f[b] \in Nat
      BY <2>3, <2>4
    <3> QED  BY <2>2, <2>3, <3>1, SumSubset
  <2> QED  BY <2>5, <2>6 DEF C
<1>10. ASSUME NEW n \in 1 .. Ways(level) - 1
       PROVE  MissesNosc(level) <= MissesSc(1, level, n)
  <2> DEFINE c0 == Capacity(level, n)
             c1 == Capacity(level, Ways(level) - n)
  <2>1. n \in 1 .. Ways(level) /\ Ways(level) - n \in 1 .. Ways(level)
    BY WaysAre
  <2>2. MissesSc(1, level, n) = CountFrom(1, 0, c0) + CountFrom(1, 1, c1)
    BY DEF MissesSc, Misses
  <2>3. CountFrom(1, 0, whole) <= CountFrom(1, 0, c0) /\ CountFrom(1, 1, whole) <= CountFrom(1, 1, c1)
    BY <1>9, <2>1
  <2> HIDE DEF c0, c1
  <2>4. CountFrom(1, 0, c0) \in Nat /\ CountFrom(1, 1, c1) \in Nat
    BY <1>3, CountFromType
  <2> QED  BY <1>4, <1>5, <1>8, <2>2, <2>3, <2>4
<1> QED  BY <1>6, <1>7, <1>8, <1>10

\* What the loops find worthwhile, for one of the splits.
LEMMA CandidateFacts ==
  ASSUME TargetInv, NEW level \in Level
  PROVE  /\ IsFiniteSet(Candidates(level))
         /\ \A c : c \in Candidates(level) <=>
              /\ c \in [cs : Caches, nways : Splits(level), miss_sc : Nat]
              /\ c.miss_sc = MissesSc(c.cs, level, c.nways)
              /\ Worthwhile(MissesNosc(level), c.miss_sc)
         /\ Caches \in SUBSET Nat /\ 1 \in Caches
<1> DEFINE N == Splits(level)
           Sc(k, n) == MissesSc(k, level, n)
           All == {[cs |-> k, nways |-> n, miss_sc |-> Sc(k, n)] : k \in Caches, n \in N}
<1>1. cachesims \in Seq(Cache) /\ Len(cachesims) > 0 /\ Len(cachesims) \in Nat
  BY LenProperties DEF TargetInv, IInv, MapInv, CachesShape
<1>2. DOMAIN cachesims = Caches /\ Caches \in SUBSET Nat /\ 1 \in Caches /\ IsFiniteSet(Caches)
  BY <1>1, LenProperties, FS_Interval DEF Caches
<1>3. Candidates(level) = {c \in All : Worthwhile(MissesNosc(level), c.miss_sc)}
  BY <1>2 DEF Candidates
<1>4. N \in SUBSET (1 .. Ways(level) - 1) /\ N \in SUBSET Nat
  BY AllowedIs
<1>5. \A k \in Caches, n \in N : Sc(k, n) \in Nat
  BY <1>4, SplitFacts
<1>6. IsFiniteSet(All)
  <2>1. IsFiniteSet(1 .. Ways(level) - 1)
    <3>1. Ways(level) - 1 \in Int
      BY WaysAre
    <3> QED  BY <3>1, FS_Interval
  <2>2. IsFiniteSet(N)
    BY <1>4, <2>1, FS_Subset
  <2> DEFINE D == Caches
  <2>D. IsFiniteSet(D) /\ D = Caches
    BY <1>2
  <2> HIDE DEF N, Sc, D
  <2>3. IsFiniteSet(D \X N)
    BY <2>D, <2>2, FS_Product
  <2> DEFINE f == [q \in D \X N |-> [cs |-> q[1], nways |-> q[2], miss_sc |-> Sc(q[1], q[2])]]
  <2>4. \A q \in D \X N : f[q] \in All
    <3> TAKE q \in D \X N
    <3>1. q[1] \in D /\ q[2] \in N
      OBVIOUS
    <3> QED  BY <2>D, <3>1
  <2>5. \A c \in All : \E q \in D \X N : f[q] = c
    <3> TAKE c \in All
    <3>a. PICK k \in D, n \in N : c = [cs |-> k, nways |-> n, miss_sc |-> Sc(k, n)]
      BY <2>D
    <3>1. << k, n >> \in D \X N /\ f[<< k, n >>] = [cs |-> k, nways |-> n, miss_sc |-> Sc(k, n)]
      OBVIOUS
    <3> HIDE DEF f
    <3> QED  BY <3>a, <3>1
  <2>6. f = [q \in D \X N |-> f[q]]
    OBVIOUS
  <2> HIDE DEF f, All
  <2>7. f \in Surjection(D \X N, All)
    BY <2>4, <2>5, <2>6 DEF Surjection
  <2> QED  BY <2>3, <2>7, FS_Surjection
<1>7. ASSUME NEW c
      PROVE  c \in All <=> /\ c \in [cs : Caches, nways : N, miss_sc : Nat]
                           /\ c.miss_sc = Sc(c.cs, c.nways)
  <2> HIDE DEF N, Sc
  <2> QED  BY <1>5
<1>8. \A c : c \in Candidates(level) <=> c \in All /\ Worthwhile(MissesNosc(level), c.miss_sc)
  BY <1>3
<1>9. IsFiniteSet(Candidates(level))
  <2>1. Candidates(level) \in SUBSET All
    BY <1>3
  <2> HIDE DEF All
  <2> QED  BY <1>6, <2>1, FS_Subset
<1> QED  BY <1>2, <1>7, <1>8, <1>9

\* One of them is preferred to all others.
LEMMA RecommendedFacts ==
  ASSUME TargetInv, NEW level \in Level, Candidates(level) # {}, MissesNosc(level) # 0
  PROVE  /\ Recommended(level) \in Candidates(level)
         /\ \A s \in Candidates(level) : Recommended(level).miss_sc <= s.miss_sc
<1> DEFINE T == Candidates(level)
           Best(r) == \A s \in T \ {r} : Preferred(r, s)
           R == {q \in T \X T : Preferred(q[1], q[2])}
<1>1. IsFiniteSet(T)
  BY CandidateFacts
<1>2. \A c \in T : /\ c.cs \in Int /\ c.nways \in Int /\ c.miss_sc \in Int
                   /\ c = [cs |-> c.cs, nways |-> c.nways, miss_sc |-> c.miss_sc]
  <2>1. \A c \in T : c \in [cs : Caches, nways : Splits(level), miss_sc : Nat]
    BY CandidateFacts
  <2>2. Caches \in SUBSET Nat /\ Splits(level) \in SUBSET Nat
    BY CandidateFacts, AllowedIs
  <2> HIDE DEF T
  <2> QED  BY <2>1, <2>2
<1>3. Recommended(level) = CHOOSE r \in T : Best(r)
  BY DEF Recommended
<1> HIDE DEF T
<1>4. \A x, y \in T : << x, y >> \in R <=> Preferred(x, y)
  OBVIOUS
<1>5. \A x, y, z \in T : Preferred(x, y) /\ Preferred(y, z) => Preferred(x, z)
  BY <1>2 DEF Preferred, Earlier
<1>6. \A x, y \in T : x # y => Preferred(x, y) \/ Preferred(y, x)
  <2> SUFFICES ASSUME NEW x \in T, NEW y \in T, ~Preferred(x, y), ~Preferred(y, x) PROVE x = y
    OBVIOUS
  <2>1. x.cs = y.cs /\ x.nways = y.nways /\ x.miss_sc = y.miss_sc
    BY <1>2 DEF Preferred, Earlier
  <2> QED  BY <1>2, <2>1
<1>7. \E r \in T : Best(r)
  <2> HIDE DEF R
  <2>1. \E r \in T : \A s \in T \ {r} : << r, s >> \in R
    <3>1. T # {}
      BY DEF T
    <3> QED  BY <1>1, <1>4, <1>5, <1>6, <3>1, FirstExists
  <2> QED  BY <1>4, <2>1
<1> DEFINE r == Recommended(level)
<1>8. r \in T /\ Best(r)
  <2> HIDE DEF Best
  <2> QED  BY <1>3, <1>7
<1>9. \A s \in T : r.miss_sc <= s.miss_sc
  <2> HIDE DEF r
  <2> QED  BY <1>2, <1>8 DEF Preferred
<1> QED  BY <1>8, <1>9 DEF T

\* The threshold is a share of the misses.
LEMMA ThresholdFacts == \A m \in Nat : ReductionThreshold * m \in Nat
BY RecommendationAssumption

\* What is recommended, and what it is better than.
LEMMA WorthIt ==
  ASSUME RecInv, NEW level \in Level, recommendation[level] # None
  PROVE  LET r == recommendation[level]
             nosc == MissesNosc(level)
         IN  /\ r \in [cs : Caches, nways : Splits(level), miss_sc : Nat]
             /\ r.miss_sc = MissesSc(r.cs, level, r.nways)
             /\ HasPair /\ nosc \in Nat
             /\ 100 * (nosc - r.miss_sc) > ReductionThreshold * nosc
             /\ \A k \in Caches, n \in Splits(level) : r.miss_sc <= MissesSc(k, level, n)
<1> DEFINE r == recommendation[level]
           nosc == MissesNosc(level)
           limit == ReductionThreshold * nosc
<1>t. TargetInv
  BY DEF RecInv
<1>1. r = Recommended(level) /\ nosc # 0 /\ Candidates(level) # {}
  <2>1. r = Recommended(level)
    BY DEF RecInv
  <2> QED  BY <2>1 DEF Recommended
<1>2. r \in Candidates(level) /\ \A s \in Candidates(level) : r.miss_sc <= s.miss_sc
  BY <1>t, <1>1, RecommendedFacts
<1>3. /\ r \in [cs : Caches, nways : Splits(level), miss_sc : Nat]
      /\ r.miss_sc = MissesSc(r.cs, level, r.nways) /\ Worthwhile(nosc, r.miss_sc)
  BY <1>t, <1>2, CandidateFacts
<1>4. HasPair /\ nosc \in Nat /\ limit \in Nat
  BY <1>t, <1>1, NoDatastructFacts, ThresholdFacts
<1>5. 100 * (nosc - r.miss_sc) > limit
  BY <1>3 DEF Worthwhile
<1> HIDE DEF r, nosc, limit
<1>6. ASSUME NEW k \in Caches, NEW n \in Splits(level)
      PROVE  r.miss_sc <= MissesSc(k, level, n)
  <2> DEFINE c == MissesSc(k, level, n)
  <2>1. c \in Nat
    BY <1>t, AllowedIs, SplitFacts
  <2>2. CASE Worthwhile(nosc, c)
    <3> DEFINE s == [cs |-> k, nways |-> n, miss_sc |-> c]
    <3>1. /\ s \in [cs : Caches, nways : Splits(level), miss_sc : Nat]
          /\ s.cs = k /\ s.nways = n /\ s.miss_sc = c
      <4> HIDE DEF c
      <4> QED  BY <2>1
    <3> HIDE DEF s
    <3>2. s \in Candidates(level)
      BY <1>t, <2>2, <3>1, CandidateFacts DEF nosc
    <3>3. r.miss_sc <= s.miss_sc
      BY <1>2, <3>2
    <3> QED  BY <3>1, <3>3
  <2>3. CASE ~Worthwhile(nosc, c)
    <3>1. ~(100 * (nosc - c) > limit)
      BY <2>3 DEF Worthwhile, limit
    <3>2. r.miss_sc \in Nat
      BY <1>3
    <3> HIDE DEF c
    <3>3. r.miss_sc <= c
      BY <1>4, <1>5, <2>1, <3>1, <3>2
    <3> QED  BY <3>3 DEF c
  <2> QED  BY <2>2, <2>3
<1> QED  BY <1>3, <1>4, <1>5, <1>6 DEF r, nosc, limit

\* The recommended split isolates an object and reduces the misses by more
\* than the threshold, and since its object's registration the target has had
\* no more misses with it than any other split has in the whole run.
THEOREM BestSplitHolds == RecSpec => []BestSplitRecommended
<1>1. RecInv => BestSplitRecommended
  <2> SUFFICES ASSUME RecInv, Faithful(1), NEW level \in Level, recommendation[level] # None
               PROVE  LET r == recommendation[level]
                          S == cachesims[r.cs].ds_nums
                      IN  /\ S # {} /\ r.nways \in Allowed(level)
                          /\ 100 * (RealShared(level) - r.miss_sc) > ReductionThreshold * RealShared(level)
                          /\ Faithful(r.cs) =>
                               \A k \in Caches : \A n \in Allowed(level) : Faithful(k) =>
                                 RealMisses(S, level, r.nways) - EarlierMisses(r.cs, level, r.nways)
                                   <= RealMisses(cachesims[k].ds_nums, level, n)
    BY DEF BestSplitRecommended
  <2> DEFINE r == recommendation[level]
             S == cachesims[r.cs].ds_nums
             nosc == MissesNosc(level)
             limit == ReductionThreshold * nosc
  <2>t. TargetInv
    BY DEF RecInv
  <2>1. /\ r \in [cs : Caches, nways : Splits(level), miss_sc : Nat]
        /\ r.miss_sc = MissesSc(r.cs, level, r.nways)
        /\ HasPair /\ nosc \in Nat /\ 100 * (nosc - r.miss_sc) > limit
        /\ \A k \in Caches, n \in Splits(level) : r.miss_sc <= MissesSc(k, level, n)
    BY WorthIt
  <2>2. Splits(level) = Allowed(level) /\ Splits(level) \in SUBSET (1 .. Ways(level) - 1)
    BY AllowedIs
  <2>3. nosc = RealShared(level) /\ limit \in Nat
    BY <2>t, <2>1, NoDatastructFacts, ThresholdFacts
  <2> HIDE DEF r, nosc, limit
  <2>4. r.cs \in Caches /\ r.nways \in 1 .. Ways(level) - 1 /\ r.nways \in Allowed(level) /\ r.miss_sc \in Nat
    BY <2>1, <2>2
  <2>5. S # {}
    <3> SUFFICES ASSUME S = {} PROVE FALSE
      OBVIOUS
    <3>1. 1 \in Caches /\ cachesims[1].ds_nums = {}
      BY <2>t, CandidateFacts DEF TargetInv, Simulated
    <3>a. \A i, j \in Caches : cachesims[i].ds_nums = cachesims[j].ds_nums => i = j
      BY <2>t DEF TargetInv, Simulated
    <3>2. r.cs = 1
      BY <2>4, <3>1, <3>a
    <3>3. nosc <= r.miss_sc
      BY <2>t, <2>1, <2>4, <3>2, NoDatastructFacts DEF nosc
    <3> QED  BY <2>1, <2>3, <2>4, <3>3
  <2>6. 100 * (RealShared(level) - r.miss_sc) > ReductionThreshold * RealShared(level)
    BY <2>1, <2>3 DEF limit
  <2>7. ASSUME Faithful(r.cs), NEW k \in Caches, NEW n \in Allowed(level), Faithful(k)
        PROVE  RealMisses(S, level, r.nways) - EarlierMisses(r.cs, level, r.nways)
                 <= RealMisses(cachesims[k].ds_nums, level, n)
    <3> DEFINE real == RealMisses(S, level, r.nways)
               earlier == EarlierMisses(r.cs, level, r.nways)
               c == MissesSc(k, level, n)
               d == RealMisses(cachesims[k].ds_nums, level, n)
    <3>1. real \in Nat /\ earlier \in Nat /\ real - earlier <= r.miss_sc
      BY <2>t, <2>1, <2>4, <2>7, SplitFacts
    <3>2. c \in Nat /\ d \in Nat /\ c <= d
      BY <2>t, <2>2, <2>7, SplitFacts
    <3>3. r.miss_sc <= c
      BY <2>1, <2>2
    <3> HIDE DEF real, earlier, c, d
    <3>4. real - earlier <= d
      BY <2>4, <3>1, <3>2, <3>3
    <3> QED  BY <3>4 DEF real, earlier, d
  <2> QED  BY <2>4, <2>5, <2>6, <2>7 DEF r
<1> QED  BY <1>1, TargetInvariance, PTL

\* If a split of the target's caches is worth it, one is recommended, whatever
\* the objects of the other caches have been through.
THEOREM ReductionHolds == RecSpec => []ReductionFound
<1>1. RecInv => ReductionFound
  <2> SUFFICES ASSUME RecInv, phase = "analysed", HasPair, Faithful(1), NEW level \in Level,
                      NEW k \in Caches, NEW n \in Allowed(level), Faithful(k),
                      100 * (RealShared(level) - RealMisses(cachesims[k].ds_nums, level, n))
                        > ReductionThreshold * RealShared(level)
               PROVE  recommendation[level] # None
    BY DEF ReductionFound
  <2> DEFINE c == MissesSc(k, level, n)
             d == RealMisses(cachesims[k].ds_nums, level, n)
             nosc == MissesNosc(level)
             limit == ReductionThreshold * nosc
             s == [cs |-> k, nways |-> n, miss_sc |-> c]
  <2>t. TargetInv
    BY DEF RecInv
  <2>1. Splits(level) \in SUBSET (1 .. Ways(level) - 1) /\ Splits(level) = Allowed(level)
    BY AllowedIs
  <2>2. c \in Nat /\ d \in Nat /\ c <= d
    BY <2>t, <2>1, SplitFacts
  <2>3. nosc \in Nat /\ nosc = RealShared(level) /\ limit \in Nat
    BY <2>t, NoDatastructFacts, ThresholdFacts
  <2>4. 100 * (nosc - d) > limit
    BY <2>3
  <2>5. 100 * (nosc - c) > limit /\ nosc # 0
    <3> HIDE DEF c, d, nosc, limit
    <3> QED  BY <2>2, <2>3, <2>4
  <2>6. Worthwhile(nosc, c)
    BY <2>5 DEF Worthwhile
  <2>7. /\ s \in [cs : Caches, nways : Splits(level), miss_sc : Nat]
        /\ s.cs = k /\ s.nways = n /\ s.miss_sc = c
    <3> HIDE DEF c
    <3> QED  BY <2>1, <2>2
  <2>8. s \in Candidates(level)
    <3> HIDE DEF s
    <3> QED  BY <2>t, <2>6, <2>7, CandidateFacts
  <2>9. recommendation[level] = Recommended(level)
    BY DEF RecInv
  <2>10. Recommended(level) \in Candidates(level)
    <3>1. Candidates(level) # {}
      BY <2>8
    <3> QED  BY <2>t, <2>5, <3>1, RecommendedFacts
  <2>11. Recommended(level) \in [cs : Nat, nways : Nat, miss_sc : Nat]
    <3>1. /\ Recommended(level) \in [cs : Caches, nways : Splits(level), miss_sc : Nat]
          /\ Caches \in SUBSET Nat /\ Splits(level) \in SUBSET Nat
      BY <2>t, <2>10, CandidateFacts, AllowedIs
    <3> HIDE DEF Recommended
    <3> QED  BY <3>1
  <2> QED  BY <2>9, <2>11, RecommendationAssumption
<1> QED  BY <1>1, TargetInvariance, PTL
=============================================================================
