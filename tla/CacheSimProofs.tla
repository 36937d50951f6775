--------------------------- MODULE CacheSimProofs ---------------------------
(***************************************************************************)
(* Lemmas about the operators of CacheSim: what each method of the class   *)
(* returns and that it preserves Consistent, for every bucket table and    *)
(* every stack, and that one access is a step of ReuseDistance on the      *)
(* history of accesses that the stack stands for.                          *)
(***************************************************************************)
EXTENDS CacheSim, FiniteSetTheorems, SequenceTheorems, TLAPS

\* A node is where Position says it is: the stack has no block twice.
LEMMA PositionUnique ==
  ASSUME NEW c \in CacheSimState, StackDistinct(c), NEW i \in 1 .. Len(c.stack)
  PROVE  Position(c, c.stack[i]) = i
BY DEF Position, StackDistinct

\* Only bucket 0 starts at the top of the stack.
LEMMA MinDistPositive ==
  ASSUME NEW b \in 1 .. InfBucket - 1
  PROVE  MinDist[b] \in Nat \ {0}
BY MinDistAssumption

\* The markers up to top sit at distance MinDist[b] + k from the top: k is 1
\* just after a push_front and 0 otherwise.
MarkersAt(c, top, k) ==
  \A b \in 1 .. top : /\ MinDist[b] + k + 1 <= Len(c.stack)
                      /\ c.marker[b] = c.stack[MinDist[b] + k + 1]

\* m is c with those markers one node higher, where exactly the nodes they
\* reached have changed their bucket, by one.
Shifted(c, m, top, k) ==
  /\ m \in CacheSimState
  /\ m.stack = c.stack
  /\ m.next_bucket = c.next_bucket
  /\ m.count = c.count
  /\ \A b \in 1 .. InfBucket - 1 :
       m.marker[b] = IF b <= top THEN c.stack[MinDist[b] + k] ELSE c.marker[b]
  /\ \A i \in 1 .. Len(c.stack) :
       m.bucket[c.stack[i]] = c.bucket[c.stack[i]] +
         (IF \E b \in 1 .. top : MinDist[b] + k = i THEN 1 ELSE 0)
  /\ \A x \in Block : ~OnStack(c, x) => m.bucket[x] = c.bucket[x]

\* move_markers does that, provided no block has two nodes.
LEMMA MoveMarkersShifts ==
  ASSUME NEW c \in CacheSimState, StackDistinct(c),
         NEW top \in 0 .. InfBucket - 1, NEW k \in {0, 1}, MarkersAt(c, top, k)
  PROVE  Shifted(c, MoveMarkers(c, top), top, k)
<1> DEFINE moved(b) == Previous(c, c.marker[b])
           hits(x)  == {b \in 1 .. top : moved(b) = x}
           m == MoveMarkers(c, top)
<1>k. k \in Nat /\ top \in Nat
  BY MinDistAssumption
<1>t. /\ c.stack \in Seq(Block) /\ Len(c.stack) \in Nat
      /\ c.bucket \in [Block -> Nat]
      /\ c.marker \in [1 .. InfBucket - 1 -> Block \cup {NoNode}]
      /\ InfBucket \in Nat \ {0}
      /\ \A i \in 1 .. Len(c.stack) : c.stack[i] \in Block
  BY MinDistAssumption, LenProperties, ElementOfSeq DEF CacheSimState
<1>1. \A b \in 1 .. top : /\ MinDist[b] + k \in 1 .. Len(c.stack)
                          /\ moved(b) = c.stack[MinDist[b] + k]
  <2> TAKE b \in 1 .. top
  <2>1. MinDist[b] \in Nat \ {0}
    BY MinDistPositive, <1>t
  <2>p. /\ MinDist[b] + k + 1 \in 1 .. Len(c.stack)
        /\ c.marker[b] = c.stack[MinDist[b] + k + 1]
    <3>1. MinDist[b] + k + 1 <= Len(c.stack) /\ c.marker[b] = c.stack[MinDist[b] + k + 1]
      BY DEF MarkersAt
    <3>2. QED
      BY <3>1, <2>1, <1>k, <1>t
  <2> DEFINE at == MinDist[b] + k + 1
  <2>q. at \in 1 .. Len(c.stack) /\ c.marker[b] = c.stack[at]
    BY <2>p
  <2> HIDE DEF at
  <2>r. Position(c, c.stack[at]) = at
    BY <2>q, PositionUnique
  <2>2. Position(c, c.marker[b]) = MinDist[b] + k + 1
    BY <2>q, <2>r DEF at
  <2>3. MinDist[b] + k + 1 <= Len(c.stack) /\ (MinDist[b] + k + 1) - 1 = MinDist[b] + k
    BY <2>1, <1>k DEF MarkersAt
  <2>4. MinDist[b] + k \in 1 .. Len(c.stack)
    BY <2>1, <2>3, <1>k, <1>t
  <2>5. moved(b) = c.stack[Position(c, c.marker[b]) - 1]
    BY DEF Previous
  <2>6. QED
    BY <2>2, <2>3, <2>4, <2>5
<1> HIDE DEF moved
<1>2. \A b1, b2 \in 1 .. top : moved(b1) = moved(b2) => b1 = b2
  <2> SUFFICES ASSUME NEW b1 \in 1 .. top, NEW b2 \in 1 .. top, moved(b1) = moved(b2)
               PROVE  b1 = b2
    OBVIOUS
  <2>0. /\ MinDist[b1] + k \in 1 .. Len(c.stack)
        /\ MinDist[b2] + k \in 1 .. Len(c.stack)
        /\ c.stack[MinDist[b1] + k] = c.stack[MinDist[b2] + k]
    BY <1>1
  <2>1. MinDist[b1] + k = MinDist[b2] + k
    BY <2>0 DEF StackDistinct
  <2>2. MinDist[b1] \in Nat /\ MinDist[b2] \in Nat
    BY MinDistPositive, <1>t
  <2>3. QED
    BY <2>1, <2>2, <1>k, MinDistAssumption
<1>3. \A x : Cardinality(hits(x)) = IF \E b \in 1 .. top : moved(b) = x THEN 1 ELSE 0
  <2> TAKE x
  <2>1. CASE \E b \in 1 .. top : moved(b) = x
    <3> PICK b \in 1 .. top : moved(b) = x
      BY <2>1
    <3>1. hits(x) = {b}
      BY <1>2
    <3>2. QED
      BY <3>1, <2>1, FS_Singleton
  <2>2. CASE ~ \E b \in 1 .. top : moved(b) = x
    <3>1. hits(x) = {}
      BY <2>2
    <3>2. QED
      BY <3>1, <2>2, FS_EmptySet
  <2>3. QED
    BY <2>1, <2>2
<1>4. m = [c EXCEPT !.marker = [b \in DOMAIN c.marker |-> IF b <= top THEN moved(b) ELSE c.marker[b]],
                    !.bucket = [x \in Block |-> c.bucket[x] + Cardinality(hits(x))]]
  BY DEF MoveMarkers, moved
<1> HIDE DEF hits, m
<1>5. /\ m.stack = c.stack
      /\ m.next_bucket = c.next_bucket
      /\ m.count = c.count
      /\ m.marker = [b \in 1 .. InfBucket - 1 |-> IF b <= top THEN moved(b) ELSE c.marker[b]]
      /\ m.bucket = [x \in Block |-> c.bucket[x] + Cardinality(hits(x))]
  BY <1>4, <1>t DEF CacheSimState
<1>6. \A b \in 1 .. InfBucket - 1 :
        m.marker[b] = IF b <= top THEN c.stack[MinDist[b] + k] ELSE c.marker[b]
  BY <1>5, <1>1
<1>7. \A i \in 1 .. Len(c.stack) :
        m.bucket[c.stack[i]] = c.bucket[c.stack[i]] +
          (IF \E b \in 1 .. top : MinDist[b] + k = i THEN 1 ELSE 0)
  <2> TAKE i \in 1 .. Len(c.stack)
  <2>1. (\E b \in 1 .. top : moved(b) = c.stack[i]) <=> \E b \in 1 .. top : MinDist[b] + k = i
    BY <1>1 DEF StackDistinct
  <2>2. m.bucket[c.stack[i]] = c.bucket[c.stack[i]] + Cardinality(hits(c.stack[i]))
    BY <1>5, <1>t
  <2>3. Cardinality(hits(c.stack[i])) = IF \E b \in 1 .. top : moved(b) = c.stack[i] THEN 1 ELSE 0
    BY <1>3
  <2>4. QED
    BY <2>1, <2>2, <2>3
<1>8. \A x \in Block : ~OnStack(c, x) => m.bucket[x] = c.bucket[x]
  <2> SUFFICES ASSUME NEW x \in Block, ~OnStack(c, x)
               PROVE  m.bucket[x] = c.bucket[x]
    OBVIOUS
  <2>1. ~ \E b \in 1 .. top : moved(b) = x
    BY <1>1 DEF OnStack
  <2>2. Cardinality(hits(x)) = 0
    BY <2>1, <1>3
  <2>3. m.bucket[x] = c.bucket[x] + Cardinality(hits(x)) /\ c.bucket[x] \in Nat
    BY <1>5, <1>t
  <2>4. QED
    BY <2>2, <2>3
<1>9. m \in CacheSimState
  <2>1. m.bucket \in [Block -> Nat]
    <3>1. \A x \in Block : Cardinality(hits(x)) \in {0, 1}
      BY <1>3
    <3>2. QED
      BY <3>1, <1>5, <1>t
  <2>2. m.marker \in [1 .. InfBucket - 1 -> Block \cup {NoNode}]
    <3> SUFFICES ASSUME NEW b \in 1 .. InfBucket - 1
                 PROVE  (IF b <= top THEN moved(b) ELSE c.marker[b]) \in Block \cup {NoNode}
      BY <1>5
    <3>1. CASE b <= top
      <4>1. b \in 1 .. top
        BY <3>1, <1>k, <1>t
      <4>2. QED
        BY <4>1, <3>1, <1>1, <1>t
    <3>2. CASE ~ (b <= top)
      BY <3>2, <1>t
    <3>3. QED
      BY <3>1, <3>2
  <2>3. QED
    BY <2>1, <2>2, <1>4 DEF CacheSimState
<1>10. QED
  BY <1>5, <1>6, <1>7, <1>8, <1>9 DEF m, Shifted

-----------------------------------------------------------------------------
\* A node that goes one step down, from distance d to d + 1, changes its
\* bucket exactly when d + 1 is the minimum distance of an active bucket, and
\* then by one.
LEMMA BucketStep ==
  ASSUME NEW top \in 0 .. InfBucket - 1, NEW d \in Nat, NEW old \in 0 .. top,
         \A b \in 1 .. top : b <= old <=> MinDist[b] <= d,
         NEW new, new = old + (IF \E b \in 1 .. top : MinDist[b] = d + 1 THEN 1 ELSE 0)
  PROVE  /\ new \in 0 .. top
         /\ \A b \in 1 .. top : b <= new <=> MinDist[b] <= d + 1
<1>t. /\ top \in Nat /\ old \in Nat
      /\ \A b \in 1 .. top : b \in Nat /\ MinDist[b] \in Nat \ {0}
      /\ \A a, b \in 1 .. top : a < b => MinDist[a] < MinDist[b]
  BY MinDistAssumption
<1>1. CASE \E b \in 1 .. top : MinDist[b] = d + 1
  <2> PICK b0 \in 1 .. top : MinDist[b0] = d + 1
    BY <1>1
  <2>1. ~ (b0 <= old)
    BY <1>t
  <2>2. b0 - 1 <= old
    <3>1. CASE b0 = 1
      BY <3>1, <1>t
    <3>2. CASE b0 # 1
      <4>1. b0 - 1 \in 1 .. top /\ b0 - 1 < b0
        BY <3>2, <1>t
      <4>2. MinDist[b0 - 1] < d + 1
        BY <4>1, <1>t
      <4>3. MinDist[b0 - 1] <= d
        BY <4>1, <4>2, <1>t
      <4>4. QED
        BY <4>1, <4>3
    <3>3. QED
      BY <3>1, <3>2
  <2>3. new = b0
    BY <1>1, <2>1, <2>2, <1>t
  <2>4. \A b \in 1 .. top : b <= b0 <=> MinDist[b] <= d + 1
    <3> TAKE b \in 1 .. top
    <3>1. (b < b0 => MinDist[b] < MinDist[b0]) /\ (b0 < b => MinDist[b0] < MinDist[b])
      BY <1>t
    <3>2. b < b0 \/ b = b0 \/ b0 < b
      BY <1>t
    <3>3. b \in Nat /\ b0 \in Nat /\ MinDist[b] \in Nat /\ MinDist[b0] = d + 1
      BY <1>t
    <3>4. QED
      BY <3>1, <3>2, <3>3
  <2>5. QED
    BY <2>3, <2>4, <1>t
<1>2. CASE ~ \E b \in 1 .. top : MinDist[b] = d + 1
  <2>1. new = old
    BY <1>2, <1>t
  <2>2. \A b \in 1 .. top : MinDist[b] <= d <=> MinDist[b] <= d + 1
    BY <1>2, <1>t
  <2>3. QED
    BY <2>1, <2>2
<1>3. QED
  BY <1>1, <1>2

\* push_front of a block that has no node yet.
LEMMA PushFrontState ==
  ASSUME NEW c \in CacheSimState, StackDistinct(c), NEW x \in Block, ~OnStack(c, x)
  PROVE  LET q == PushFront(c, x)
         IN  /\ q \in CacheSimState
             /\ StackDistinct(q)
             /\ Len(q.stack) = Len(c.stack) + 1
             /\ q.stack[1] = x
             /\ \A i \in 1 .. Len(c.stack) : q.stack[i + 1] = c.stack[i]
             /\ q.marker = c.marker /\ q.next_bucket = c.next_bucket /\ q.count = c.count
             /\ q.bucket[x] = 0
             /\ \A i \in 1 .. Len(c.stack) : q.bucket[c.stack[i]] = c.bucket[c.stack[i]]
<1> DEFINE q == PushFront(c, x)
<1>1. /\ c.stack \in Seq(Block) /\ Len(c.stack) \in Nat /\ c.bucket \in [Block -> Nat]
      /\ \A i \in 1 .. Len(c.stack) : c.stack[i] \in Block
  BY LenProperties, ElementOfSeq DEF CacheSimState
<1>2. /\ q.stack = << x >> \o c.stack
      /\ q.bucket = [c.bucket EXCEPT ![x] = 0]
      /\ q.marker = c.marker /\ q.next_bucket = c.next_bucket /\ q.count = c.count
  BY DEF PushFront, CacheSimState
<1>3. /\ q.stack \in Seq(Block)
      /\ Len(q.stack) = Len(c.stack) + 1
      /\ q.stack[1] = x
      /\ \A i \in 1 .. Len(c.stack) : q.stack[i + 1] = c.stack[i]
  <2>1. << x >> \in Seq(Block) /\ Len(<< x >>) = 1 /\ << x >>[1] = x
    OBVIOUS
  <2>2. QED
    BY <1>1, <1>2, <2>1, ConcatProperties
<1>4. StackDistinct(q)
  <2> SUFFICES ASSUME NEW i \in 1 .. Len(q.stack), NEW j \in 1 .. Len(q.stack),
                      q.stack[i] = q.stack[j]
               PROVE  i = j
    BY DEF StackDistinct
  <2>1. \A n \in 1 .. Len(q.stack) : n # 1 => /\ n - 1 \in 1 .. Len(c.stack)
                                               /\ q.stack[n] = c.stack[n - 1]
                                               /\ q.stack[n] # x
    <3> SUFFICES ASSUME NEW n \in 1 .. Len(q.stack), n # 1
                 PROVE  /\ n - 1 \in 1 .. Len(c.stack)
                        /\ q.stack[n] = c.stack[n - 1]
                        /\ q.stack[n] # x
      OBVIOUS
    <3>1. n - 1 \in 1 .. Len(c.stack) /\ (n - 1) + 1 = n
      BY <1>3, <1>1
    <3>2. q.stack[(n - 1) + 1] = c.stack[n - 1]
      BY <3>1, <1>3
    <3>3. QED
      BY <3>1, <3>2 DEF OnStack
  <2>2. CASE i = 1 \/ j = 1
    BY <2>1, <2>2, <1>3
  <2>3. CASE i # 1 /\ j # 1
    <3>1. i - 1 = j - 1
      BY <2>1, <2>3 DEF StackDistinct
    <3>2. QED
      BY <3>1, <1>3, <1>1
  <2>4. QED
    BY <2>2, <2>3
<1>5. q \in CacheSimState
  BY <1>2, <1>3 DEF CacheSimState, PushFront
<1>6. \A i \in 1 .. Len(c.stack) : c.stack[i] # x
  BY DEF OnStack
<1>7. QED
  BY <1>1, <1>2, <1>3, <1>4, <1>5, <1>6

\* on_next_bucket_gets_active, called when the stack has just become deep
\* enough for the next bucket: the last node is the one its marker wants.
LEMMA ActivationConsistent ==
  ASSUME NEW m \in CacheSimState, StackDistinct(m), MarkersInPlace(m), BucketsInPlace(m),
         m.next_bucket # InfBucket, Len(m.stack) = MinDist[m.next_bucket] + 1
  PROVE  LET r == OnNextBucketGetsActive(m)
         IN  Consistent(r) /\ r.stack = m.stack /\ r.count = m.count
<1> DEFINE r == OnNextBucketGetsActive(m)
           nx == m.next_bucket
           n == Len(m.stack)
           last == m.stack[n]
<1>s. /\ m.stack \in Seq(Block) /\ m.bucket \in [Block -> Nat] /\ nx \in 1 .. InfBucket
      /\ m.marker \in [1 .. InfBucket - 1 -> Block \cup {NoNode}]
  BY DEF CacheSimState
<1>r. /\ r.stack = m.stack /\ r.count = m.count
      /\ r.marker = [m.marker EXCEPT ![nx] = last]
      /\ r.bucket = [m.bucket EXCEPT ![last] = @ + 1]
      /\ r.next_bucket = nx + 1
  <2> DEFINE mm == [m.marker EXCEPT ![nx] = last]
             bb == [m.bucket EXCEPT ![last] = @ + 1]
  <2>1. r = [m EXCEPT !.marker = mm, !.bucket = bb, !.next_bucket = nx + 1]
    BY DEF OnNextBucketGetsActive
  <2> HIDE DEF mm, bb, r
  <2>2. /\ r.stack = m.stack /\ r.count = m.count /\ r.marker = mm /\ r.bucket = bb
        /\ r.next_bucket = nx + 1
    BY <2>1 DEF CacheSimState
  <2>3. QED
    BY <2>2 DEF mm, bb
<1>l. n = MinDist[nx] + 1
  OBVIOUS
<1> HIDE DEF r, nx, n, last
<1>t. /\ n \in Nat /\ nx \in 1 .. InfBucket - 1 /\ InfBucket \in Nat
      /\ \A i \in 1 .. n : m.stack[i] \in Block
      /\ (nx + 1) - 1 = nx /\ nx - 1 \in Nat
      /\ \A b \in 1 .. nx : b \in Nat /\ (b = nx \/ b \in 1 .. nx - 1)
  <2>1. nx # InfBucket
    BY DEF nx
  <2>2. n \in Nat /\ \A i \in 1 .. n : m.stack[i] \in Block
    BY <1>s, LenProperties, ElementOfSeq DEF n
  <2>3. QED
    BY <1>s, <2>1, <2>2, MinDistAssumption
<1>n. /\ MinDist[nx] \in Nat \ {0} /\ n \in 1 .. n /\ n - 1 = MinDist[nx]
      /\ last \in Block
  <2>1. MinDist[nx] \in Nat \ {0}
    BY <1>t, MinDistPositive
  <2>2. n \in 1 .. n /\ n - 1 = MinDist[nx]
    BY <2>1, <1>l, <1>t
  <2>3. QED
    BY <2>1, <2>2, <1>t DEF last
<1>0. \A b \in 1 .. nx - 1 : MinDist[b] \in Nat /\ MinDist[b] < MinDist[nx]
  BY MinDistAssumption, <1>t
<1>1. r \in CacheSimState
  <2>1. /\ r.marker \in [1 .. InfBucket - 1 -> Block \cup {NoNode}]
        /\ r.bucket \in [Block -> Nat]
        /\ r.next_bucket \in 1 .. InfBucket
    BY <1>s, <1>t, <1>n, <1>r
  <2>2. QED
    BY <2>1 DEF CacheSimState, OnNextBucketGetsActive, r
<1>2. StackDistinct(r)
  BY <1>r DEF StackDistinct
<1>3. MarkersInPlace(r)
  <2> SUFFICES ASSUME NEW b \in 1 .. nx
               PROVE  MinDist[b] < n /\ r.marker[b] = m.stack[MinDist[b] + 1]
    BY <1>r, <1>s, <1>t DEF MarkersInPlace, n
  <2>1. CASE b = nx
    <3>1. r.marker[nx] = last
      BY <1>r, <1>s, <1>t
    <3>2. MinDist[nx] < n
      BY <1>l, <1>n
    <3>3. last = m.stack[MinDist[nx] + 1]
      BY <1>l DEF last
    <3>4. QED
      BY <2>1, <3>1, <3>2, <3>3
  <2>2. CASE b # nx
    <3>1. b \in 1 .. nx - 1 /\ b \in 1 .. InfBucket - 1
      BY <2>2, <1>t
    <3>2. MinDist[b] < n /\ m.marker[b] = m.stack[MinDist[b] + 1]
      BY <3>1 DEF MarkersInPlace, nx, n
    <3>3. QED
      BY <3>1, <3>2, <2>2, <1>r, <1>t
  <2>3. QED
    BY <2>1, <2>2
<1>4. ActiveBuckets(r)
  <2> SUFFICES ASSUME nx + 1 # InfBucket
               PROVE  n <= MinDist[nx + 1]
    BY <1>r DEF ActiveBuckets, n
  <2>1. nx + 1 \in 1 .. InfBucket - 1
    BY <1>t
  <2>2. MinDist[nx] < MinDist[nx + 1] /\ MinDist[nx + 1] \in Nat
    BY <2>1, <1>t, MinDistAssumption
  <2>3. QED
    BY <2>2, <1>n, <1>t
<1>5. m.bucket[last] = nx - 1
  <2>1. /\ m.bucket[last] \in 0 .. nx - 1
        /\ \A b \in 1 .. nx - 1 : b <= m.bucket[last] <=> MinDist[b] <= n - 1
    BY <1>n DEF BucketsInPlace, nx, n, last
  <2>2. \A b \in 1 .. nx - 1 : b <= m.bucket[last]
    <3>1. \A b \in 1 .. nx - 1 : MinDist[b] <= n - 1
      BY <1>n, <1>0
    <3>2. QED
      BY <3>1, <2>1
  <2>3. CASE nx = 1
    BY <2>1, <2>3, <1>t
  <2>4. CASE nx # 1
    <3>1. nx - 1 \in 1 .. nx - 1
      BY <2>4, <1>t
    <3>2. QED
      BY <3>1, <2>1, <2>2, <1>t
  <2>5. QED
    BY <2>3, <2>4
<1>6. BucketsInPlace(r)
  <2> SUFFICES ASSUME NEW i \in 1 .. n
               PROVE  /\ r.bucket[m.stack[i]] \in 0 .. nx
                      /\ \A b \in 1 .. nx : b <= r.bucket[m.stack[i]] <=> MinDist[b] <= i - 1
    BY <1>r, <1>s, <1>t DEF BucketsInPlace, n
  <2>1. CASE i = n
    <3>1. r.bucket[m.stack[i]] = nx
      BY <2>1, <1>5, <1>r, <1>s, <1>n, <1>t DEF last
    <3>2. \A b \in 1 .. nx : MinDist[b] <= i - 1
      <4> TAKE b \in 1 .. nx
      <4>1. CASE b = nx
        BY <4>1, <2>1, <1>n
      <4>2. CASE b \in 1 .. nx - 1
        BY <4>2, <2>1, <1>0, <1>n
      <4>3. QED
        BY <4>1, <4>2, <1>t
    <3>3. QED
      BY <3>1, <3>2, <1>t
  <2>2. CASE i # n
    <3>1. m.stack[i] # last
      BY <2>2, <1>n DEF StackDistinct, n, last
    <3>2. r.bucket[m.stack[i]] = m.bucket[m.stack[i]]
      BY <3>1, <1>r, <1>t
    <3>3. /\ m.bucket[m.stack[i]] \in 0 .. nx - 1
          /\ \A b \in 1 .. nx - 1 : b <= m.bucket[m.stack[i]] <=> MinDist[b] <= i - 1
      BY DEF BucketsInPlace, nx, n
    <3>4. ~ (MinDist[nx] <= i - 1)
      BY <2>2, <1>n, <1>t
    <3>5. m.bucket[m.stack[i]] \in 0 .. nx /\ ~ (nx <= m.bucket[m.stack[i]])
      BY <3>3, <1>t
    <3>6. \A b \in 1 .. nx : b <= m.bucket[m.stack[i]] <=> MinDist[b] <= i - 1
      <4> TAKE b \in 1 .. nx
      <4>1. CASE b = nx
        BY <4>1, <3>4, <3>5
      <4>2. CASE b \in 1 .. nx - 1
        BY <4>2, <3>3
      <4>3. QED
        BY <4>1, <4>2, <1>t
    <3>7. QED
      BY <3>2, <3>5, <3>6
  <2>3. QED
    BY <2>1, <2>2
<1>7. QED
  BY <1>1, <1>2, <1>3, <1>4, <1>6, <1>r DEF Consistent, r

\* on_block_new keeps the simulator consistent and puts the block on top.
LEMMA OnBlockNewConsistent ==
  ASSUME NEW c, Consistent(c), NEW x \in Block, ~OnStack(c, x)
  PROVE  LET r == OnBlockNew(c, x)
         IN  /\ Consistent(r)
             /\ r.count = c.count
             /\ Len(r.stack) = Len(c.stack) + 1
             /\ r.stack[1] = x
             /\ \A i \in 1 .. Len(c.stack) : r.stack[i + 1] = c.stack[i]
<1> DEFINE q == PushFront(c, x)
           top == c.next_bucket - 1
           n == Len(c.stack)
           m == MoveMarkers(q, top)
           r == OnBlockNew(c, x)
<1>c. /\ c \in CacheSimState /\ StackDistinct(c) /\ MarkersInPlace(c)
      /\ ActiveBuckets(c) /\ BucketsInPlace(c)
  BY DEF Consistent
<1>t. /\ c.stack \in Seq(Block) /\ n \in Nat /\ c.next_bucket \in 1 .. InfBucket
      /\ top \in 0 .. InfBucket - 1 /\ top \in Nat /\ InfBucket \in Nat
      /\ \A b \in 1 .. top : MinDist[b] \in Nat \ {0} /\ b \in 1 .. InfBucket - 1
  BY <1>c, MinDistAssumption, MinDistPositive, LenProperties DEF CacheSimState
<1>q. /\ q \in CacheSimState
      /\ StackDistinct(q)
      /\ Len(q.stack) = n + 1
      /\ q.stack[1] = x
      /\ \A i \in 1 .. n : q.stack[i + 1] = c.stack[i]
      /\ q.marker = c.marker /\ q.next_bucket = c.next_bucket /\ q.count = c.count
      /\ q.bucket[x] = 0
      /\ \A i \in 1 .. n : q.bucket[c.stack[i]] = c.bucket[c.stack[i]]
  BY <1>c, PushFrontState
<1>i. \A i \in 1 .. n + 1 : i = 1 \/ \E j \in 1 .. n : i = j + 1
  <2> SUFFICES ASSUME NEW i \in 1 .. n + 1, i # 1
               PROVE  \E j \in 1 .. n : i = j + 1
    OBVIOUS
  <2>1. i - 1 \in 1 .. n /\ i = (i - 1) + 1
    BY <1>t
  <2>2. QED
    BY <2>1
<1> HIDE DEF q, top, n
<1>1. MarkersAt(q, top, 1)
  <2> SUFFICES ASSUME NEW b \in 1 .. top
               PROVE  /\ MinDist[b] + 1 + 1 <= Len(q.stack)
                      /\ q.marker[b] = q.stack[MinDist[b] + 1 + 1]
    BY DEF MarkersAt
  <2>1. MinDist[b] < n /\ c.marker[b] = c.stack[MinDist[b] + 1]
    BY <1>c DEF MarkersInPlace, top, n
  <2>2. MinDist[b] + 1 \in 1 .. n
    BY <2>1, <1>t
  <2>3. q.stack[(MinDist[b] + 1) + 1] = c.stack[MinDist[b] + 1]
    BY <2>2, <1>q
  <2>4. QED
    BY <2>1, <2>2, <2>3, <1>q, <1>t
<1>m. Shifted(q, m, top, 1)
  BY <1>1, <1>q, <1>t, MoveMarkersShifts
<1>2. /\ m \in CacheSimState
      /\ m.stack = q.stack
      /\ m.next_bucket = q.next_bucket
      /\ m.count = q.count
      /\ \A b \in 1 .. InfBucket - 1 :
           m.marker[b] = IF b <= top THEN q.stack[MinDist[b] + 1] ELSE q.marker[b]
      /\ \A i \in 1 .. Len(q.stack) :
           m.bucket[q.stack[i]] = q.bucket[q.stack[i]] +
             (IF \E b \in 1 .. top : MinDist[b] + 1 = i THEN 1 ELSE 0)
  BY <1>m DEF Shifted
<1> HIDE DEF m
<1>3. StackDistinct(m)
  BY <1>2, <1>q DEF StackDistinct
<1>4. MarkersInPlace(m)
  <2> SUFFICES ASSUME NEW b \in 1 .. top
               PROVE  MinDist[b] < Len(m.stack) /\ m.marker[b] = m.stack[MinDist[b] + 1]
    BY <1>2, <1>q DEF MarkersInPlace, top
  <2>1. MinDist[b] + 1 + 1 <= Len(q.stack)
    BY <1>1 DEF MarkersAt
  <2>2. QED
    BY <2>1, <1>2, <1>q, <1>t
<1>5. BucketsInPlace(m)
  <2> SUFFICES ASSUME NEW i \in 1 .. n + 1
               PROVE  /\ m.bucket[q.stack[i]] \in 0 .. top
                      /\ \A b \in 1 .. top : b <= m.bucket[q.stack[i]] <=> MinDist[b] <= i - 1
    BY <1>2, <1>q DEF BucketsInPlace, top
  <2>1. m.bucket[q.stack[i]] = q.bucket[q.stack[i]] +
          (IF \E b \in 1 .. top : MinDist[b] + 1 = i THEN 1 ELSE 0)
    BY <1>2, <1>q
  <2>2. CASE i = 1
    <3>1. ~ \E b \in 1 .. top : MinDist[b] + 1 = 1
      BY <1>t
    <3>2. m.bucket[q.stack[i]] = 0
      BY <3>1, <2>1, <2>2, <1>q
    <3>3. QED
      BY <3>2, <2>2, <1>t
  <2>3. CASE i # 1
    <3>0. PICK j \in 1 .. n : i = j + 1
      BY <2>3, <1>i
    <3>1. q.stack[i] = c.stack[j] /\ q.bucket[q.stack[i]] = c.bucket[c.stack[j]]
      BY <3>0, <1>q
    <3>2. /\ c.bucket[c.stack[j]] \in 0 .. top
          /\ \A b \in 1 .. top : b <= c.bucket[c.stack[j]] <=> MinDist[b] <= j - 1
      BY <1>c DEF BucketsInPlace, top, n
    <3>3. (\E b \in 1 .. top : MinDist[b] + 1 = i) <=> (\E b \in 1 .. top : MinDist[b] = (j - 1) + 1)
      BY <3>0, <1>t
    <3>4. m.bucket[q.stack[i]] = c.bucket[c.stack[j]] +
            (IF \E b \in 1 .. top : MinDist[b] = (j - 1) + 1 THEN 1 ELSE 0)
      BY <2>1, <3>1, <3>3
    <3>5. j - 1 \in Nat /\ (j - 1) + 1 = i - 1
      BY <3>0, <1>t
    <3> DEFINE old == c.bucket[c.stack[j]]
               d == j - 1
    <3>8. old \in 0 .. top /\ d \in Nat /\ top \in 0 .. InfBucket - 1
      BY <3>2, <3>5, <1>t
    <3>9. \A b \in 1 .. top : b <= old <=> MinDist[b] <= d
      BY <3>2
    <3>10. m.bucket[q.stack[i]] = old + (IF \E b \in 1 .. top : MinDist[b] = d + 1 THEN 1 ELSE 0)
      BY <3>4
    <3> HIDE DEF old, d
    <3>6. /\ m.bucket[q.stack[i]] \in 0 .. top
          /\ \A b \in 1 .. top : b <= m.bucket[q.stack[i]] <=> MinDist[b] <= d + 1
      BY <3>8, <3>9, <3>10, BucketStep
    <3>7. QED
      BY <3>5, <3>6 DEF d
  <2>4. QED
    BY <2>2, <2>3
<1>6. /\ Len(m.stack) = n + 1 /\ m.stack[1] = x /\ m.count = c.count
      /\ \A i \in 1 .. n : m.stack[i + 1] = c.stack[i]
      /\ m.next_bucket = c.next_bucket
  BY <1>2, <1>q
<1>7. r = IF m.next_bucket # InfBucket /\ Len(m.stack) > MinDist[m.next_bucket]
          THEN OnNextBucketGetsActive(m) ELSE m
  BY DEF OnBlockNew, m, q, top
<1>b. m.next_bucket # InfBucket => MinDist[m.next_bucket] \in Nat /\ n <= MinDist[m.next_bucket]
  <2>1. m.next_bucket # InfBucket => m.next_bucket \in 1 .. InfBucket - 1
    BY <1>6, <1>t
  <2>2. QED
    BY <2>1, <1>6, <1>c, MinDistPositive DEF ActiveBuckets, n
<1>8. CASE m.next_bucket # InfBucket /\ Len(m.stack) > MinDist[m.next_bucket]
  <2>1. Len(m.stack) = MinDist[m.next_bucket] + 1
    BY <1>8, <1>b, <1>6, <1>t
  <2>2. Consistent(r) /\ r.stack = m.stack /\ r.count = m.count
    BY <2>1, <1>8, <1>7, <1>2, <1>3, <1>4, <1>5, ActivationConsistent
  <2>3. QED
    BY <2>2, <1>6 DEF n
<1>9. CASE ~ (m.next_bucket # InfBucket /\ Len(m.stack) > MinDist[m.next_bucket])
  <2>1. ActiveBuckets(m)
    BY <1>9, <1>b, <1>6, <1>t DEF ActiveBuckets
  <2>2. Consistent(m) /\ r = m
    BY <2>1, <1>9, <1>7, <1>2, <1>3, <1>4, <1>5 DEF Consistent
  <2>3. QED
    BY <2>2, <1>6 DEF n
<1>10. QED
  BY <1>8, <1>9

-----------------------------------------------------------------------------
\* t is s with its element number p in front.
InFront(s, t, p) ==
  /\ Len(t) = Len(s)
  /\ t[1] = s[p]
  /\ \A i \in 1 .. p - 1 : t[i + 1] = s[i]
  /\ \A i \in p + 1 .. Len(s) : t[i] = s[i]

\* The splice of on_block_seen.
LEMMA MoveToFrontElements ==
  ASSUME NEW s \in Seq(Block), NEW p \in 1 .. Len(s)
  PROVE  MoveToFront(s, p) \in Seq(Block) /\ InFront(s, MoveToFront(s, p), p)
<1> DEFINE h == << s[p] >>
           u == SubSeq(s, 1, p - 1)
           v == SubSeq(s, p + 1, Len(s))
           t == MoveToFront(s, p)
<1>t. /\ Len(s) \in Nat /\ p \in Nat /\ p \in Int /\ Len(s) \in Int
      /\ \A i \in 1 .. Len(s) : s[i] \in Block
  BY LenProperties, ElementOfSeq
<1>1. h \in Seq(Block) /\ Len(h) = 1 /\ h[1] = s[p]
  BY <1>t
<1>2. u \in Seq(Block) /\ Len(u) = p - 1 /\ \A i \in 1 .. p - 1 : u[i] = s[i]
  <2>1. /\ SubSeq(s, 1, p - 1) \in Seq(Block)
        /\ Len(SubSeq(s, 1, p - 1)) = IF 1 <= p - 1 THEN (p - 1) - 1 + 1 ELSE 0
        /\ \A i \in 1 .. (p - 1) - 1 + 1 : SubSeq(s, 1, p - 1)[i] = s[1 + i - 1]
    BY <1>t, SubSeqProperties
  <2> HIDE DEF u
  <2>2. u \in Seq(Block)
    BY <2>1 DEF u
  <2>3. Len(u) = p - 1
    BY <2>1, <1>t DEF u
  <2>4. \A i \in 1 .. p - 1 : i \in 1 .. (p - 1) - 1 + 1 /\ 1 + i - 1 = i
    BY <1>t
  <2>5. QED
    BY <2>1, <2>2, <2>3, <2>4 DEF u
<1>3. v \in Seq(Block) /\ Len(v) = Len(s) - p /\ \A i \in 1 .. Len(s) - p : v[i] = s[p + i]
  <2>1. /\ SubSeq(s, p + 1, Len(s)) \in Seq(Block)
        /\ Len(SubSeq(s, p + 1, Len(s))) = IF p + 1 <= Len(s) THEN Len(s) - (p + 1) + 1 ELSE 0
        /\ \A i \in 1 .. Len(s) - (p + 1) + 1 : SubSeq(s, p + 1, Len(s))[i] = s[(p + 1) + i - 1]
    BY <1>t, SubSeqProperties
  <2> HIDE DEF v
  <2>2. v \in Seq(Block)
    BY <2>1 DEF v
  <2>3. Len(v) = Len(s) - p
    BY <2>1, <1>t DEF v
  <2>4. \A i \in 1 .. Len(s) - p : i \in 1 .. Len(s) - (p + 1) + 1 /\ (p + 1) + i - 1 = p + i
    BY <1>t
  <2>5. QED
    BY <2>1, <2>2, <2>3, <2>4 DEF v
<1> HIDE DEF h, u, v
<1>4. t = (h \o u) \o v
  BY DEF MoveToFront, h, u, v
<1> HIDE DEF t
<1>5. /\ h \o u \in Seq(Block) /\ Len(h \o u) = p
      /\ (h \o u)[1] = s[p]
      /\ \A i \in 1 .. p - 1 : (h \o u)[i + 1] = s[i]
  <2>1. /\ h \o u \in Seq(Block) /\ Len(h \o u) = Len(h) + Len(u)
        /\ \A i \in 1 .. Len(h) + Len(u) : (h \o u)[i] = IF i <= Len(h) THEN h[i] ELSE u[i - Len(h)]
    BY <1>1, <1>2, ConcatProperties
  <2>2. QED
    BY <2>1, <1>1, <1>2, <1>t
<1>6. /\ t \in Seq(Block) /\ Len(t) = Len(s)
      /\ \A i \in 1 .. Len(s) : t[i] = IF i <= p THEN (h \o u)[i] ELSE v[i - p]
  <2> DEFINE w == h \o u
  <2>w. w \in Seq(Block) /\ Len(w) = p /\ t = w \o v
    BY <1>4, <1>5
  <2> HIDE DEF w
  <2>1. /\ w \o v \in Seq(Block) /\ Len(w \o v) = Len(w) + Len(v)
        /\ \A i \in 1 .. Len(w) + Len(v) : (w \o v)[i] = IF i <= Len(w) THEN w[i] ELSE v[i - Len(w)]
    BY <2>w, <1>3, ConcatProperties
  <2>2. Len(w) + Len(v) = Len(s)
    BY <2>w, <1>3, <1>t
  <2>3. QED
    BY <2>1, <2>2, <2>w DEF w
<1>7. \A i \in p + 1 .. Len(s) : t[i] = s[i]
  <2> TAKE i \in p + 1 .. Len(s)
  <2>1. i - p \in 1 .. Len(s) - p /\ p + (i - p) = i /\ i \in 1 .. Len(s) /\ ~ (i <= p)
    BY <1>t
  <2>2. QED
    BY <2>1, <1>3, <1>6
<1>8. t[1] = s[p] /\ \A i \in 1 .. p - 1 : t[i + 1] = s[i]
  <2>1. 1 \in 1 .. Len(s) /\ 1 <= p
    BY <1>t
  <2>2. \A i \in 1 .. p - 1 : i + 1 \in 1 .. Len(s) /\ i + 1 <= p
    BY <1>t
  <2>3. QED
    BY <2>1, <2>2, <1>5, <1>6
<1>9. QED
  BY <1>6, <1>7, <1>8 DEF InFront, t

\* Every position of the stack after the splice, and the one it came from.
LEMMA InFrontPositions ==
  ASSUME NEW s \in Seq(Block), NEW t \in Seq(Block), NEW p \in 1 .. Len(s), InFront(s, t, p),
         NEW i \in 1 .. Len(s)
  PROVE  \/ i = 1 /\ t[i] = s[p]
         \/ i - 1 \in 1 .. p - 1 /\ t[i] = s[i - 1]
         \/ i \in p + 1 .. Len(s) /\ t[i] = s[i]
<1>t. Len(s) \in Nat
  BY LenProperties
<1>1. CASE i = 1
  BY <1>1 DEF InFront
<1>2. CASE i # 1 /\ i <= p
  <2>1. i - 1 \in 1 .. p - 1 /\ (i - 1) + 1 = i
    BY <1>2, <1>t
  <2>2. QED
    BY <2>1 DEF InFront
<1>3. CASE p < i
  BY <1>3, <1>t DEF InFront
<1>4. QED
  BY <1>1, <1>2, <1>3, <1>t

LEMMA InFrontDistinct ==
  ASSUME NEW c, c.stack \in Seq(Block), StackDistinct(c), NEW p \in 1 .. Len(c.stack),
         NEW r, r.stack \in Seq(Block), InFront(c.stack, r.stack, p)
  PROVE  StackDistinct(r)
<1>t. Len(c.stack) \in Nat /\ Len(r.stack) = Len(c.stack)
  BY LenProperties DEF InFront
<1> SUFFICES ASSUME NEW i \in 1 .. Len(c.stack), NEW j \in 1 .. Len(c.stack),
                    r.stack[i] = r.stack[j]
             PROVE  i = j
  BY <1>t DEF StackDistinct
<1> DEFINE from(a) == IF a = 1 THEN p ELSE IF a <= p THEN a - 1 ELSE a
<1>1. \A a \in 1 .. Len(c.stack) : from(a) \in 1 .. Len(c.stack) /\ r.stack[a] = c.stack[from(a)]
  <2> TAKE a \in 1 .. Len(c.stack)
  <2>1. \/ a = 1 /\ r.stack[a] = c.stack[p]
        \/ a - 1 \in 1 .. p - 1 /\ r.stack[a] = c.stack[a - 1]
        \/ a \in p + 1 .. Len(c.stack) /\ r.stack[a] = c.stack[a]
    BY InFrontPositions
  <2>2. QED
    BY <2>1, <1>t
<1>2. from(i) = from(j)
  <2>1. from(i) \in 1 .. Len(c.stack) /\ from(j) \in 1 .. Len(c.stack)
        /\ c.stack[from(i)] = c.stack[from(j)]
    BY <1>1
  <2> HIDE DEF from
  <2>2. QED
    BY <2>1 DEF StackDistinct
<1>3. QED
  BY <1>2, <1>t

\* on_block_seen keeps the simulator consistent and moves the block to the
\* top; the bucket it returns is the one of the block's distance from the top.
LEMMA OnBlockSeenConsistent ==
  ASSUME NEW c, Consistent(c), NEW p \in 1 .. Len(c.stack)
  PROVE  LET r == OnBlockSeen(c, c.stack[p])
         IN  /\ Consistent(r)
             /\ r.count = c.count
             /\ InFront(c.stack, r.stack, p)
<1> DEFINE x == c.stack[p]
           n == Len(c.stack)
           top == c.bucket[x]
           act == c.next_bucket - 1
           m == MoveMarkers(c, top)
           r == OnBlockSeen(c, x)
<1>c. /\ c \in CacheSimState /\ StackDistinct(c) /\ MarkersInPlace(c)
      /\ ActiveBuckets(c) /\ BucketsInPlace(c)
  BY DEF Consistent
<1>s. /\ c.stack \in Seq(Block) /\ c.next_bucket \in 1 .. InfBucket
  BY <1>c DEF CacheSimState
<1>t. /\ n \in Nat /\ p \in 1 .. n /\ p \in Nat /\ x \in Block /\ InfBucket \in Nat
      /\ act \in 0 .. InfBucket - 1 /\ act \in Nat
  <2>1. n \in Nat /\ p \in 1 .. n /\ x \in Block
    BY <1>s, LenProperties, ElementOfSeq
  <2>2. QED
    BY <2>1, <1>s, MinDistAssumption
<1>a. \A b \in 1 .. act : MinDist[b] \in Nat \ {0} /\ b \in 1 .. InfBucket - 1 /\ b \in Nat
  <2>1. \A b \in 1 .. act : b \in 1 .. InfBucket - 1 /\ b \in Nat
    BY <1>t
  <2>2. QED
    BY <2>1, MinDistPositive
<1>b. \A i \in 1 .. n : /\ c.bucket[c.stack[i]] \in 0 .. act
                       /\ \A b \in 1 .. act : b <= c.bucket[c.stack[i]] <=> MinDist[b] <= i - 1
  BY <1>c DEF BucketsInPlace
<1>e. /\ top \in 0 .. act /\ top \in 0 .. InfBucket - 1
      /\ \A b \in 1 .. act : b <= top <=> MinDist[b] <= p - 1
      /\ \A b \in 1 .. top : b \in 1 .. act
  <2>1. top \in 0 .. act /\ \A b \in 1 .. act : b <= top <=> MinDist[b] <= p - 1
    BY <1>b, <1>t
  <2>2. QED
    BY <2>1, <1>t
<1>g. \A b \in 1 .. act : MinDist[b] < n /\ c.marker[b] = c.stack[MinDist[b] + 1]
  BY <1>c DEF MarkersInPlace
<1>1. CASE p = 1
  <2>1. r = c
    BY <1>1 DEF OnBlockSeen
  <2>2. InFront(c.stack, c.stack, p)
    BY <1>1, <1>t DEF InFront
  <2>3. QED
    BY <2>1, <2>2
<1>2. CASE p # 1
  <2>1. x # c.stack[1] /\ Position(c, x) = p
    <3>1. x # c.stack[1]
      BY <1>2, <1>t, <1>c DEF StackDistinct
    <3>2. QED
      BY <3>1, <1>c, PositionUnique
  <2>2. r = [m EXCEPT !.stack = MoveToFront(m.stack, p), !.bucket = [m.bucket EXCEPT ![x] = 0]]
    BY <2>1 DEF OnBlockSeen
  <2> HIDE DEF x, n, top, act, m, r
  <2>3. MarkersAt(c, top, 0)
    <3> SUFFICES ASSUME NEW b \in 1 .. top
                 PROVE  /\ MinDist[b] + 0 + 1 <= Len(c.stack)
                        /\ c.marker[b] = c.stack[MinDist[b] + 0 + 1]
      BY DEF MarkersAt
    <3>1. b \in 1 .. act /\ MinDist[b] \in Nat
      BY <1>e, <1>a
    <3>2. MinDist[b] + 0 + 1 = MinDist[b] + 1
      BY <3>1
    <3>3. QED
      BY <3>1, <3>2, <1>g, <1>t DEF n
  <2>4. Shifted(c, m, top, 0)
    BY <2>3, <1>c, <1>e, MoveMarkersShifts DEF m
  <2>5. /\ m \in CacheSimState
        /\ m.stack = c.stack /\ m.next_bucket = c.next_bucket /\ m.count = c.count
        /\ \A b \in 1 .. act : m.marker[b] = IF b <= top THEN c.stack[MinDist[b]] ELSE c.marker[b]
        /\ \A i \in 1 .. n : m.bucket[c.stack[i]] = c.bucket[c.stack[i]] +
             (IF \E b \in 1 .. top : MinDist[b] = i THEN 1 ELSE 0)
    <3>1. /\ \A b \in 1 .. act : MinDist[b] + 0 = MinDist[b]
          /\ \A b \in 1 .. top : MinDist[b] + 0 = MinDist[b]
      BY <1>a, <1>e
    <3>2. QED
      BY <3>1, <2>4, <1>a DEF Shifted, n
  <2>6. /\ r.stack = MoveToFront(c.stack, p)
        /\ r.bucket = [m.bucket EXCEPT ![x] = 0]
        /\ r.marker = m.marker /\ r.next_bucket = c.next_bucket /\ r.count = c.count
    BY <2>2, <2>5 DEF CacheSimState
  <2>7. /\ r.stack \in Seq(Block)
        /\ InFront(c.stack, r.stack, p)
    BY <2>6, <1>s, MoveToFrontElements
  <2>8. r \in CacheSimState
    <3>1. [m.bucket EXCEPT ![x] = 0] \in [Block -> Nat]
      BY <2>5, <1>t DEF CacheSimState
    <3>2. MoveToFront(m.stack, p) \in Seq(Block)
      BY <2>5, <2>6, <2>7
    <3>3. QED
      BY <3>1, <3>2, <2>2, <2>5 DEF CacheSimState
  <2>9. StackDistinct(r)
    BY <2>7, <1>c, <1>s, InFrontDistinct
  <2>l. Len(r.stack) = n
    BY <2>7 DEF InFront, n
  <2>10. MarkersInPlace(r)
    <3> SUFFICES ASSUME NEW b \in 1 .. act
                 PROVE  MinDist[b] < Len(r.stack) /\ r.marker[b] = r.stack[MinDist[b] + 1]
      BY <2>6 DEF MarkersInPlace, act
    <3>1. CASE b <= top
      <4>1. MinDist[b] \in 1 .. p - 1
        BY <3>1, <1>e, <1>a, <1>t
      <4>2. r.stack[MinDist[b] + 1] = c.stack[MinDist[b]]
        BY <4>1, <2>7 DEF InFront
      <4>3. QED
        BY <4>2, <3>1, <2>5, <2>6, <2>l, <1>g
    <3>2. CASE ~ (b <= top)
      <4>1. MinDist[b] + 1 \in p + 1 .. n
        BY <3>2, <1>e, <1>a, <1>g, <1>t
      <4>2. r.stack[MinDist[b] + 1] = c.stack[MinDist[b] + 1]
        BY <4>1, <2>7 DEF InFront, n
      <4>3. QED
        BY <4>2, <3>2, <2>5, <2>6, <2>l, <1>g
    <3>3. QED
      BY <3>1, <3>2
  <2>11. ActiveBuckets(r)
    BY <2>6, <2>l, <1>c DEF ActiveBuckets, n
  <2>12. BucketsInPlace(r)
    <3> SUFFICES ASSUME NEW i \in 1 .. n
                 PROVE  /\ r.bucket[r.stack[i]] \in 0 .. act
                        /\ \A b \in 1 .. act : b <= r.bucket[r.stack[i]] <=> MinDist[b] <= i - 1
      BY <2>6, <2>l DEF BucketsInPlace, act
    <3>b. m.bucket \in [Block -> Nat] /\ \A j \in 1 .. n : c.stack[j] \in Block
      BY <2>5, <1>s, ElementOfSeq DEF CacheSimState, n
    <3>o. \A j \in 1 .. n : j # p => r.bucket[c.stack[j]] = m.bucket[c.stack[j]]
      <4> SUFFICES ASSUME NEW j \in 1 .. n, j # p
                   PROVE  r.bucket[c.stack[j]] = m.bucket[c.stack[j]]
        OBVIOUS
      <4>1. c.stack[j] # x
        BY <1>c, <1>t DEF StackDistinct, x, n
      <4>2. QED
        BY <4>1, <3>b, <2>6
    <3>1. CASE i = 1 /\ r.stack[i] = c.stack[p]
      <4>1. r.bucket[r.stack[i]] = 0
        BY <3>1, <3>b, <2>6, <1>t DEF x
      <4>2. QED
        BY <4>1, <3>1, <1>a, <1>t
    <3>2. CASE i - 1 \in 1 .. p - 1 /\ r.stack[i] = c.stack[i - 1]
      <4> DEFINE old == c.bucket[c.stack[i - 1]]
                 d == i - 2
      <4>1. i - 1 \in 1 .. n /\ i - 1 # p /\ d \in Nat /\ d + 1 = i - 1 /\ (i - 1) - 1 = d
        BY <3>2, <1>t
      <4>2. old \in 0 .. act /\ \A b \in 1 .. act : b <= old <=> MinDist[b] <= d
        BY <4>1, <1>b
      <4>3. (\E b \in 1 .. top : MinDist[b] = i - 1) <=> (\E b \in 1 .. act : MinDist[b] = d + 1)
        <5>1. ASSUME NEW b \in 1 .. act, MinDist[b] = d + 1
              PROVE  b \in 1 .. top
          <6>1. MinDist[b] <= p - 1
            BY <5>1, <4>1, <3>2, <1>t
          <6>2. QED
            BY <6>1, <1>e, <1>a, <1>t
        <5>2. QED
          BY <5>1, <4>1, <1>e
      <4>4. r.bucket[r.stack[i]] = old + (IF \E b \in 1 .. act : MinDist[b] = d + 1 THEN 1 ELSE 0)
        BY <4>1, <4>3, <3>2, <3>o, <2>5
      <4>5. d + 1 = i - 1 /\ d \in Nat /\ act \in 0 .. InfBucket - 1
        BY <4>1, <1>t
      <4>8. old \in 0 .. act
        BY <4>2
      <4>9. \A b \in 1 .. act : b <= old <=> MinDist[b] <= d
        BY <4>2
      <4> HIDE DEF old, d
      <4>6. /\ r.bucket[r.stack[i]] \in 0 .. act
            /\ \A b \in 1 .. act : b <= r.bucket[r.stack[i]] <=> MinDist[b] <= d + 1
        BY <4>4, <4>5, <4>8, <4>9, BucketStep
      <4>7. QED
        BY <4>5, <4>6
    <3>3. CASE i \in p + 1 .. n /\ r.stack[i] = c.stack[i]
      <4>1. ~ \E b \in 1 .. top : MinDist[b] = i
        BY <3>3, <1>e, <1>a, <1>t
      <4>2. i # p
        BY <3>3, <1>t
      <4>3. r.bucket[r.stack[i]] = c.bucket[c.stack[i]]
        <5>1. m.bucket[c.stack[i]] = c.bucket[c.stack[i]] + 0
          BY <4>1, <2>5
        <5>2. c.bucket[c.stack[i]] \in Nat
          BY <1>b, <1>t
        <5>3. QED
          BY <5>1, <5>2, <4>2, <3>3, <3>o
      <4>4. QED
        BY <4>3, <1>b
    <3>4. \/ i = 1 /\ r.stack[i] = c.stack[p]
          \/ i - 1 \in 1 .. p - 1 /\ r.stack[i] = c.stack[i - 1]
          \/ i \in p + 1 .. Len(c.stack) /\ r.stack[i] = c.stack[i]
      <4>1. i \in 1 .. Len(c.stack) /\ p \in 1 .. Len(c.stack)
        BY DEF n
      <4>2. QED
        BY <4>1, <2>7, <1>s, InFrontPositions
    <3>5. QED
      BY <3>1, <3>2, <3>3, <3>4 DEF n
  <2>13. QED
    BY <2>6, <2>7, <2>8, <2>9, <2>10, <2>11, <2>12 DEF Consistent, r, x
<1>3. QED
  BY <1>1, <1>2

-----------------------------------------------------------------------------
\* The constructor's state is consistent: no bucket but 0 is active.
LEMMA NewConsistent == Consistent(NewCacheSim)
<1> DEFINE c == NewCacheSim
<1>t. InfBucket \in Nat \ {0}
  BY MinDistAssumption
<1>0. /\ c.stack = << >> /\ Len(c.stack) = 0 /\ c.next_bucket = 1
      /\ << >> \in Seq(Block)
  BY EmptySeq DEF NewCacheSim
<1>1. c \in CacheSimState
  BY <1>t, <1>0 DEF NewCacheSim, CacheSimState, Bucket
<1> HIDE DEF c
<1>2. StackDistinct(c) /\ MarkersInPlace(c) /\ BucketsInPlace(c)
  BY <1>0 DEF StackDistinct, MarkersInPlace, BucketsInPlace
<1>3. ActiveBuckets(c)
  <2> SUFFICES ASSUME 1 # InfBucket PROVE 0 <= MinDist[1]
    BY <1>0 DEF ActiveBuckets
  <2>1. 1 \in 1 .. InfBucket - 1
    BY <1>t
  <2>2. QED
    BY <2>1, MinDistPositive
<1>4. QED
  BY <1>1, <1>2, <1>3 DEF Consistent, c

\* Counting an access touches nothing but the counter.
LEMMA IncrAccessConsistent ==
  ASSUME NEW c, Consistent(c), NEW b \in Bucket
  PROVE  LET r == IncrAccess(c, b)
         IN  /\ Consistent(r)
             /\ r.stack = c.stack
             /\ r.count = [c.count EXCEPT ![b] = @ + 1]
<1> DEFINE r == IncrAccess(c, b)
<1>c. /\ c \in CacheSimState /\ StackDistinct(c) /\ MarkersInPlace(c)
      /\ ActiveBuckets(c) /\ BucketsInPlace(c)
  BY DEF Consistent
<1>1. /\ r.stack = c.stack /\ r.bucket = c.bucket /\ r.marker = c.marker
      /\ r.next_bucket = c.next_bucket /\ r.count = [c.count EXCEPT ![b] = @ + 1]
  BY <1>c DEF IncrAccess, CacheSimState
<1>2. r \in CacheSimState
  <2>1. [c.count EXCEPT ![b] = @ + 1] \in [Bucket -> Nat]
    BY <1>c DEF CacheSimState
  <2>2. QED
    BY <2>1, <1>c DEF IncrAccess, CacheSimState
<1> HIDE DEF r
<1>3. StackDistinct(r) /\ MarkersInPlace(r) /\ ActiveBuckets(r) /\ BucketsInPlace(r)
  BY <1>1, <1>c DEF StackDistinct, MarkersInPlace, ActiveBuckets, BucketsInPlace
<1>4. QED
  BY <1>1, <1>2, <1>3 DEF Consistent, r

\* The bucket on_block_seen returns holds the block's distance from the top.
LEMMA SeenBucketHoldsDistance ==
  ASSUME NEW c, Consistent(c), NEW p \in 1 .. Len(c.stack)
  PROVE  LET b == SeenBucket(c, c.stack[p])
         IN  /\ b \in 0 .. InfBucket - 1
             /\ MinDist[b] <= p - 1
             /\ \A k \in 0 .. InfBucket - 1 : MinDist[k] <= p - 1 => k <= b
<1> DEFINE x == c.stack[p]
           b == SeenBucket(c, x)
           act == c.next_bucket - 1
<1>c. /\ c \in CacheSimState /\ StackDistinct(c) /\ MarkersInPlace(c)
      /\ ActiveBuckets(c) /\ BucketsInPlace(c)
  BY DEF Consistent
<1>t. /\ Len(c.stack) \in Nat /\ p \in Nat /\ p >= 1 /\ InfBucket \in Nat \ {0}
      /\ act \in 0 .. InfBucket - 1 /\ act \in Nat /\ c.next_bucket = act + 1
      /\ c.next_bucket \in 1 .. InfBucket
  <2>1. Len(c.stack) \in Nat /\ c.next_bucket \in 1 .. InfBucket
    BY <1>c, LenProperties DEF CacheSimState
  <2>2. QED
    BY <2>1, MinDistAssumption
<1>b. /\ c.bucket[x] \in 0 .. act
      /\ \A k \in 1 .. act : k <= c.bucket[x] <=> MinDist[k] <= p - 1
  BY <1>c DEF BucketsInPlace
<1>1. b = c.bucket[x]
  <2>1. CASE x = c.stack[1]
    <3>1. p = 1
      BY <2>1, <1>c, <1>t DEF StackDistinct
    <3>2. ~ (1 <= c.bucket[x])
      <4>1. CASE act = 0
        BY <4>1, <1>b
      <4>2. CASE act # 0
        <5>1. 1 \in 1 .. act /\ 1 \in 1 .. InfBucket - 1
          BY <4>2, <1>t
        <5>2. MinDist[1] \in Nat \ {0}
          BY <5>1, MinDistPositive
        <5>3. QED
          BY <5>1, <5>2, <3>1, <1>b
      <4>3. QED
        BY <4>1, <4>2
    <3>3. c.bucket[x] = 0
      BY <3>2, <1>b, <1>t
    <3>4. QED
      BY <3>3, <2>1 DEF SeenBucket
  <2>2. CASE x # c.stack[1]
    BY <2>2 DEF SeenBucket
  <2>3. QED
    BY <2>1, <2>2
<1> HIDE DEF x, b
<1>2. b \in 0 .. InfBucket - 1 /\ b \in Nat /\ b <= act
  BY <1>1, <1>b, <1>t
<1>3. MinDist[b] <= p - 1
  <2>1. CASE b = 0
    BY <2>1, <1>t, MinDistAssumption
  <2>2. CASE b # 0
    <3>1. b \in 1 .. act
      BY <2>2, <1>2, <1>t
    <3>2. QED
      BY <3>1, <1>1, <1>2, <1>b
  <2>3. QED
    BY <2>1, <2>2
<1>4. ASSUME NEW k \in 0 .. InfBucket - 1, MinDist[k] <= p - 1
      PROVE  k <= b
  <2>1. CASE k = 0
    BY <2>1, <1>2
  <2>2. CASE k \in 1 .. act
    BY <2>2, <1>4, <1>b, <1>1
  <2>3. CASE k > act
    <3>1. c.next_bucket \in 1 .. InfBucket - 1 /\ c.next_bucket # InfBucket
      BY <2>3, <1>t
    <3>2. Len(c.stack) <= MinDist[c.next_bucket] /\ MinDist[c.next_bucket] \in Nat
      BY <3>1, <1>c, MinDistPositive DEF ActiveBuckets
    <3>3. MinDist[c.next_bucket] <= MinDist[k] /\ MinDist[k] \in Nat
      <4>1. c.next_bucket = k \/ c.next_bucket < k
        BY <2>3, <1>t
      <4>2. QED
        BY <4>1, <3>1, <3>2, <1>t, MinDistAssumption
    <3>4. FALSE
      BY <3>2, <3>3, <1>4, <1>t
    <3>5. QED
      BY <3>4
  <2>4. QED
    BY <2>1, <2>2, <2>3, <1>t
<1>5. QED
  BY <1>2, <1>3, <1>4 DEF b, x

\* One access of any block keeps the simulator consistent and adds nothing
\* but that block to its stack.
LEMMA AccessSimConsistent ==
  ASSUME NEW c, Consistent(c), NEW x \in Block
  PROVE  LET r == AccessSim(c, x)
         IN  /\ Consistent(r)
             /\ \A i \in 1 .. Len(r.stack) : r.stack[i] = x \/ OnStack(c, r.stack[i])
<1> DEFINE r == AccessSim(c, x)
<1>t. InfBucket \in Nat \ {0} /\ InfBucket \in Bucket /\ c.stack \in Seq(Block) /\ Len(c.stack) \in Nat
  BY MinDistAssumption, LenProperties DEF Bucket, Consistent, CacheSimState
<1>1. CASE OnStack(c, x)
  <2> PICK p \in 1 .. Len(c.stack) : c.stack[p] = x
    BY <1>1 DEF OnStack
  <2> DEFINE s == OnBlockSeen(c, x)
             b == SeenBucket(c, x)
  <2>1. Consistent(s) /\ InFront(c.stack, s.stack, p)
    BY OnBlockSeenConsistent
  <2>2. b \in Bucket
    BY SeenBucketHoldsDistance, <1>t DEF Bucket
  <2>3. r = IncrAccess(s, b)
    BY <1>1 DEF AccessSim
  <2> HIDE DEF s, b, r
  <2>4. Consistent(r) /\ r.stack = s.stack
    BY <2>1, <2>2, <2>3, IncrAccessConsistent
  <2>5. ASSUME NEW i \in 1 .. Len(r.stack)
        PROVE  OnStack(c, r.stack[i])
    <3>1. i \in 1 .. Len(c.stack) /\ s.stack \in Seq(Block)
      BY <2>1, <2>4 DEF InFront, Consistent, CacheSimState
    <3>2. \/ i = 1 /\ s.stack[i] = c.stack[p]
          \/ i - 1 \in 1 .. p - 1 /\ s.stack[i] = c.stack[i - 1]
          \/ i \in p + 1 .. Len(c.stack) /\ s.stack[i] = c.stack[i]
      BY <3>1, <2>1, <1>t, InFrontPositions
    <3>3. \E j \in 1 .. Len(c.stack) : s.stack[i] = c.stack[j]
      <4>1. i - 1 \in 1 .. p - 1 => i - 1 \in 1 .. Len(c.stack)
        BY <1>t
      <4>2. QED
        BY <3>1, <3>2, <4>1
    <3>4. QED
      BY <3>3, <2>4 DEF OnStack
  <2>6. QED
    BY <2>4, <2>5 DEF r
<1>2. CASE ~OnStack(c, x)
  <2> DEFINE s == OnBlockNew(c, x)
  <2>1. /\ Consistent(s)
        /\ Len(s.stack) = Len(c.stack) + 1
        /\ s.stack[1] = x
        /\ \A i \in 1 .. Len(c.stack) : s.stack[i + 1] = c.stack[i]
    BY <1>2, OnBlockNewConsistent
  <2>2. r = IncrAccess(s, InfBucket)
    BY <1>2 DEF AccessSim
  <2> HIDE DEF s, r
  <2>3. Consistent(r) /\ r.stack = s.stack
    BY <2>1, <2>2, <1>t, IncrAccessConsistent
  <2>4. ASSUME NEW i \in 1 .. Len(r.stack)
        PROVE  r.stack[i] = x \/ OnStack(c, r.stack[i])
    <3>1. CASE i = 1
      BY <3>1, <2>1, <2>3
    <3>2. CASE i # 1
      <4>1. i - 1 \in 1 .. Len(c.stack) /\ (i - 1) + 1 = i
        BY <3>2, <2>1, <2>3, <1>t
      <4>2. r.stack[i] = c.stack[i - 1]
        BY <4>1, <2>1, <2>3
      <4>3. QED
        BY <4>1, <4>2 DEF OnStack
    <3>3. QED
      BY <3>1, <3>2
  <2>5. QED
    BY <2>3, <2>4 DEF r
<1>3. QED
  BY <1>1, <1>2

-----------------------------------------------------------------------------
\* r is c after x came to the front: to sends the positions of the other
\* blocks to their new ones, keeps their order and leaves no gap.
Fronted(c, r, x, to) ==
  LET others == {j \in 1 .. Len(c.stack) : c.stack[j] # x}
  IN  /\ Len(r.stack) >= 1 /\ r.stack[1] = x
      /\ \A j \in others : to[j] \in 2 .. Len(r.stack) /\ r.stack[to[j]] = c.stack[j]
      /\ \A i, j \in others : i < j => to[i] < to[j]
      /\ \A i \in 2 .. Len(r.stack) : \E j \in others : to[j] = i

\* What is further from the top was accessed earlier.
LEMMA NewerPair ==
  ASSUME NEW c, NEW j \in 1 .. Len(c.stack), NEW i \in 1 .. j - 1
  PROVE  << c.stack[i], c.stack[j] >> \in NewerOf(c)
<1> DEFINE row == {<< c.stack[h], c.stack[j] >> : h \in 1 .. j - 1}
<1>1. << c.stack[i], c.stack[j] >> \in row
  OBVIOUS
<1>2. row \in {{<< c.stack[h], c.stack[l] >> : h \in 1 .. l - 1} : l \in 1 .. Len(c.stack)}
  OBVIOUS
<1> HIDE DEF row
<1>3. QED
  BY <1>1, <1>2 DEF NewerOf

\* Moving x to the front makes it the most recent block and changes the order
\* of no two others.
LEMMA FrontedOrder ==
  ASSUME NEW c, NEW r, NEW x, NEW to, Fronted(c, r, x, to),
         Len(c.stack) \in Nat, Len(r.stack) \in Nat
  PROVE  /\ SeenOf(r) = SeenOf(c) \cup {x}
         /\ NewerOf(r) = {p \in NewerOf(c) : p[1] # x /\ p[2] # x}
                            \cup {<< x, y >> : y \in SeenOf(c) \ {x}}
<1> DEFINE others == {j \in 1 .. Len(c.stack) : c.stack[j] # x}
           n == Len(c.stack)
           k == Len(r.stack)
<1>1. /\ k >= 1 /\ r.stack[1] = x
      /\ \A j \in others : to[j] \in 2 .. k /\ r.stack[to[j]] = c.stack[j]
      /\ \A i, j \in others : i < j => to[i] < to[j]
      /\ \A i \in 2 .. k : \E j \in others : to[j] = i
  BY DEF Fronted
<1>o. \A i, j \in others : i < j => to[i] < to[j]
  BY <1>1
<1>2. \A i, j \in others : to[i] < to[j] => i < j
  <2> SUFFICES ASSUME NEW i \in others, NEW j \in others, to[i] < to[j], ~ (i < j)
               PROVE  FALSE
    OBVIOUS
  <2>1. to[i] \in Nat /\ to[j] \in Nat
    BY <1>1
  <2>2. i = j \/ j < i
    OBVIOUS
  <2>3. QED
    BY <2>1, <2>2, <1>1
<1>3. SeenOf(r) = SeenOf(c) \cup {x}
  <2>1. ASSUME NEW i \in 1 .. k
        PROVE  r.stack[i] \in SeenOf(c) \cup {x}
    <3>1. CASE i = 1
      BY <3>1, <1>1
    <3>2. CASE i # 1
      <4>1. i \in 2 .. k
        BY <3>2
      <4>2. PICK j \in others : to[j] = i
        BY <4>1, <1>1
      <4>3. QED
        BY <4>2, <1>1 DEF SeenOf
    <3>3. QED
      BY <3>1, <3>2
  <2>2. ASSUME NEW j \in 1 .. n
        PROVE  c.stack[j] \in SeenOf(r)
    <3>1. CASE c.stack[j] = x
      <4>1. 1 \in 1 .. k
        BY <1>1
      <4>2. QED
        BY <4>1, <3>1, <1>1 DEF SeenOf
    <3>2. CASE c.stack[j] # x
      <4>1. to[j] \in 1 .. k /\ r.stack[to[j]] = c.stack[j]
        BY <3>2, <1>1
      <4>2. QED
        BY <4>1 DEF SeenOf
    <3>3. QED
      BY <3>1, <3>2
  <2>3. x \in SeenOf(r)
    <3>1. 1 \in 1 .. k
      BY <1>1
    <3>2. QED
      BY <3>1, <1>1 DEF SeenOf
  <2>4. QED
    BY <2>1, <2>2, <2>3 DEF SeenOf
<1>4. ASSUME NEW j \in 1 .. k, NEW i \in 1 .. j - 1
      PROVE  \/ /\ << r.stack[i], r.stack[j] >> \in NewerOf(c)
                /\ r.stack[i] # x /\ r.stack[j] # x
             \/ r.stack[i] = x /\ r.stack[j] \in SeenOf(c) \ {x}
  <2>0. j \in 2 .. k /\ i \in 1 .. k
    OBVIOUS
  <2>1. PICK b \in others : to[b] = j
    BY <2>0, <1>1
  <2>2. r.stack[j] = c.stack[b] /\ r.stack[j] # x
    BY <2>1, <1>1
  <2>3. CASE i = 1
    BY <2>2, <2>3, <1>1 DEF SeenOf
  <2>4. CASE i # 1
    <3>1. i \in 2 .. k
      BY <2>0, <2>4
    <3>2. PICK a \in others : to[a] = i
      BY <3>1, <1>1
    <3>3. r.stack[i] = c.stack[a] /\ r.stack[i] # x
      BY <3>2, <1>1
    <3>4. a < b
      BY <2>1, <3>2, <1>2
    <3>5. a \in 1 .. b - 1 /\ b \in 1 .. n
      BY <3>4
    <3>6. << c.stack[a], c.stack[b] >> \in NewerOf(c)
      BY <3>5, NewerPair
    <3>7. QED
      BY <3>3, <3>6, <2>2
  <2>5. QED
    BY <2>3, <2>4
<1>5. ASSUME NEW j \in 1 .. n, NEW i \in 1 .. j - 1, c.stack[i] # x, c.stack[j] # x
      PROVE  << c.stack[i], c.stack[j] >> \in NewerOf(r)
  <2>1. i \in others /\ j \in others /\ i < j
    BY <1>5
  <2> DEFINE a == to[i]
             b == to[j]
  <2>2. a \in 2 .. k /\ r.stack[a] = c.stack[i]
    BY <2>1, <1>1
  <2>3. b \in 2 .. k /\ r.stack[b] = c.stack[j]
    BY <2>1, <1>1
  <2> HIDE DEF others
  <2>4. a < b
    BY <2>1, <1>o
  <2> HIDE DEF a, b, n
  <2>5. b \in 1 .. k /\ a \in 1 .. b - 1
    BY <2>2, <2>3, <2>4
  <2>6. << r.stack[a], r.stack[b] >> \in NewerOf(r)
    BY <2>5, NewerPair DEF k
  <2>7. QED
    BY <2>2, <2>3, <2>6
<1>6. ASSUME NEW j \in 1 .. n, c.stack[j] # x
      PROVE  << x, c.stack[j] >> \in NewerOf(r)
  <2>1. j \in others
    BY <1>6
  <2> DEFINE b == to[j]
  <2>2. b \in 2 .. k /\ r.stack[b] = c.stack[j]
    BY <2>1, <1>1
  <2> HIDE DEF b, n, others
  <2>3. b \in 1 .. k /\ 1 \in 1 .. b - 1
    BY <2>2
  <2>4. << r.stack[1], r.stack[b] >> \in NewerOf(r)
    BY <2>3, NewerPair DEF k
  <2>5. QED
    BY <2>2, <2>4, <1>1
<1>7. NewerOf(r) \subseteq {p \in NewerOf(c) : p[1] # x /\ p[2] # x}
                            \cup {<< x, y >> : y \in SeenOf(c) \ {x}}
  <2> SUFFICES ASSUME NEW p \in NewerOf(r)
               PROVE  \/ p \in NewerOf(c) /\ p[1] # x /\ p[2] # x
                      \/ \E y \in SeenOf(c) \ {x} : p = << x, y >>
    OBVIOUS
  <2>j. PICK j \in 1 .. k : \E i \in 1 .. j - 1 : p = << r.stack[i], r.stack[j] >>
    BY DEF NewerOf
  <2>1. PICK i \in 1 .. j - 1 : p = << r.stack[i], r.stack[j] >>
    BY <2>j
  <2>2. p[1] = r.stack[i] /\ p[2] = r.stack[j]
    BY <2>1
  <2>3. QED
    BY <2>1, <2>2, <1>4
<1>8. {p \in NewerOf(c) : p[1] # x /\ p[2] # x} \cup {<< x, y >> : y \in SeenOf(c) \ {x}}
        \subseteq NewerOf(r)
  <2>1. ASSUME NEW p \in NewerOf(c), p[1] # x, p[2] # x
        PROVE  p \in NewerOf(r)
    <3>j. PICK j \in 1 .. n : \E i \in 1 .. j - 1 : p = << c.stack[i], c.stack[j] >>
      BY DEF NewerOf
    <3>1. PICK i \in 1 .. j - 1 : p = << c.stack[i], c.stack[j] >>
      BY <3>j
    <3>2. p[1] = c.stack[i] /\ p[2] = c.stack[j]
      BY <3>1
    <3>3. QED
      BY <3>1, <3>2, <2>1, <1>5
  <2>2. ASSUME NEW y \in SeenOf(c), y # x
        PROVE  << x, y >> \in NewerOf(r)
    BY <2>2, <1>6 DEF SeenOf
  <2>3. QED
    BY <2>1, <2>2
<1>9. QED
  BY <1>3, <1>7, <1>8

\* One access puts its block in front.
LEMMA AccessFronts ==
  ASSUME NEW c, Consistent(c), NEW x \in Block
  PROVE  \E to : Fronted(c, AccessSim(c, x), x, to)
<1> DEFINE r == AccessSim(c, x)
           n == Len(c.stack)
<1>t. InfBucket \in Bucket /\ InfBucket \in Nat /\ c.stack \in Seq(Block) /\ n \in Nat
  BY MinDistAssumption, LenProperties DEF Bucket, Consistent, CacheSimState
<1>1. CASE OnStack(c, x)
  <2> PICK p \in 1 .. n : c.stack[p] = x
    BY <1>1 DEF OnStack
  <2> DEFINE s == OnBlockSeen(c, x)
             b == SeenBucket(c, x)
             to == [j \in 1 .. n |-> IF j < p THEN j + 1 ELSE j]
  <2>1. Consistent(s) /\ InFront(c.stack, s.stack, p)
    BY OnBlockSeenConsistent
  <2>2. b \in Bucket
    BY SeenBucketHoldsDistance, <1>t DEF Bucket
  <2>3. r = IncrAccess(s, b)
    BY <1>1 DEF AccessSim
  <2> HIDE DEF s, b, r, n
  <2>4. r.stack = s.stack
    BY <2>1, <2>2, <2>3, IncrAccessConsistent
  <2>5. /\ Len(r.stack) = n /\ r.stack[1] = x
        /\ \A i \in 1 .. p - 1 : r.stack[i + 1] = c.stack[i]
        /\ \A i \in p + 1 .. n : r.stack[i] = c.stack[i]
    BY <2>1, <2>4 DEF InFront, n
  <2>6. \A j \in 1 .. n : c.stack[j] # x =>
          \/ j \in 1 .. p - 1 /\ to[j] = j + 1
          \/ j \in p + 1 .. n /\ to[j] = j
    <3> SUFFICES ASSUME NEW j \in 1 .. n, c.stack[j] # x
                 PROVE  \/ j \in 1 .. p - 1 /\ to[j] = j + 1
                        \/ j \in p + 1 .. n /\ to[j] = j
      OBVIOUS
    <3>1. j # p
      OBVIOUS
    <3>2. QED
      BY <3>1, <1>t
  <2>7. \A j \in 1 .. n : j # p => c.stack[j] # x
    BY DEF Consistent, StackDistinct, n
  <2>8. ASSUME NEW i \in 2 .. n
        PROVE  \E j \in 1 .. n : c.stack[j] # x /\ to[j] = i
    <3>1. CASE i <= p
      <4>1. i - 1 \in 1 .. n /\ i - 1 # p /\ to[i - 1] = i
        BY <3>1, <1>t
      <4>2. QED
        BY <4>1, <2>7
    <3>2. CASE p < i
      <4>1. i \in 1 .. n /\ i # p /\ to[i] = i
        BY <3>2, <1>t
      <4>2. QED
        BY <4>1, <2>7
    <3>3. QED
      BY <3>1, <3>2, <1>t
  <2> HIDE DEF to
  <2>9. Fronted(c, r, x, to)
    <3>1. Len(r.stack) >= 1
      BY <2>5, <1>t
    <3>2. \A j \in 1 .. n : c.stack[j] # x => to[j] \in 2 .. n /\ r.stack[to[j]] = c.stack[j]
      BY <2>5, <2>6, <1>t
    <3>3. \A i, j \in 1 .. n : c.stack[i] # x /\ c.stack[j] # x /\ i < j => to[i] < to[j]
      BY <2>6, <1>t
    <3>4. QED
      BY <3>1, <3>2, <3>3, <2>5, <2>8 DEF Fronted, n
  <2>10. QED
    BY <2>9 DEF r
<1>2. CASE ~OnStack(c, x)
  <2> DEFINE s == OnBlockNew(c, x)
             to == [j \in 1 .. n |-> j + 1]
  <2>1. /\ Consistent(s)
        /\ Len(s.stack) = n + 1
        /\ s.stack[1] = x
        /\ \A i \in 1 .. n : s.stack[i + 1] = c.stack[i]
    BY <1>2, OnBlockNewConsistent
  <2>2. r = IncrAccess(s, InfBucket)
    BY <1>2 DEF AccessSim
  <2> HIDE DEF s, r, n
  <2>3. r.stack = s.stack
    BY <2>1, <2>2, <1>t, IncrAccessConsistent
  <2>4. \A j \in 1 .. n : c.stack[j] # x
    BY <1>2 DEF OnStack, n
  <2>5. \A i \in 2 .. n + 1 : i - 1 \in 1 .. n /\ to[i - 1] = i
    BY <1>t
  <2>6. Fronted(c, r, x, to)
    <3>1. Len(r.stack) = n + 1 /\ Len(r.stack) >= 1
      BY <2>1, <2>3, <1>t
    <3>2. \A j \in 1 .. n : to[j] \in 2 .. n + 1 /\ r.stack[to[j]] = c.stack[j]
      BY <2>1, <2>3, <1>t
    <3>3. \A i, j \in 1 .. n : i < j => to[i] < to[j]
      BY <1>t
    <3>4. \A i \in 2 .. n + 1 : \E j \in 1 .. n : to[j] = i
      BY <2>5
    <3> HIDE DEF to
    <3>5. QED
      BY <3>1, <3>2, <3>3, <3>4, <2>1, <2>3, <2>4 DEF Fronted, n
  <2>7. QED
    BY <2>6 DEF r
<1>3. QED
  BY <1>1, <1>2

\* The blocks accessed since the last access to the block at position p are
\* the p - 1 blocks above it.
LEMMA DistanceIsPosition ==
  ASSUME NEW c, Consistent(c), NEW p \in 1 .. Len(c.stack)
  PROVE  Cardinality({y \in SeenOf(c) : << y, c.stack[p] >> \in NewerOf(c)}) = p - 1
<1> DEFINE S == {y \in SeenOf(c) : << y, c.stack[p] >> \in NewerOf(c)}
           f == [j \in 1 .. p - 1 |-> c.stack[j]]
<1>t. c.stack \in Seq(Block) /\ Len(c.stack) \in Nat /\ StackDistinct(c) /\ p - 1 \in Nat
  BY LenProperties DEF Consistent, CacheSimState
<1>1. \A j \in 1 .. p - 1 : j \in 1 .. Len(c.stack) /\ c.stack[j] \in S
  <2> TAKE j \in 1 .. p - 1
  <2>1. j \in 1 .. Len(c.stack)
    BY <1>t
  <2>2. << c.stack[j], c.stack[p] >> \in NewerOf(c)
    BY DEF NewerOf
  <2>3. QED
    BY <2>1, <2>2 DEF SeenOf
<1>2. \A y \in S : \E j \in 1 .. p - 1 : c.stack[j] = y
  <2> SUFFICES ASSUME NEW y \in S PROVE \E j \in 1 .. p - 1 : c.stack[j] = y
    OBVIOUS
  <2>1. PICK b \in 1 .. Len(c.stack) :
          \E a \in 1 .. b - 1 : << y, c.stack[p] >> = << c.stack[a], c.stack[b] >>
    BY DEF NewerOf
  <2>2. PICK a \in 1 .. b - 1 : y = c.stack[a] /\ c.stack[p] = c.stack[b]
    BY <2>1
  <2>3. b = p
    BY <2>2, <1>t DEF StackDistinct
  <2>4. QED
    BY <2>2, <2>3
<1> HIDE DEF S
<1>3. f \in Bijection(1 .. p - 1, S)
  <2>1. f \in [1 .. p - 1 -> S]
    BY <1>1
  <2>2. \A i, j \in 1 .. p - 1 : f[i] = f[j] => i = j
    BY <1>1, <1>t DEF StackDistinct
  <2>3. \A y \in S : \E j \in 1 .. p - 1 : f[j] = y
    BY <1>2
  <2> HIDE DEF f
  <2>4. f \in Injection(1 .. p - 1, S)
    BY <2>1, <2>2 DEF Injection, IsInjective
  <2>5. f \in Surjection(1 .. p - 1, S)
    BY <2>1, <2>3 DEF Surjection
  <2>6. QED
    BY <2>4, <2>5 DEF Bijection
<1>4. ExistsBijection(1 .. p - 1, S)
  BY <1>3 DEF ExistsBijection
<1>5. QED
  BY <1>4, <1>t, FS_CountingElements DEF S

\* What an access adds to the histogram of its simulator.
LEMMA AccessCounts ==
  ASSUME NEW c, Consistent(c), NEW x \in Block
  PROVE  AccessSim(c, x).count =
           [c.count EXCEPT ![IF x \in SeenOf(c) THEN SeenBucket(c, x) ELSE InfBucket] = @ + 1]
<1>t. InfBucket \in Bucket /\ InfBucket \in Nat
  BY MinDistAssumption DEF Bucket
<1>1. x \in SeenOf(c) <=> OnStack(c, x)
  BY DEF SeenOf, OnStack
<1>2. CASE OnStack(c, x)
  <2> PICK p \in 1 .. Len(c.stack) : c.stack[p] = x
    BY <1>2 DEF OnStack
  <2> DEFINE s == OnBlockSeen(c, x)
             b == SeenBucket(c, x)
  <2>1. Consistent(s) /\ s.count = c.count
    BY OnBlockSeenConsistent
  <2>2. b \in Bucket
    BY SeenBucketHoldsDistance, <1>t DEF Bucket
  <2>3. AccessSim(c, x) = IncrAccess(s, b)
    BY <1>2 DEF AccessSim
  <2> HIDE DEF s, b
  <2>4. AccessSim(c, x).count = [c.count EXCEPT ![b] = @ + 1]
    BY <2>1, <2>2, <2>3, IncrAccessConsistent
  <2>5. QED
    BY <2>4, <1>1, <1>2 DEF b
<1>3. CASE ~OnStack(c, x)
  <2> DEFINE s == OnBlockNew(c, x)
  <2>1. Consistent(s) /\ s.count = c.count
    BY <1>3, OnBlockNewConsistent
  <2>2. AccessSim(c, x) = IncrAccess(s, InfBucket)
    BY <1>3 DEF AccessSim
  <2> HIDE DEF s
  <2>3. AccessSim(c, x).count = [c.count EXCEPT ![InfBucket] = @ + 1]
    BY <2>1, <2>2, <1>t, IncrAccessConsistent
  <2>4. QED
    BY <2>3, <1>1, <1>3
<1>4. QED
  BY <1>2, <1>3

\* The definitions of ReuseDistance on the history a stack stands for.
HistoryDistance(c, x) == Cardinality({y \in SeenOf(c) : << y, x >> \in NewerOf(c)})

HistoryBucket(d) ==
  CHOOSE b \in 0 .. InfBucket - 1 :
    /\ MinDist[b] <= d
    /\ \A k \in 0 .. InfBucket - 1 : MinDist[k] <= d => k <= b

\* The bucket number with the properties of BucketOf(d) is unique.
LEMMA BucketUnique ==
  ASSUME NEW d, NEW b \in 0 .. InfBucket - 1, MinDist[b] <= d,
         \A k \in 0 .. InfBucket - 1 : MinDist[k] <= d => k <= b
  PROVE  b = HistoryBucket(d)
<1> DEFINE P(a) == /\ MinDist[a] <= d
                   /\ \A k \in 0 .. InfBucket - 1 : MinDist[k] <= d => k <= a
<1>1. P(b)
  OBVIOUS
<1>2. \A a \in 0 .. InfBucket - 1 : P(a) => a <= b /\ b <= a
  OBVIOUS
<1>3. \A a \in 0 .. InfBucket - 1 : P(a) => a = b
  BY <1>2, MinDistAssumption
<1> HIDE DEF P
<1>4. b = CHOOSE a \in 0 .. InfBucket - 1 : P(a)
  BY <1>1, <1>3
<1>5. QED
  BY <1>4 DEF P, HistoryBucket

\* The bucket of an access is the one of the reuse distance's definition.
LEMMA SeenBucketIsBucketOf ==
  ASSUME NEW c, Consistent(c), NEW x \in SeenOf(c)
  PROVE  SeenBucket(c, x) = HistoryBucket(HistoryDistance(c, x))
<1> DEFINE d == HistoryDistance(c, x)
           b == SeenBucket(c, x)
<1> PICK p \in 1 .. Len(c.stack) : c.stack[p] = x
  BY DEF SeenOf
<1>1. d = p - 1
  BY DistanceIsPosition DEF HistoryDistance
<1>2. /\ b \in 0 .. InfBucket - 1
      /\ MinDist[b] <= p - 1
      /\ \A k \in 0 .. InfBucket - 1 : MinDist[k] <= p - 1 => k <= b
  BY SeenBucketHoldsDistance
<1> HIDE DEF d, b
<1>3. /\ MinDist[b] <= d
      /\ \A k \in 0 .. InfBucket - 1 : MinDist[k] <= d => k <= b
  BY <1>1, <1>2
<1>4. b = HistoryBucket(d)
  BY <1>2, <1>3, BucketUnique
<1>5. QED
  BY <1>4 DEF d, b

\* From a simulator's state c to d as ReuseDistance!Access(x) demands.
HistoryStep(c, d, x) ==
  /\ SeenOf(d) = SeenOf(c) \cup {x}
  /\ NewerOf(d) = {p \in NewerOf(c) : p[1] # x /\ p[2] # x}
                     \cup {<< x, y >> : y \in SeenOf(c) \ {x}}
  /\ d.count = [c.count EXCEPT
       ![IF x \in SeenOf(c) THEN HistoryBucket(HistoryDistance(c, x)) ELSE InfBucket] = @ + 1]

\* An access makes that step.
LEMMA AccessSimHistory ==
  ASSUME NEW c, Consistent(c), NEW x \in Block
  PROVE  HistoryStep(c, AccessSim(c, x), x)
<1> DEFINE d == AccessSim(c, x)
<1>1. PICK to : Fronted(c, d, x, to)
  BY AccessFronts
<1> HIDE DEF d
<1>2. Len(c.stack) \in Nat /\ Len(d.stack) \in Nat
  <2>1. c \in CacheSimState /\ d \in CacheSimState
    BY AccessSimConsistent DEF d, Consistent
  <2>2. QED
    BY <2>1, LenProperties DEF CacheSimState
<1>3. /\ SeenOf(d) = SeenOf(c) \cup {x}
      /\ NewerOf(d) = {e \in NewerOf(c) : e[1] # x /\ e[2] # x}
                         \cup {<< x, y >> : y \in SeenOf(c) \ {x}}
  BY <1>1, <1>2, FrontedOrder
<1>4. d.count = [c.count EXCEPT ![IF x \in SeenOf(c) THEN SeenBucket(c, x) ELSE InfBucket] = @ + 1]
  BY AccessCounts DEF d
<1>5. CASE x \in SeenOf(c)
  BY <1>3, <1>4, <1>5, SeenBucketIsBucketOf DEF HistoryStep, d
<1>6. CASE x \notin SeenOf(c)
  BY <1>3, <1>4, <1>6 DEF HistoryStep, d
<1>7. QED
  BY <1>5, <1>6

\* An access leaves the simulator consistent and counts exactly one bucket: the
\* one of the number of other blocks accessed since x was, and that of the cold
\* misses for a block that is new.
THEOREM AccessCounted ==
  ASSUME NEW c, Consistent(c), NEW x \in Block
  PROVE  /\ Consistent(AccessSim(c, x))
         /\ AccessSim(c, x).count = [c.count EXCEPT
              ![IF x \in SeenOf(c) THEN HistoryBucket(HistoryDistance(c, x)) ELSE InfBucket] = @ + 1]
BY AccessSimConsistent, AccessSimHistory DEF HistoryStep

\* A new simulator has seen nothing.
LEMMA NewHistory ==
  /\ SeenOf(NewCacheSim) = {} /\ NewerOf(NewCacheSim) = {}
  /\ NewCacheSim.count = [b \in 0 .. InfBucket |-> 0]
<1>1. Len(NewCacheSim.stack) = 0 /\ NewCacheSim.count = [b \in Bucket |-> 0]
  BY EmptySeq DEF NewCacheSim
<1>2. QED
  BY <1>1 DEF SeenOf, NewerOf, Bucket
=============================================================================
