--------------------------- MODULE ProfilerProofs ---------------------------
(***************************************************************************)
(* Theorems about Profiler, for any threads, blocks, bucket table and      *)
(* allocations, and for runs of any length.                                *)
(***************************************************************************)
EXTENDS Profiler, CacheSimProofs, SumProofs, SequenceTheorems

-----------------------------------------------------------------------------
(* What register_datastruct adds: the caches of the last data object, each *)
(* of them once.                                                           *)

\* combine's loop makes the pair of k with each element, and each once.
LEMMA PairsAre ==
  ASSUME NEW S \in SUBSET Nat, IsFiniteSet(S), NEW k, k \notin S
  PROVE  /\ Len(Pairs(k, S)) = Cardinality(S)
         /\ \A i \in 1 .. Cardinality(S) : \E j \in S : Pairs(k, S)[i] = {k, j}
         /\ \A j \in S : \E i \in 1 .. Cardinality(S) : Pairs(k, S)[i] = {k, j}
         /\ \A i, j \in 1 .. Cardinality(S) : Pairs(k, S)[i] = Pairs(k, S)[j] => i = j
<1> DEFINE n == Cardinality(S)
           q == Pairs(k, S)
<1>1. n \in Nat
  BY FS_CardinalityType
<1>2. /\ Len(q) = n
      /\ \A i \in 1 .. n : q[i] = {k} \cup {j \in S : Rank(S, j) = i - 1}
  BY <1>1 DEF Pairs, Rank
<1> HIDE DEF q
<1>3. ASSUME NEW i \in 1 .. n
      PROVE  \E j \in S : Rank(S, j) = i - 1 /\ q[i] = {k, j}
  <2>1. i - 1 \in 0 .. n - 1
    BY <1>1
  <2>2. PICK j \in S : Rank(S, j) = i - 1
    BY <2>1, RankOnto
  <2>3. {l \in S : Rank(S, l) = i - 1} = {j}
    <3>1. ASSUME NEW l \in S, Rank(S, l) = i - 1 PROVE l = j
      BY <2>2, <3>1, RankUnique
    <3> QED  BY <2>2, <3>1
  <2>4. q[i] = {k, j}
    BY <2>3, <1>2
  <2> QED  BY <2>2, <2>4
<1>4. ASSUME NEW j \in S
      PROVE  \E i \in 1 .. n : q[i] = {k, j}
  <2> DEFINE i == Rank(S, j) + 1
  <2>1. Rank(S, j) \in 0 .. n - 1
    BY RankType
  <2>2. i \in 1 .. n /\ i - 1 = Rank(S, j)
    BY <2>1, <1>1
  <2>3. {l \in S : Rank(S, l) = Rank(S, j)} = {j}
    BY RankUnique
  <2> HIDE DEF i
  <2>4. q[i] = {k, j}
    BY <2>2, <2>3, <1>2
  <2> QED  BY <2>2, <2>4
<1>5. ASSUME NEW i \in 1 .. n, NEW j \in 1 .. n, q[i] = q[j]
      PROVE  i = j
  <2>1. PICK a \in S : Rank(S, a) = i - 1 /\ q[i] = {k, a}
    BY <1>3
  <2>2. PICK b \in S : Rank(S, b) = j - 1 /\ q[j] = {k, b}
    BY <1>3
  <2>3. a = b
    BY <2>1, <2>2, <1>5
  <2>4. i - 1 = j - 1
    BY <2>1, <2>2, <2>3
  <2> QED  BY <2>4, <1>1
<1>6. QED
  BY <1>2, <1>3, <1>4, <1>5 DEF q

\* The caches of the last data object k of a vector: the one that isolates it
\* alone, and, when it is large, one for each pair with an earlier large one.
NewSets(ds) ==
  LET k == Len(ds) - 1
  IN  {{k}} \cup {{k, j} : j \in IF ds[k + 1].nbytes < CombineThreshold THEN {}
                                 ELSE Large(ds, 1 .. k - 1)}

LEMMA AddedCachesAre ==
  ASSUME NEW ds, Len(ds) \in Nat, Len(ds) > 1
  PROVE  LET a == AddedCaches(ds)
         IN  /\ Len(a) \in Nat
             /\ {a[i] : i \in 1 .. Len(a)} = NewSets(ds)
             /\ \A i, j \in 1 .. Len(a) : a[i] = a[j] => i = j
<1> DEFINE k == Len(ds) - 1
           S == IF ds[k + 1].nbytes < CombineThreshold THEN {} ELSE Large(ds, 1 .. k - 1)
           m == Cardinality(S)
           c == Combine(ds)
           a == AddedCaches(ds)
<1>1. k \in Nat /\ k > 0
  OBVIOUS
<1>2. S \in SUBSET (1 .. k - 1)
  BY DEF Large
<1>3. IsFiniteSet(1 .. k - 1) /\ 1 .. k - 1 \subseteq Nat
  <2> HIDE DEF k
  <2>1. 1 \in Int /\ k - 1 \in Int
    BY <1>1
  <2>2. IsFiniteSet(1 .. k - 1)
    BY <2>1, FS_Interval
  <2> QED  BY <2>2
<1>4. S \in SUBSET Nat /\ IsFiniteSet(S) /\ k \notin S
  <2> HIDE DEF S
  <2>1. IsFiniteSet(S)
    BY <1>2, <1>3, FS_Subset
  <2> QED  BY <2>1, <1>1, <1>2, <1>3
<1>5. m \in Nat
  BY <1>4, FS_CardinalityType
<1>6. /\ Len(c) = m
      /\ \A i \in 1 .. m : \E j \in S : c[i] = {k, j}
      /\ \A j \in S : \E i \in 1 .. m : c[i] = {k, j}
      /\ \A i, j \in 1 .. m : c[i] = c[j] => i = j
  <2>1. CASE ds[k + 1].nbytes < CombineThreshold
    <3>1. S = {} /\ c = << >>
      BY <2>1 DEF Combine
    <3>2. m = 0
      BY <3>1, FS_EmptySet
    <3> HIDE DEF S, c, m
    <3> QED  BY <3>1, <3>2
  <2>2. CASE ~(ds[k + 1].nbytes < CombineThreshold)
    <3>1. c = Pairs(k, S)
      BY <2>2 DEF Combine
    <3> HIDE DEF S, c, k
    <3>2. /\ Len(Pairs(k, S)) = m
          /\ \A i \in 1 .. m : \E j \in S : Pairs(k, S)[i] = {k, j}
          /\ \A j \in S : \E i \in 1 .. m : Pairs(k, S)[i] = {k, j}
          /\ \A i, j \in 1 .. m : Pairs(k, S)[i] = Pairs(k, S)[j] => i = j
      BY <1>4, PairsAre
    <3> QED  BY <3>1, <3>2
  <2> QED  BY <2>1, <2>2
<1>7. Len(a) = m + 1 /\ a[1] = {k} /\ \A i \in 1 .. m : a[i + 1] = c[i]
  <2>1. a = << {k} >> \o c
    BY <1>1 DEF AddedCaches, NoDatastruct
  <2> HIDE DEF c, a, k
  <2>2. QED
    BY <2>1, <1>5, <1>6
<1>8. NewSets(ds) = {{k}} \cup {{k, j} : j \in S}
  BY DEF NewSets
<1> HIDE DEF a, c, S, k, m
<1>9. \A i \in 1 .. Len(a) : i = 1 \/ (i - 1 \in 1 .. m /\ a[i] = c[i - 1])
  <2> SUFFICES ASSUME NEW i \in 1 .. Len(a), i # 1
               PROVE  i - 1 \in 1 .. m /\ a[i] = c[i - 1]
    OBVIOUS
  <2>1. i - 1 \in 1 .. m /\ (i - 1) + 1 = i
    BY <1>5, <1>7
  <2> QED  BY <2>1, <1>7
<1>10. {a[i] : i \in 1 .. Len(a)} = NewSets(ds)
  <2>1. ASSUME NEW i \in 1 .. Len(a) PROVE a[i] \in NewSets(ds)
    <3>1. CASE i = 1
      BY <3>1, <1>7, <1>8
    <3>2. CASE i # 1
      <4>1. i - 1 \in 1 .. m /\ a[i] = c[i - 1]
        BY <3>2, <1>9
      <4>2. PICK j \in S : a[i] = {k, j}
        BY <4>1, <1>6
      <4> QED  BY <4>2, <1>8
    <3> QED  BY <3>1, <3>2
  <2>2. ASSUME NEW s \in NewSets(ds) PROVE \E i \in 1 .. Len(a) : a[i] = s
    <3>1. CASE s = {k}
      BY <3>1, <1>5, <1>7
    <3>2. ASSUME NEW j \in S, s = {k, j} PROVE \E i \in 1 .. Len(a) : a[i] = s
      <4>1. PICK i \in 1 .. m : c[i] = {k, j}
        BY <1>6
      <4>2. i + 1 \in 1 .. Len(a) /\ a[i + 1] = s
        <5>1. i + 1 \in 1 .. Len(a)
          BY <1>5, <1>7
        <5>2. a[i + 1] = c[i]
          BY <1>7
        <5> QED  BY <5>1, <5>2, <4>1, <3>2
      <4> QED  BY <4>2
    <3> QED  BY <3>1, <3>2, <1>8
  <2> QED  BY <2>1, <2>2
<1>11. ASSUME NEW i \in 1 .. Len(a), NEW j \in 1 .. Len(a), a[i] = a[j]
       PROVE  i = j
  <2>1. \A l \in 1 .. m : c[l] # {k}
    <3> SUFFICES ASSUME NEW l \in 1 .. m PROVE c[l] # {k}
      OBVIOUS
    <3>1. PICK e \in S : c[l] = {k, e}
      BY <1>6
    <3>2. e # k
      BY <1>4
    <3> QED  BY <3>1, <3>2
  <2>2. CASE i = 1 \/ j = 1
    BY <2>1, <2>2, <1>7, <1>9, <1>11
  <2>3. CASE i # 1 /\ j # 1
    <3>1. i - 1 \in 1 .. m /\ j - 1 \in 1 .. m /\ c[i - 1] = c[j - 1]
      BY <2>3, <1>9, <1>11
    <3>2. i - 1 = j - 1
      BY <3>1, <1>6
    <3> QED  BY <3>2, <1>5, <1>7
  <2> QED  BY <2>2, <2>3
<1>12. QED
  BY <1>5, <1>7, <1>10, <1>11 DEF a

-----------------------------------------------------------------------------
-----------------------------------------------------------------------------
(***************************************************************************)
(* Data objects and the target's memory.  Objects are meant by their       *)
(* position in the vector: the one of number k is at k + 1.                *)
(***************************************************************************)
Object == [address : Nat, nbytes : Nat, is_freed : BOOLEAN]

AnyCall == {NoCall} \cup [op : {"malloc", "free"}, alloc : Allocation \cup {NullAllocation}]

Memory(ds) == << ds.address, ds.nbytes >>

\* Objects but number 0 have a byte.
ObjectsShape ==
  /\ heap \subseteq Allocation
  /\ call \in [Thread -> AnyCall]
  /\ datastructs \in Seq(Object)
  /\ Len(datastructs) > 0
  /\ datastructs[1].nbytes = 0
  /\ \A i \in 2 .. Len(datastructs) : datastructs[i].nbytes > 0

HeapDisjoint == \A a, b \in heap : a # b => Disjoint(a, b)

\* A live object is memory in the heap, no other object's, and in no call's
\* hands.
ObjectsOwn ==
  \A i \in 2 .. Len(datastructs) : ~datastructs[i].is_freed =>
    /\ Memory(datastructs[i]) \in heap
    /\ \A j \in 2 .. Len(datastructs) :
         ~datastructs[j].is_freed /\ Memory(datastructs[j]) = Memory(datastructs[i]) => i = j
    /\ \A t \in Thread : call[t] # NoCall => call[t].alloc # Memory(datastructs[i])

\* What a call allocates or frees is in the heap and in no other call's hands.
CallsOwn ==
  \A t \in Thread : call[t] # NoCall /\ call[t].alloc[2] > 0 =>
    /\ call[t].alloc \in heap
    /\ \A u \in Thread : u # t /\ call[u] # NoCall => call[u].alloc # call[t].alloc

ObjectsInv == ObjectsShape /\ HeapDisjoint /\ ObjectsOwn /\ CallsOwn

LEMMA ObjectAt ==
  ASSUME ObjectsShape, NEW i \in 1 .. Len(datastructs)
  PROVE  /\ datastructs[i].address \in Nat /\ datastructs[i].nbytes \in Nat
         /\ datastructs[i].is_freed \in BOOLEAN
<1>1. datastructs[i] \in Object
  BY ElementOfSeq DEF ObjectsShape
<1> QED  BY <1>1 DEF Object

\* An object that contains an address is not number 0, and no other does.
LEMMA ContainingUnique ==
  ASSUME ObjectsInv, NEW addr \in Nat, NEW i \in 1 .. Len(datastructs),
         Contains(datastructs[i], addr)
  PROVE  /\ i \in 2 .. Len(datastructs) /\ ~datastructs[i].is_freed
         /\ Memory(datastructs[i]) \in heap
         /\ \A j \in 1 .. Len(datastructs) : Contains(datastructs[j], addr) => j = i
<1>t. /\ Len(datastructs) \in Nat
      /\ \A j \in 1 .. Len(datastructs) : datastructs[j].address \in Nat /\ datastructs[j].nbytes \in Nat
  BY ObjectAt, LenProperties DEF ObjectsInv, ObjectsShape
<1>1. ASSUME NEW j \in 1 .. Len(datastructs), Contains(datastructs[j], addr)
      PROVE  j \in 2 .. Len(datastructs) /\ ~datastructs[j].is_freed /\ Memory(datastructs[j]) \in heap
  <2>1. j # 1
    BY <1>1, <1>t DEF Contains, ObjectsInv, ObjectsShape
  <2>2. j \in 2 .. Len(datastructs) /\ ~datastructs[j].is_freed
    BY <2>1, <1>1, <1>t DEF Contains
  <2> QED  BY <2>2 DEF ObjectsInv, ObjectsOwn
<1>2. ASSUME NEW j \in 1 .. Len(datastructs), Contains(datastructs[j], addr)
      PROVE  j = i
  <2>1. /\ Memory(datastructs[i]) \in heap /\ Memory(datastructs[j]) \in heap
        /\ i \in 2 .. Len(datastructs) /\ j \in 2 .. Len(datastructs)
        /\ ~datastructs[i].is_freed /\ ~datastructs[j].is_freed
    BY <1>1, <1>2
  <2>2. ~Disjoint(Memory(datastructs[i]), Memory(datastructs[j]))
    <3> DEFINE a == datastructs[i].address
               b == datastructs[j].address
               m == datastructs[i].nbytes
               n == datastructs[j].nbytes
    <3>1. a \in Nat /\ b \in Nat /\ m \in Nat /\ n \in Nat
      BY <1>t
    <3>2. a <= addr /\ addr < a + m /\ b <= addr /\ addr < b + n
      BY <1>2 DEF Contains
    <3>3. Disjoint(Memory(datastructs[i]), Memory(datastructs[j])) <=> a + m <= b \/ b + n <= a
      BY DEF Disjoint, Memory
    <3> HIDE DEF a, b, m, n
    <3> QED  BY <3>1, <3>2, <3>3
  <2>3. Memory(datastructs[j]) = Memory(datastructs[i])
    BY <2>1, <2>2 DEF ObjectsInv, HeapDisjoint
  <2> QED  BY <2>1, <2>3 DEF ObjectsInv, ObjectsOwn
<1> QED  BY <1>1, <1>2

\* datastruct_num returns the object that contains the address, or 0.
LEMMA DatastructNumIs ==
  ASSUME ObjectsInv, NEW addr \in Nat
  PROVE  LET k == DatastructNum(datastructs, addr)
         IN  /\ k \in 0 .. Len(datastructs) - 1
             /\ k # NoDatastruct => Contains(datastructs[k + 1], addr)
             /\ \A i \in 1 .. Len(datastructs) : Contains(datastructs[i], addr) => i = k + 1
<1> DEFINE found == {i \in 1 .. Len(datastructs) : Contains(datastructs[i], addr)}
           k == DatastructNum(datastructs, addr)
<1>t. Len(datastructs) \in Nat /\ Len(datastructs) > 0
  BY LenProperties DEF ObjectsInv, ObjectsShape
<1>1. CASE found = {}
  BY <1>1, <1>t DEF DatastructNum, NoDatastruct
<1>2. CASE found # {}
  <2>1. PICK i \in found : TRUE
    BY <1>2
  <2>2. i \in 2 .. Len(datastructs) /\ found = {i}
    BY ContainingUnique
  <2>3. (CHOOSE j \in found : \A l \in found : j <= l) = i
    BY <2>2
  <2>4. k = i - 1
    BY <2>3, <1>2 DEF DatastructNum
  <2> QED  BY <2>2, <2>4, <1>t
<1> QED  BY <1>1, <1>2

\* What an allocation is made of.
LEMMA AllocationParts ==
  ASSUME NEW a \in Allocation \cup {NullAllocation}
  PROVE  /\ a = << a[1], a[2] >> /\ a[1] \in Nat /\ a[2] \in Nat
         /\ a \in Allocation => a[1] > 0
BY AllocationAssumption DEF NullAllocation

\* What a call other than none is.
LEMMA CallParts ==
  ASSUME ObjectsShape, NEW t \in Thread, call[t] # NoCall
  PROVE  call[t].alloc \in Allocation \cup {NullAllocation} /\ call[t].op \in {"malloc", "free"}
BY DEF ObjectsShape, AnyCall

\* The allocator hands out memory that no object and no call has.
LEMMA MallocKeepsObjects ==
  ASSUME ObjectsInv, NEW t \in Thread, NEW a \in Allocation, Malloc(t, a)
  PROVE  ObjectsInv'
<1>1. /\ call[t] = NoCall /\ \A b \in heap : Disjoint(a, b)
      /\ heap' = heap \cup {a} /\ datastructs' = datastructs
      /\ call' = [call EXCEPT ![t] = [op |-> "malloc", alloc |-> a]]
  BY DEF Malloc
<1>2. /\ call \in [Thread -> AnyCall] /\ heap \subseteq Allocation
      /\ [op |-> "malloc", alloc |-> a] \in AnyCall /\ [op |-> "malloc", alloc |-> a] # NoCall
  BY DEF ObjectsInv, ObjectsShape, AnyCall, NoCall
<1>3. /\ call'[t].alloc = a /\ call'[t] # NoCall
      /\ \A u \in Thread : u # t => call'[u] = call[u]
  BY <1>1, <1>2
<1>4. a[2] > 0 => a \notin heap
  BY <1>1, AllocationParts DEF Disjoint
<1>5. ObjectsShape'
  BY <1>1, <1>2 DEF ObjectsInv, ObjectsShape
<1>6. HeapDisjoint'
  <2> SUFFICES ASSUME NEW b \in heap \cup {a}, NEW c \in heap \cup {a}, b # c
               PROVE  Disjoint(b, c)
    BY <1>1 DEF HeapDisjoint
  <2> QED  BY <1>1 DEF Disjoint, ObjectsInv, HeapDisjoint
<1>7. ObjectsOwn'
  <2> SUFFICES ASSUME NEW i \in 2 .. Len(datastructs), ~datastructs[i].is_freed
               PROVE  /\ Memory(datastructs[i]) \in heap \cup {a}
                      /\ \A j \in 2 .. Len(datastructs) :
                           ~datastructs[j].is_freed /\ Memory(datastructs[j]) = Memory(datastructs[i]) => i = j
                      /\ \A u \in Thread : call'[u] # NoCall => call'[u].alloc # Memory(datastructs[i])
    BY <1>1 DEF ObjectsOwn, Memory
  <2>1. /\ Memory(datastructs[i]) \in heap
        /\ \A j \in 2 .. Len(datastructs) :
             ~datastructs[j].is_freed /\ Memory(datastructs[j]) = Memory(datastructs[i]) => i = j
        /\ \A u \in Thread : call[u] # NoCall => call[u].alloc # Memory(datastructs[i])
    BY DEF ObjectsInv, ObjectsOwn
  <2>2. Memory(datastructs[i])[2] > 0
    BY DEF ObjectsInv, ObjectsShape, Memory
  <2>3. a # Memory(datastructs[i])
    BY <1>4, <2>1, <2>2
  <2> QED  BY <1>3, <2>1, <2>3
<1>8. CallsOwn'
  <2> SUFFICES ASSUME NEW u \in Thread, call'[u] # NoCall, call'[u].alloc[2] > 0
               PROVE  /\ call'[u].alloc \in heap \cup {a}
                      /\ \A v \in Thread : v # u /\ call'[v] # NoCall
                                           => call'[v].alloc # call'[u].alloc
    BY <1>1 DEF CallsOwn
  <2>1. \A v \in Thread : call[v] # NoCall /\ call[v].alloc[2] > 0 =>
          /\ call[v].alloc \in heap
          /\ \A w \in Thread : w # v /\ call[w] # NoCall => call[w].alloc # call[v].alloc
    BY DEF ObjectsInv, CallsOwn
  <2>2. CASE u = t
    <3>1. \A v \in Thread : v # t /\ call[v] # NoCall => call[v].alloc # a
      BY <2>1, <2>2, <1>3, <1>4
    <3> QED  BY <3>1, <2>2, <1>3
  <2>3. CASE u # t
    BY <2>1, <2>3, <1>3, <1>4
  <2> QED  BY <2>2, <2>3
<1> QED  BY <1>5, <1>6, <1>7, <1>8 DEF ObjectsInv

\* An object is registered: the memory in its thread's call becomes its own.
LEMMA HandleDatastructKeepsObjects ==
  ASSUME ObjectsInv, NEW t \in Thread, NEW has_file \in BOOLEAN, HandleDatastruct(t, has_file)
  PROVE  ObjectsInv'
<1> DEFINE a == call[t].alloc
<1>1. /\ call[t].op = "malloc" /\ heap' = heap
      /\ call' = [call EXCEPT ![t] = NoCall]
  BY DEF HandleDatastruct
<1>2. call[t] # NoCall /\ call \in [Thread -> AnyCall] /\ NoCall \in AnyCall
  BY <1>1 DEF NoCall, ObjectsInv, ObjectsShape, AnyCall
<1>3. call'[t] = NoCall /\ \A u \in Thread : u # t => call'[u] = call[u]
  BY <1>1, <1>2
<1>4. /\ a[1] \in Nat /\ a[2] \in Nat /\ a = << a[1], a[2] >>
  BY <1>2, CallParts, AllocationParts DEF ObjectsInv
<1>5. CallsOwn'
  BY <1>1, <1>3 DEF ObjectsInv, CallsOwn
<1>6. HeapDisjoint'
  BY <1>1 DEF ObjectsInv, HeapDisjoint
<1>7. CASE datastructs' = datastructs
  <2>1. ObjectsShape'
    BY <1>1, <1>2, <1>7 DEF ObjectsInv, ObjectsShape
  <2>2. ObjectsOwn'
    BY <1>1, <1>3, <1>7 DEF ObjectsInv, ObjectsOwn, Memory
  <2> QED  BY <2>1, <2>2, <1>5, <1>6 DEF ObjectsInv
<1>8. CASE a[2] > DatastructThreshold /\ datastructs' = Append(datastructs, NewDatastruct(a[1], a[2]))
  <2> DEFINE n == Len(datastructs)
             ds == NewDatastruct(a[1], a[2])
  <2>1. /\ ds \in Object /\ ds.nbytes > 0 /\ ds.address = a[1] /\ ds.nbytes = a[2]
    BY <1>4, <1>8, ThresholdAssumption DEF NewDatastruct, Object
  <2>2. /\ datastructs' \in Seq(Object) /\ Len(datastructs') = n + 1 /\ n \in Nat
        /\ \A i \in 1 .. n : datastructs'[i] = datastructs[i]
        /\ datastructs'[n + 1] = ds
    <3> HIDE DEF ds
    <3> QED  BY <1>8, <2>1, AppendProperties, LenProperties DEF ObjectsInv, ObjectsShape, ds
  <2> HIDE DEF ds, n, a
  <2>3. n > 0 /\ 1 \in 1 .. n
    BY <2>2 DEF ObjectsInv, ObjectsShape, n
  <2>4. ObjectsShape'
    <3>1. \A i \in 2 .. n + 1 : datastructs'[i].nbytes > 0
      <4> SUFFICES ASSUME NEW i \in 2 .. n + 1 PROVE datastructs'[i].nbytes > 0
        OBVIOUS
      <4>1. CASE i = n + 1
        BY <4>1, <2>1, <2>2
      <4>2. CASE i # n + 1
        <5>1. i \in 1 .. n /\ i \in 2 .. n
          BY <4>2, <2>2
        <5> QED  BY <5>1, <2>2 DEF ObjectsInv, ObjectsShape, n
      <4> QED  BY <4>1, <4>2
    <3>2. datastructs'[1].nbytes = 0
      BY <2>2, <2>3 DEF ObjectsInv, ObjectsShape
    <3> QED  BY <3>1, <3>2, <2>2, <2>3, <1>1, <1>2 DEF ObjectsInv, ObjectsShape
  <2>5. ObjectsOwn'
    <3>1. a[2] > 0 /\ \A i \in 1 .. n : datastructs'[i].is_freed = datastructs[i].is_freed /\ Memory(datastructs'[i]) = Memory(datastructs[i])
      BY <2>1, <2>2 DEF Memory
    <3>2. Memory(datastructs'[n + 1]) = a
      BY <2>1, <2>2, <1>4 DEF Memory, a
    <3>3. a \in heap /\ \A u \in Thread : u # t /\ call[u] # NoCall => call[u].alloc # a
      BY <3>1, <1>2 DEF ObjectsInv, CallsOwn, a
    <3>4. \A i \in 2 .. n : ~datastructs[i].is_freed => Memory(datastructs[i]) # a
      BY <1>2 DEF ObjectsInv, ObjectsOwn, n, a
    <3>5. \A i \in 2 .. n + 1 : i = n + 1 \/ (i \in 2 .. n /\ i \in 1 .. n)
      BY <2>2
    <3> SUFFICES ASSUME NEW i \in 2 .. n + 1, ~datastructs'[i].is_freed
                 PROVE  /\ Memory(datastructs'[i]) \in heap
                        /\ \A j \in 2 .. n + 1 :
                             ~datastructs'[j].is_freed /\ Memory(datastructs'[j]) = Memory(datastructs'[i]) => i = j
                        /\ \A u \in Thread : call'[u] # NoCall => call'[u].alloc # Memory(datastructs'[i])
      BY <2>2, <1>1 DEF ObjectsOwn
    <3>6. CASE i = n + 1
      <4>1. \A j \in 2 .. n + 1 : ~datastructs'[j].is_freed /\ Memory(datastructs'[j]) = a => j = n + 1
        BY <3>1, <3>4, <3>5
      <4> QED  BY <4>1, <3>2, <3>3, <3>6, <1>3
    <3>7. CASE i \in 2 .. n /\ i \in 1 .. n
      <4>1. /\ Memory(datastructs[i]) \in heap
            /\ \A j \in 2 .. n : ~datastructs[j].is_freed /\ Memory(datastructs[j]) = Memory(datastructs[i]) => i = j
            /\ \A u \in Thread : call[u] # NoCall => call[u].alloc # Memory(datastructs[i])
        BY <3>1, <3>7 DEF ObjectsInv, ObjectsOwn, n
      <4>2. Memory(datastructs[i]) # a
        BY <3>1, <3>4, <3>7
      <4>3. \A j \in 2 .. n + 1 : ~datastructs'[j].is_freed /\ Memory(datastructs'[j]) = Memory(datastructs'[i]) => i = j
        <5> SUFFICES ASSUME NEW j \in 2 .. n + 1, ~datastructs'[j].is_freed, Memory(datastructs'[j]) = Memory(datastructs'[i])
                     PROVE  i = j
          OBVIOUS
        <5>1. j \in 2 .. n /\ j \in 1 .. n
          BY <3>1, <3>2, <3>5, <3>7, <4>2
        <5> QED  BY <5>1, <4>1, <3>1, <3>7
      <4> QED  BY <4>1, <4>3, <3>1, <3>7, <1>3
    <3> QED  BY <3>5, <3>6, <3>7
  <2> QED  BY <2>4, <2>5, <1>5, <1>6 DEF ObjectsInv
<1> QED  BY <1>7, <1>8 DEF HandleDatastruct

\* A free marks the object that the freed memory is.
LEMMA NewFreeKeepsObjects ==
  ASSUME ObjectsInv, NEW t \in Thread, NEW a \in Allocation \cup {NullAllocation}, NewFree(t, a)
  PROVE  /\ ObjectsInv'
         /\ Len(datastructs') = Len(datastructs)
         /\ \A i \in 1 .. Len(datastructs) :
              /\ datastructs'[i].address = datastructs[i].address
              /\ datastructs'[i].nbytes = datastructs[i].nbytes
              /\ datastructs[i].is_freed => datastructs'[i].is_freed
<1> DEFINE m == DatastructNum(datastructs, a[1]) + 1
           n == Len(datastructs)
           fr == [op |-> "free", alloc |-> a]
<1>1. /\ call[t] = NoCall /\ heap' = heap
      /\ a = NullAllocation \/ Freeable(a)
      /\ datastructs' = [datastructs EXCEPT ![m].is_freed = TRUE]
      /\ call' = [call EXCEPT ![t] = fr]
  BY DEF NewFree
<1>2. /\ call \in [Thread -> AnyCall] /\ fr \in AnyCall /\ fr # NoCall
      /\ datastructs \in Seq(Object) /\ n \in Nat /\ n > 0
  BY LenProperties DEF ObjectsInv, ObjectsShape, AnyCall, NoCall
<1>3. /\ call'[t].alloc = a /\ call'[t] # NoCall
      /\ \A u \in Thread : u # t => call'[u] = call[u]
  BY <1>1, <1>2
<1>4. a = << a[1], a[2] >> /\ a[1] \in Nat /\ a[2] \in Nat
  BY AllocationParts
<1>5. m \in 1 .. n /\ \A i \in 1 .. n : Contains(datastructs[i], a[1]) => i = m
  <2> DEFINE k == DatastructNum(datastructs, a[1])
  <2>1. /\ k \in 0 .. n - 1
        /\ \A i \in 1 .. n : Contains(datastructs[i], a[1]) => i = k + 1
    BY <1>4, DatastructNumIs
  <2> HIDE DEF k
  <2>2. k + 1 \in 1 .. n
    BY <2>1, <1>2
  <2> QED  BY <2>1, <2>2 DEF k
<1> HIDE DEF m, n, fr
<1>6. /\ datastructs' \in Seq(Object) /\ Len(datastructs') = n
      /\ \A i \in 1 .. n :
           /\ datastructs'[i].address = datastructs[i].address
           /\ datastructs'[i].nbytes = datastructs[i].nbytes
           /\ datastructs[i].is_freed => datastructs'[i].is_freed
           /\ i = m => datastructs'[i].is_freed
  <2>1. datastructs[m] \in Object
    BY <1>2, <1>5, ElementOfSeq DEF n
  <2> DEFINE d == [datastructs[m] EXCEPT !.is_freed = TRUE]
  <2>2. d \in Object /\ d.address = datastructs[m].address /\ d.nbytes = datastructs[m].nbytes /\ d.is_freed
    BY <2>1 DEF Object
  <2>3. datastructs' = [datastructs EXCEPT ![m] = d]
    BY <1>1
  <2> HIDE DEF d
  <2>4. datastructs' \in Seq(Object) /\ Len(datastructs') = n
    BY <2>2, <2>3, <1>2, <1>5, ExceptSeq DEF n
  <2>5. \A i \in 1 .. n : datastructs'[i] = IF i = m THEN d ELSE datastructs[i]
    BY <2>2, <2>3, <1>2, <1>5, ExceptSeq DEF n
  <2> QED  BY <2>2, <2>4, <2>5
<1>7. ObjectsShape'
  <2>1. 1 \in 1 .. n /\ \A i \in 2 .. n : i \in 1 .. n
    BY <1>2
  <2> QED  BY <2>1, <1>1, <1>2, <1>6 DEF ObjectsInv, ObjectsShape, n
<1>8. HeapDisjoint'
  BY <1>1 DEF ObjectsInv, HeapDisjoint
<1>9. ASSUME NEW i \in 2 .. n, ~datastructs'[i].is_freed
      PROVE  ~datastructs[i].is_freed /\ Memory(datastructs'[i]) = Memory(datastructs[i]) /\ a # Memory(datastructs[i])
  <2>1. i \in 1 .. n /\ i # m /\ ~datastructs[i].is_freed
    <3>1. i \in 1 .. n
      BY <1>2
    <3> QED  BY <3>1, <1>6, <1>9, Zenon
  <2>2. datastructs[i].nbytes \in Nat /\ datastructs[i].nbytes > 0 /\ datastructs[i].address \in Nat
    BY <2>1, ObjectAt DEF ObjectsInv, ObjectsShape, n
  <2>3. ASSUME a = Memory(datastructs[i])
        PROVE  Contains(datastructs[i], a[1])
    <3>1. a[1] = datastructs[i].address
      BY <2>3 DEF Memory
    <3> QED  BY <3>1, <2>1, <2>2 DEF Contains
  <2>4. a # Memory(datastructs[i])
    BY <2>1, <2>3, <1>5
  <2>5. Memory(datastructs'[i]) = Memory(datastructs[i])
    BY <2>1, <1>6, Zenon DEF Memory
  <2> QED  BY <2>1, <2>4, <2>5
<1>10. ObjectsOwn'
  <2>1. ASSUME NEW i \in 2 .. n, ~datastructs[i].is_freed
        PROVE  /\ Memory(datastructs[i]) \in heap
               /\ \A j \in 2 .. n : ~datastructs[j].is_freed /\ Memory(datastructs[j]) = Memory(datastructs[i]) => i = j
               /\ \A u \in Thread : call[u] # NoCall => call[u].alloc # Memory(datastructs[i])
    BY <2>1 DEF ObjectsInv, ObjectsOwn, n
  <2> SUFFICES ASSUME NEW i \in 2 .. n, ~datastructs'[i].is_freed
               PROVE  /\ Memory(datastructs'[i]) \in heap
                      /\ \A j \in 2 .. n :
                           ~datastructs'[j].is_freed /\ Memory(datastructs'[j]) = Memory(datastructs'[i]) => i = j
                      /\ \A u \in Thread : call'[u] # NoCall => call'[u].alloc # Memory(datastructs'[i])
    BY <1>1, <1>6 DEF ObjectsOwn
  <2> QED  BY <2>1, <1>9, <1>3
<1>11. CallsOwn'
  <2>1. a[2] > 0 => a \in heap /\ \A u \in Thread : call[u] # NoCall => call[u].alloc # a
    <3>1. a = NullAllocation => a[2] = 0
      BY DEF NullAllocation
    <3> QED  BY <3>1, <1>1 DEF Freeable
  <2> SUFFICES ASSUME NEW u \in Thread, call'[u] # NoCall, call'[u].alloc[2] > 0
               PROVE  /\ call'[u].alloc \in heap
                      /\ \A v \in Thread : v # u /\ call'[v] # NoCall
                                           => call'[v].alloc # call'[u].alloc
    BY <1>1 DEF CallsOwn
  <2>2. CASE u = t
    BY <2>1, <2>2, <1>3
  <2>3. CASE u # t
    <3>1. /\ call[u].alloc \in heap
          /\ \A v \in Thread : v # u /\ call[v] # NoCall => call[v].alloc # call[u].alloc
      BY <2>3, <1>3 DEF ObjectsInv, CallsOwn
    <3> QED  BY <3>1, <2>1, <2>3, <1>3
  <2> QED  BY <2>2, <2>3
<1>12. ObjectsInv'
  BY <1>7, <1>8, <1>10, <1>11 DEF ObjectsInv
<1> QED  BY <1>6, <1>12, Zenon DEF n

\* Memory that a call gives back is no live object's.
LEMMA OrgFreeKeepsObjects ==
  ASSUME ObjectsInv, NEW t \in Thread, OrgFree(t)
  PROVE  ObjectsInv'
<1> DEFINE a == call[t].alloc
<1>1. /\ call[t].op = "free" /\ heap' = heap \ {a} /\ datastructs' = datastructs
      /\ call' = [call EXCEPT ![t] = NoCall]
  BY DEF OrgFree
<1>2. call[t] # NoCall /\ call \in [Thread -> AnyCall] /\ NoCall \in AnyCall
  BY <1>1 DEF NoCall, ObjectsInv, ObjectsShape, AnyCall
<1>3. call'[t] = NoCall /\ \A u \in Thread : u # t => call'[u] = call[u]
  BY <1>1, <1>2
<1> HIDE DEF a
<1>4. ObjectsShape'
  BY <1>1, <1>2 DEF ObjectsInv, ObjectsShape
<1>5. HeapDisjoint'
  BY <1>1 DEF ObjectsInv, HeapDisjoint
<1>6. ObjectsOwn'
  BY <1>1, <1>2, <1>3 DEF ObjectsInv, ObjectsOwn, Memory, a
<1>7. CallsOwn'
  <2> SUFFICES ASSUME NEW u \in Thread, call'[u] # NoCall, call'[u].alloc[2] > 0
               PROVE  /\ call'[u].alloc \in heap \ {a}
                      /\ \A v \in Thread : v # u /\ call'[v] # NoCall
                                           => call'[v].alloc # call'[u].alloc
    BY <1>1 DEF CallsOwn
  <2>1. /\ u # t /\ call[u].alloc \in heap
        /\ \A v \in Thread : v # u /\ call[v] # NoCall => call[v].alloc # call[u].alloc
    BY <1>3 DEF ObjectsInv, CallsOwn
  <2> QED  BY <2>1, <1>2, <1>3 DEF a
<1> QED  BY <1>4, <1>5, <1>6, <1>7 DEF ObjectsInv

-----------------------------------------------------------------------------
(***************************************************************************)
(* The caches and the map of blocks.                                       *)
(***************************************************************************)
Cache == [ds_nums : SUBSET Nat, partition : [0 .. 1 -> CacheSimState]]

MapShape ==
  /\ DOMAIN addrMap \subseteq Block
  /\ addrMap \in [DOMAIN addrMap -> Entry]

CachesShape ==
  /\ cachesims \in Seq(Cache)
  /\ Len(cachesims) > 0
  /\ \A i \in Caches : cachesims[i].ds_nums \subseteq 1 .. Len(datastructs) - 1
  /\ corrupt \subseteq Caches

\* A function on an initial segment of the numbers is a sequence.
LEMMA SeqOf ==
  ASSUME NEW S, NEW n \in Nat, NEW f \in [1 .. n -> S]
  PROVE  f \in Seq(S) /\ Len(f) = n
<1>1. f \in Seq(S)
  BY SeqDef
<1> QED  BY <1>1, LenProperties

LEMMA BaseNat == ASSUME NEW x \in Block PROVE Base(x) \in Nat
<1>1. x \in Nat /\ BlockLen \in Nat
  BY BlockAssumption, BlockLenAssumption
<1> QED  BY <1>1 DEF Base

\* The stack of a simulator after an access.
LEMMA AccessSimStack ==
  ASSUME NEW c, Consistent(c), NEW x \in Block
  PROVE  /\ Consistent(AccessSim(c, x))
         /\ \A y : OnStack(AccessSim(c, x), y) <=> y = x \/ OnStack(c, y)
<1> DEFINE r == AccessSim(c, x)
<1>1. Consistent(r)
  BY AccessSimConsistent
<1>2. SeenOf(r) = SeenOf(c) \cup {x}
  BY AccessSimHistory DEF HistoryStep
<1> HIDE DEF r
<1>3. \A y : (y \in SeenOf(r) <=> OnStack(r, y)) /\ (y \in SeenOf(c) <=> OnStack(c, y))
  BY DEF SeenOf, OnStack
<1> QED  BY <1>1, <1>2, <1>3 DEF r

\* r is the cache cs after an access to x in partition p.
AccessedIn(cs, r, p, x) ==
  /\ r \in Cache
  /\ r.ds_nums = cs.ds_nums
  /\ \A q \in 0 .. 1 :
       r.partition[q] = IF q = p THEN AccessSim(cs.partition[q], x) ELSE cs.partition[q]

LEMMA PartitionChanged ==
  ASSUME NEW cs \in Cache, NEW p \in 0 .. 1, NEW x \in Block, Consistent(cs.partition[p]), NEW s,
         s = AccessSim(cs.partition[p], x)
  PROVE  AccessedIn(cs, [cs EXCEPT !.partition = [cs.partition EXCEPT ![p] = s]], p, x)
<1>1. s \in CacheSimState
  BY AccessSimConsistent DEF Consistent
<1> QED  BY <1>1 DEF Cache, AccessedIn

\* on_block_new is an access of a block without a node, on_block_seen one of a
\* block with a node in the partition it is looked for.
LEMMA CacheNewAccesses ==
  ASSUME NEW cs \in Cache, NEW ds_num, NEW x \in Block, NEW p \in 0 .. 1,
         p = PartitionFor(cs, ds_num), Consistent(cs.partition[p]), ~OnStack(cs.partition[p], x)
  PROVE  AccessedIn(cs, CacheNew(cs, ds_num, x), p, x)
<1> DEFINE s == IncrAccess(OnBlockNew(cs.partition[p], x), InfBucket)
<1>1. s = AccessSim(cs.partition[p], x)
  BY DEF AccessSim
<1>2. CacheNew(cs, ds_num, x) = [cs EXCEPT !.partition = [cs.partition EXCEPT ![p] = s]]
  BY DEF CacheNew
<1> HIDE DEF s
<1> QED  BY <1>1, <1>2, PartitionChanged

LEMMA CacheSeenAccesses ==
  ASSUME NEW cs \in Cache, NEW ds_num, NEW x \in Block, NEW p \in 0 .. 1,
         p = PartitionFor(cs, ds_num), Consistent(cs.partition[p]), OnStack(cs.partition[p], x)
  PROVE  AccessedIn(cs, CacheSeen(cs, ds_num, x), p, x)
<1> DEFINE s == IncrAccess(OnBlockSeen(cs.partition[p], x), SeenBucket(cs.partition[p], x))
<1>1. s = AccessSim(cs.partition[p], x)
  BY DEF AccessSim
<1>2. CacheSeen(cs, ds_num, x) = [cs EXCEPT !.partition = [cs.partition EXCEPT ![p] = s]]
  BY DEF CacheSeen
<1> HIDE DEF s
<1> QED  BY <1>1, <1>2, PartitionChanged

\* The block x has nodes in the caches 1 .. Known(x).
Known(x) == IF x \in DOMAIN addrMap THEN Len(addrMap[x].iterators) ELSE 0

\* What an access to x that is looked at does to the map and the caches.
Accessed(x) ==
  LET entry == addrMap'[x]
  IN  /\ DOMAIN addrMap' = DOMAIN addrMap \cup {x}
      /\ addrMap' \in [DOMAIN addrMap' -> Entry]
      /\ \A y \in DOMAIN addrMap : y # x => addrMap'[y] = addrMap[y]
      /\ Len(entry.iterators) = Len(cachesims)
      /\ \A i \in Caches :
           entry.iterators[i] = PartitionFor(cachesims[i],
                                  IF i <= Known(x) THEN addrMap[x].ds_num ELSE entry.ds_num)
      /\ \/ /\ entry.ds_num = DatastructNum(datastructs, Base(x))
            /\ x \in DOMAIN addrMap => datastructs[addrMap[x].ds_num + 1].is_freed
         \/ /\ x \in DOMAIN addrMap
            /\ ~datastructs[addrMap[x].ds_num + 1].is_freed
            /\ entry.ds_num = addrMap[x].ds_num
      /\ corrupt' = corrupt \cup {i \in 1 .. Known(x) :
                                    addrMap[x].iterators[i] # entry.iterators[i]}
      /\ cachesims' \in Seq(Cache)
      /\ Len(cachesims') = Len(cachesims)
      /\ \A i \in Caches :
           IF i \in corrupt' THEN cachesims'[i] = cachesims[i]
           ELSE AccessedIn(cachesims[i], cachesims'[i], entry.iterators[i], x)

\* A cache without a foreign node has consistent partitions.
LEMMA SoundCache ==
  ASSUME CachesShape, CachesConsistent, NEW i \in Caches, i \notin corrupt
  PROVE  cachesims[i] \in Cache /\ \A p \in 0 .. 1 : Consistent(cachesims[i].partition[p])
<1>1. cachesims[i] \in Cache
  BY ElementOfSeq DEF CachesShape, Caches
<1> QED  BY <1>1 DEF CachesConsistent

LEMMA PartitionForType == \A cs, k : PartitionFor(cs, k) \in 0 .. 1
BY DEF PartitionFor

LEMMA NewBlockAccesses ==
  ASSUME ObjectsInv, MapShape, CachesShape, IteratorsAligned, CachesConsistent,
         NEW x \in Block, x \notin DOMAIN addrMap, NewBlock(x)
  PROVE  Accessed(x)
<1> DEFINE k == DatastructNum(datastructs, Base(x))
           n == Len(cachesims)
           its == [i \in 1 .. n |-> PartitionFor(cachesims[i], k)]
           css == [i \in 1 .. n |-> IF i \in corrupt THEN cachesims[i] ELSE CacheNew(cachesims[i], k, x)]
           entry == [ds_num |-> k, iterators |-> its]
<1>1. /\ addrMap' = [y \in DOMAIN addrMap \cup {x} |-> IF y = x THEN entry ELSE addrMap[y]]
      /\ cachesims' = css /\ corrupt' = corrupt
  BY DEF NewBlock
<1>2. k \in Nat /\ n \in Nat /\ Caches = 1 .. n
  BY BaseNat, DatastructNumIs, LenProperties DEF CachesShape, Caches, ObjectsInv, ObjectsShape
<1> HIDE DEF k, n
<1>3. \A i \in 1 .. n : i \notin corrupt =>
        AccessedIn(cachesims[i], css[i], PartitionFor(cachesims[i], k), x)
  <2> SUFFICES ASSUME NEW i \in 1 .. n, i \notin corrupt
               PROVE  AccessedIn(cachesims[i], CacheNew(cachesims[i], k, x), PartitionFor(cachesims[i], k), x)
    OBVIOUS
  <2>1. \A p \in 0 .. 1 : ~OnStack(cachesims[i].partition[p], x)
    BY <1>2 DEF IteratorsAligned
  <2>2. cachesims[i] \in Cache /\ \A p \in 0 .. 1 : Consistent(cachesims[i].partition[p])
    BY <1>2, SoundCache
  <2> QED  BY <2>1, <2>2, PartitionForType, CacheNewAccesses
<1>4. css \in Seq(Cache) /\ Len(css) = n
  <2>1. \A i \in 1 .. n : css[i] \in Cache
    <3> SUFFICES ASSUME NEW i \in 1 .. n PROVE css[i] \in Cache
      OBVIOUS
    <3>1. CASE i \in corrupt
      BY <3>1, ElementOfSeq DEF CachesShape, n
    <3>2. CASE i \notin corrupt
      BY <3>2, <1>3 DEF AccessedIn
    <3> QED  BY <3>1, <3>2
  <2> QED  BY <2>1, <1>2, SeqOf
<1>5. its \in Seq(0 .. 1) /\ Len(its) = n
  BY <1>2, PartitionForType, SeqOf
<1>6. entry \in Entry
  BY <1>2, <1>5 DEF Entry
<1>7. /\ addrMap'[x] = entry /\ DOMAIN addrMap' = DOMAIN addrMap \cup {x}
      /\ \A y \in DOMAIN addrMap : y # x => addrMap'[y] = addrMap[y]
  BY <1>1
<1>8. addrMap' \in [DOMAIN addrMap' -> Entry]
  BY <1>1, <1>6 DEF MapShape
<1>9. Known(x) = 0
  BY DEF Known
<1>10. entry.ds_num = k /\ entry.iterators = its /\ \A i \in 1 .. n : its[i] = PartitionFor(cachesims[i], k)
  OBVIOUS
<1> HIDE DEF entry, its, css
<1>11. \A i \in 1 .. n : ~(i <= 0)
  BY <1>2
<1>12. {i \in 1 .. 0 : addrMap[x].iterators[i] # entry.iterators[i]} = {}
  OBVIOUS
<1>13. \A i \in 1 .. n : IF i \in corrupt' THEN cachesims'[i] = cachesims[i]
                         ELSE AccessedIn(cachesims[i], cachesims'[i], its[i], x)
  BY <1>1, <1>3, <1>10 DEF css
<1> QED  BY <1>1, <1>2, <1>4, <1>5, <1>7, <1>8, <1>9, <1>10, <1>11, <1>12, <1>13 DEF Accessed, k, n

LEMMA SeenBlockAccesses ==
  ASSUME ObjectsInv, MapShape, CachesShape, IteratorsAligned, CachesConsistent,
         NEW x \in Block, x \in DOMAIN addrMap, SeenBlock(x)
  PROVE  Accessed(x)
<1> DEFINE old == addrMap[x].ds_num
           new == Reattributed(x)
           nodes == addrMap[x].iterators
           known == Len(nodes)
           n == Len(cachesims)
           its == [i \in 1 .. n |-> PartitionFor(cachesims[i], IF i <= known THEN old ELSE new)]
           stray == {i \in 1 .. known : nodes[i] # PartitionFor(cachesims[i], old)}
           css == [i \in 1 .. n |-> IF i \in corrupt' THEN cachesims[i]
                                    ELSE IF i \in 1 .. known THEN CacheSeen(cachesims[i], old, x)
                                    ELSE CacheNew(cachesims[i], new, x)]
           entry == [ds_num |-> new, iterators |-> its]
<1>1. /\ addrMap' = [addrMap EXCEPT ![x] = entry]
      /\ corrupt' = corrupt \cup stray
      /\ cachesims' = css
  BY DEF SeenBlock, LateObject, Stored
<1>2. /\ addrMap[x] \in Entry /\ old \in Nat /\ nodes \in Seq(0 .. 1) /\ known \in Nat
      /\ n \in Nat /\ Caches = 1 .. n /\ known \in 1 .. n
  <2>1. addrMap[x] \in Entry
    BY DEF MapShape
  <2>2. old \in Nat /\ nodes \in Seq(0 .. 1) /\ known \in Nat
    BY <2>1, LenProperties DEF Entry
  <2>3. n \in Nat /\ Caches = 1 .. n
    BY LenProperties DEF CachesShape, Caches
  <2> QED  BY <2>1, <2>2, <2>3 DEF IteratorsAligned
<1>3. /\ new \in Nat
      /\ \/ new = DatastructNum(datastructs, Base(x)) /\ datastructs[old + 1].is_freed
         \/ ~datastructs[old + 1].is_freed /\ new = old
  <2>1. DatastructNum(datastructs, Base(x)) \in 0 .. Len(datastructs) - 1
    BY BaseNat, DatastructNumIs
  <2>2. DatastructNum(datastructs, Base(x)) \in Nat
    BY <2>1
  <2>3. CASE datastructs[old + 1].is_freed
    BY <2>2, <2>3 DEF Reattributed
  <2>4. CASE ~datastructs[old + 1].is_freed
    BY <2>4, <1>2 DEF Reattributed
  <2> QED  BY <2>3, <2>4
<1>4. its \in Seq(0 .. 1) /\ Len(its) = n
  <2> HIDE DEF n, known, old, new
  <2> QED  BY <1>2, PartitionForType, SeqOf
<1>5. \A i \in 1 .. n : its[i] = PartitionFor(cachesims[i], IF i <= known THEN old ELSE new)
  OBVIOUS
<1>6. \A i \in 1 .. n : css[i] = IF i \in corrupt' THEN cachesims[i]
                                 ELSE IF i \in 1 .. known THEN CacheSeen(cachesims[i], old, x)
                                 ELSE CacheNew(cachesims[i], new, x)
  OBVIOUS
<1>7. /\ entry.ds_num = new /\ entry.iterators = its /\ entry \in Entry
  BY <1>3, <1>4 DEF Entry
<1>8. /\ addrMap'[x] = entry /\ DOMAIN addrMap' = DOMAIN addrMap
      /\ \A y \in DOMAIN addrMap : y # x => addrMap'[y] = addrMap[y]
      /\ addrMap' \in [DOMAIN addrMap' -> Entry]
  <2> HIDE DEF entry
  <2> QED  BY <1>1, <1>7 DEF MapShape
<1>9. Known(x) = known
  BY DEF Known
<1>10. stray = {i \in 1 .. known : nodes[i] # its[i]}
  BY <1>2, <1>5
<1> HIDE DEF entry, its, css, known, old, new, n
<1>11. \A i \in 1 .. n : i \notin corrupt' => AccessedIn(cachesims[i], css[i], its[i], x)
  <2> SUFFICES ASSUME NEW i \in 1 .. n, i \notin corrupt'
               PROVE  AccessedIn(cachesims[i], css[i], its[i], x)
    OBVIOUS
  <2>1. i \notin corrupt /\ i \notin stray
    BY <1>1
  <2>2. cachesims[i] \in Cache /\ \A p \in 0 .. 1 : Consistent(cachesims[i].partition[p])
    BY <2>1, <1>2, SoundCache
  <2>3. \A p \in 0 .. 1 : OnStack(cachesims[i].partition[p], x) <=> i <= known /\ nodes[i] = p
    BY <2>1, <1>2 DEF IteratorsAligned, known
  <2>4. its[i] \in 0 .. 1
    BY <1>5, PartitionForType
  <2>5. CASE i <= known
    <3>1. i \in 1 .. known /\ nodes[i] = its[i] /\ its[i] = PartitionFor(cachesims[i], old)
      BY <2>1, <2>5, <1>2, <1>5, <1>10
    <3>2. css[i] = CacheSeen(cachesims[i], old, x)
      BY <3>1, <1>6
    <3>3. OnStack(cachesims[i].partition[its[i]], x)
      BY <3>1, <2>3, <2>4, <2>5
    <3> QED  BY <3>1, <3>2, <3>3, <2>2, <2>4, CacheSeenAccesses
  <2>6. CASE ~(i <= known)
    <3>1. its[i] = PartitionFor(cachesims[i], new) /\ css[i] = CacheNew(cachesims[i], new, x)
      BY <2>6, <1>2, <1>5, <1>6
    <3>2. ~OnStack(cachesims[i].partition[its[i]], x)
      BY <2>3, <2>4, <2>6
    <3> QED  BY <3>1, <3>2, <2>2, <2>4, CacheNewAccesses
  <2> QED  BY <2>5, <2>6
<1>12. css \in Seq(Cache) /\ Len(css) = n
  <2>1. \A i \in 1 .. n : css[i] \in Cache
    <3> SUFFICES ASSUME NEW i \in 1 .. n PROVE css[i] \in Cache
      OBVIOUS
    <3>1. CASE i \in corrupt'
      BY <3>1, <1>6, ElementOfSeq DEF CachesShape, n
    <3>2. CASE i \notin corrupt'
      BY <3>2, <1>11 DEF AccessedIn
    <3> QED  BY <3>1, <3>2
  <2>2. css \in [1 .. n -> Cache]
    BY <2>1 DEF css
  <2> QED  BY <2>2, <1>2, SeqOf
<1>13. \A i \in Caches : its[i] = PartitionFor(cachesims[i], IF i <= Known(x) THEN addrMap[x].ds_num ELSE entry.ds_num)
  BY <1>2, <1>5, <1>7, <1>9 DEF old
<1>14. corrupt' = corrupt \cup {i \in 1 .. Known(x) : addrMap[x].iterators[i] # entry.iterators[i]}
  BY <1>1, <1>7, <1>9, <1>10
<1>15. \A i \in Caches : IF i \in corrupt' THEN cachesims'[i] = cachesims[i]
                         ELSE AccessedIn(cachesims[i], cachesims'[i], its[i], x)
  BY <1>1, <1>2, <1>6, <1>11
<1>16. \/ /\ entry.ds_num = DatastructNum(datastructs, Base(x))
          /\ x \in DOMAIN addrMap => datastructs[addrMap[x].ds_num + 1].is_freed
       \/ /\ x \in DOMAIN addrMap
          /\ ~datastructs[addrMap[x].ds_num + 1].is_freed
          /\ entry.ds_num = addrMap[x].ds_num
  BY <1>3, <1>7 DEF old
<1>17. DOMAIN addrMap' = DOMAIN addrMap \cup {x}
  BY <1>8
<1> QED  BY <1>1, <1>4, <1>7, <1>8, <1>12, <1>13, <1>14, <1>15, <1>16, <1>17 DEF Accessed, n

-----------------------------------------------------------------------------
(***************************************************************************)
(* The invariant.                                                          *)
(***************************************************************************)

\* A block's data object, if live, contains it.
Attributed ==
  \A x \in DOMAIN addrMap :
    LET k == addrMap[x].ds_num
    IN  /\ k \in 0 .. Len(datastructs) - 1
        /\ k # NoDatastruct /\ ~datastructs[k + 1].is_freed
             => Contains(datastructs[k + 1], Base(x))

\* A block that has an object has its node in no cache of another object that
\* contains it: at the block's last access there was none.
OneObject ==
  \A x \in DOMAIN addrMap : \A i \in 1 .. Len(addrMap[x].iterators) :
    \A k \in cachesims[i].ds_nums :
      addrMap[x].ds_num # NoDatastruct /\ Contains(datastructs[k + 1], Base(x))
        => k = addrMap[x].ds_num

\* The first cache isolates nothing and has every block in partition 1.
FirstCache ==
  /\ cachesims[1].ds_nums = {}
  /\ 1 \notin corrupt
  /\ \A x \in DOMAIN addrMap : addrMap[x].iterators[1] = 1

MapInv ==
  /\ MapShape
  /\ CachesShape
  /\ IteratorsAligned
  /\ CachesConsistent
  /\ Attributed
  /\ OneObject
  /\ FirstCache
  /\ StrayNodesNeedFree

\* An access in progress has its second block to come, which is counted when
\* it comes; without a call of free nothing is marked.
StepShape ==
  /\ second = NoSecond \/ second \in [thread : Thread, block : Block]
  /\ addr_prev \in [Thread -> Block \cup {NoBlock}]
  /\ accesses \in Nat
  /\ accesses + (IF second = NoSecond THEN 0 ELSE 1) <= MaxAccesses
  /\ ~MayFree => \A i \in 1 .. Len(datastructs) : ~datastructs[i].is_freed

IInv == ObjectsInv /\ MapInv /\ StepShape

\* Cache i isolates an object some free has marked, or data object 0 is marked.
IsolatesFreed(i) ==
  \E k \in cachesims[i].ds_nums \cup {NoDatastruct} : datastructs[k + 1].is_freed

LEMMA StrayNodes ==
  StrayNodesNeedFree <=>
    /\ \A i \in corrupt : IsolatesFreed(i)
    /\ \A x \in DOMAIN addrMap : \A i \in 1 .. Len(addrMap[x].iterators) :
         addrMap[x].iterators[i] # PartitionFor(cachesims[i], addrMap[x].ds_num)
           => IsolatesFreed(i)
BY DEF StrayNodesNeedFree, IsolatesFreed

\* The parts of the map's invariant as an access keeps them.
LEMMA AccessedKeepsCaches ==
  ASSUME MapInv, NEW x \in Block, Accessed(x), UNCHANGED datastructs
  PROVE  /\ MapShape' /\ CachesShape' /\ IteratorsAligned' /\ CachesConsistent' /\ FirstCache'
         /\ \A i \in Caches : cachesims'[i].ds_nums = cachesims[i].ds_nums
<1> DEFINE entry == addrMap'[x]
           n == Len(cachesims)
<1>1. /\ DOMAIN addrMap' = DOMAIN addrMap \cup {x}
      /\ addrMap' \in [DOMAIN addrMap' -> Entry]
      /\ \A y \in DOMAIN addrMap : y # x => addrMap'[y] = addrMap[y]
      /\ Len(entry.iterators) = n
      /\ \A i \in Caches :
           entry.iterators[i] = PartitionFor(cachesims[i],
                                  IF i <= Known(x) THEN addrMap[x].ds_num ELSE entry.ds_num)
      /\ corrupt' = corrupt \cup {i \in 1 .. Known(x) :
                                    addrMap[x].iterators[i] # entry.iterators[i]}
      /\ cachesims' \in Seq(Cache)
      /\ Len(cachesims') = n
      /\ \A i \in Caches :
           IF i \in corrupt' THEN cachesims'[i] = cachesims[i]
           ELSE AccessedIn(cachesims[i], cachesims'[i], entry.iterators[i], x)
  BY DEF Accessed
<1>2. n \in Nat /\ n > 0 /\ Caches = 1 .. n /\ Caches' = 1 .. n
  BY <1>1, LenProperties DEF MapInv, CachesShape, Caches
<1>3. MapShape'
  BY <1>1 DEF MapInv, MapShape
<1>4. Known(x) \in 0 .. n
  BY <1>2 DEF Known, MapInv, IteratorsAligned
<1>5. \A i \in Caches : cachesims'[i].ds_nums = cachesims[i].ds_nums
  BY <1>1 DEF AccessedIn
<1>6. CachesShape'
  <2>1. corrupt' \subseteq Caches
    BY <1>1, <1>2, <1>4 DEF MapInv, CachesShape
  <2> QED  BY <2>1, <1>1, <1>2, <1>5 DEF MapInv, CachesShape
<1>7. FirstCache'
  <2>1. 1 \in Caches /\ \A k : PartitionFor(cachesims[1], k) = 1
    BY <1>2 DEF MapInv, FirstCache, PartitionFor
  <2>2. entry.iterators[1] = 1
    BY <2>1, <1>1
  <2>3. 1 <= Known(x) => addrMap[x].iterators[1] = 1
    BY DEF MapInv, FirstCache, Known
  <2> QED  BY <2>1, <2>2, <2>3, <1>1, <1>4, <1>5 DEF MapInv, FirstCache
<1> HIDE DEF entry, n
<1>8. ASSUME NEW i \in Caches, i \notin corrupt'
      PROVE  /\ \A p \in 0 .. 1 : Consistent(cachesims'[i].partition[p])
             /\ \A p \in 0 .. 1 : \A y \in Block :
                  OnStack(cachesims'[i].partition[p], y) <=>
                    \/ y = x /\ entry.iterators[i] = p
                    \/ y # x /\ OnStack(cachesims[i].partition[p], y)
  <2> DEFINE q == entry.iterators[i]
  <2>1. i \notin corrupt /\ AccessedIn(cachesims[i], cachesims'[i], q, x)
    BY <1>1, <1>8
  <2>2. \A p \in 0 .. 1 : Consistent(cachesims[i].partition[p])
    BY <2>1 DEF MapInv, CachesConsistent
  <2>3. \A p \in 0 .. 1 : OnStack(cachesims[i].partition[p], x) => p = q
    <3> SUFFICES ASSUME NEW p \in 0 .. 1, OnStack(cachesims[i].partition[p], x)
                 PROVE  p = q
      OBVIOUS
    <3>1. x \in DOMAIN addrMap /\ i <= Len(addrMap[x].iterators) /\ addrMap[x].iterators[i] = p
      BY <2>1 DEF MapInv, IteratorsAligned
    <3>2. i \in 1 .. Known(x)
      BY <3>1, <1>2, <1>4 DEF Known
    <3> QED  BY <3>1, <3>2, <1>1, <1>8
  <2>4. \A p \in 0 .. 1 : cachesims'[i].partition[p] =
          IF p = q THEN AccessSim(cachesims[i].partition[p], x) ELSE cachesims[i].partition[p]
    BY <2>1 DEF AccessedIn
  <2>5. \A p \in 0 .. 1 : /\ Consistent(AccessSim(cachesims[i].partition[p], x))
                          /\ \A y : OnStack(AccessSim(cachesims[i].partition[p], x), y)
                                      <=> y = x \/ OnStack(cachesims[i].partition[p], y)
    BY <2>2, AccessSimStack
  <2> HIDE DEF q
  <2>6. ASSUME NEW p \in 0 .. 1, NEW y \in Block
        PROVE  OnStack(cachesims'[i].partition[p], y) <=>
                    \/ y = x /\ q = p
                    \/ y # x /\ OnStack(cachesims[i].partition[p], y)
    <3>1. CASE p = q
      BY <3>1, <2>4, <2>5
    <3>2. CASE p # q
      BY <3>2, <2>3, <2>4
    <3> QED  BY <3>1, <3>2
  <2>7. \A p \in 0 .. 1 : Consistent(cachesims'[i].partition[p])
    BY <2>2, <2>4, <2>5
  <2> QED  BY <2>6, <2>7 DEF q
<1>9. CachesConsistent'
  BY <1>2, <1>8 DEF CachesConsistent
<1>10. IteratorsAligned'
  <2>1. \A y \in DOMAIN addrMap' : Len(addrMap'[y].iterators) \in Caches'
    <3> SUFFICES ASSUME NEW y \in DOMAIN addrMap' PROVE Len(addrMap'[y].iterators) \in 1 .. n
      BY <1>2
    <3>1. CASE y = x
      BY <3>1, <1>1, <1>2 DEF entry
    <3>2. CASE y # x
      BY <3>2, <1>1, <1>2 DEF MapInv, IteratorsAligned
    <3> QED  BY <3>1, <3>2
  <2>2. ASSUME NEW i \in Caches, i \notin corrupt', NEW p \in 0 .. 1, NEW y \in Block
        PROVE  OnStack(cachesims'[i].partition[p], y) <=>
                 /\ y \in DOMAIN addrMap'
                 /\ i <= Len(addrMap'[y].iterators)
                 /\ addrMap'[y].iterators[i] = p
    <3>1. CASE y = x
      <4>1. x \in DOMAIN addrMap' /\ i <= Len(entry.iterators)
        BY <1>1, <1>2
      <4> QED  BY <4>1, <3>1, <2>2, <1>8 DEF entry
    <3>2. CASE y # x
      <4>1. i \notin corrupt
        BY <1>1, <2>2
      <4>2. OnStack(cachesims[i].partition[p], y) <=>
                 /\ y \in DOMAIN addrMap
                 /\ i <= Len(addrMap[y].iterators)
                 /\ addrMap[y].iterators[i] = p
        BY <4>1 DEF MapInv, IteratorsAligned
      <4>3. y \in DOMAIN addrMap' <=> y \in DOMAIN addrMap
        BY <3>2, <1>1
      <4>4. y \in DOMAIN addrMap => addrMap'[y] = addrMap[y]
        BY <3>2, <1>1
      <4> QED  BY <4>2, <4>3, <4>4, <3>2, <2>2, <1>8
    <3> QED  BY <3>1, <3>2
  <2> QED  BY <2>1, <2>2, <1>2 DEF IteratorsAligned
<1> QED  BY <1>3, <1>5, <1>6, <1>7, <1>9, <1>10

\* An access attributes its block to the live object that contains it.
LEMMA AccessedKeepsAttribution ==
  ASSUME ObjectsInv, MapInv, NEW x \in Block, Accessed(x), UNCHANGED datastructs
  PROVE  Attributed' /\ OneObject' /\ StrayNodesNeedFree'
<1> DEFINE entry == addrMap'[x]
           old == addrMap[x].ds_num
           new == entry.ds_num
<1>1. /\ DOMAIN addrMap' = DOMAIN addrMap \cup {x}
      /\ \A y \in DOMAIN addrMap : y # x => addrMap'[y] = addrMap[y]
      /\ Len(entry.iterators) = Len(cachesims)
      /\ \A i \in Caches :
           entry.iterators[i] = PartitionFor(cachesims[i], IF i <= Known(x) THEN old ELSE new)
      /\ \/ /\ new = DatastructNum(datastructs, Base(x))
            /\ x \in DOMAIN addrMap => datastructs[old + 1].is_freed
         \/ /\ x \in DOMAIN addrMap
            /\ ~datastructs[old + 1].is_freed
            /\ new = old
      /\ corrupt' = corrupt \cup {i \in 1 .. Known(x) : addrMap[x].iterators[i] # entry.iterators[i]}
      /\ datastructs' = datastructs
  BY DEF Accessed
<1>2. \A i \in Caches : cachesims'[i].ds_nums = cachesims[i].ds_nums
  BY AccessedKeepsCaches
<1>3. Len(cachesims) \in Nat /\ Caches = 1 .. Len(cachesims) /\ Known(x) \in 0 .. Len(cachesims)
  <2>1. Len(cachesims) \in Nat /\ Caches = 1 .. Len(cachesims)
    BY LenProperties DEF MapInv, CachesShape, Caches
  <2> QED  BY <2>1 DEF Known, MapInv, IteratorsAligned
<1>4. Base(x) \in Nat /\ Len(datastructs) \in Nat
  BY BaseNat, LenProperties DEF ObjectsInv, ObjectsShape
<1>5. ASSUME x \in DOMAIN addrMap
      PROVE  /\ old \in 0 .. Len(datastructs) - 1
             /\ old # NoDatastruct /\ ~datastructs[old + 1].is_freed => Contains(datastructs[old + 1], Base(x))
  BY <1>5 DEF MapInv, Attributed
<1> HIDE DEF entry, old, new
<1>6. new \in 0 .. Len(datastructs) - 1 /\ (new # NoDatastruct => Contains(datastructs[new + 1], Base(x)))
  <2>1. CASE new = DatastructNum(datastructs, Base(x))
    BY <2>1, <1>4, DatastructNumIs
  <2>2. CASE x \in DOMAIN addrMap /\ ~datastructs[old + 1].is_freed /\ new = old
    BY <2>2, <1>5
  <2> QED  BY <2>1, <2>2, <1>1
<1>7. Attributed'
  <2> SUFFICES ASSUME NEW y \in DOMAIN addrMap'
               PROVE  /\ addrMap'[y].ds_num \in 0 .. Len(datastructs) - 1
                      /\ addrMap'[y].ds_num # NoDatastruct /\ ~datastructs[addrMap'[y].ds_num + 1].is_freed
                           => Contains(datastructs[addrMap'[y].ds_num + 1], Base(y))
    BY <1>1 DEF Attributed
  <2>1. CASE y = x
    BY <2>1, <1>6 DEF new, entry
  <2>2. CASE y # x
    <3>1. y \in DOMAIN addrMap /\ addrMap'[y] = addrMap[y]
      BY <2>2, <1>1
    <3> QED  BY <3>1 DEF MapInv, Attributed
  <2> QED  BY <2>1, <2>2
<1>8. OneObject'
  <2> SUFFICES ASSUME NEW y \in DOMAIN addrMap', NEW i \in 1 .. Len(addrMap'[y].iterators),
                      NEW k \in cachesims'[i].ds_nums, addrMap'[y].ds_num # NoDatastruct,
                      Contains(datastructs[k + 1], Base(y))
               PROVE  k = addrMap'[y].ds_num
    BY <1>1 DEF OneObject
  <2>1. CASE y = x
    <3>1. i \in Caches /\ new # NoDatastruct /\ addrMap'[y].ds_num = new
      BY <2>1, <1>1, <1>3 DEF entry, new
    <3>2. k \in 1 .. Len(datastructs) - 1
      BY <3>1, <1>2 DEF MapInv, CachesShape
    <3>3. k + 1 \in 1 .. Len(datastructs) /\ new + 1 \in 1 .. Len(datastructs)
      BY <3>2, <1>4, <1>6
    <3>4. k + 1 = new + 1
      BY <3>1, <3>3, <1>4, <1>6, <2>1, ContainingUnique
    <3> QED  BY <3>1, <3>2, <3>4, <1>4, <1>6
  <2>2. CASE y # x
    <3>1. y \in DOMAIN addrMap /\ addrMap'[y] = addrMap[y]
      BY <2>2, <1>1
    <3>2. i \in Caches
      BY <3>1, <1>3 DEF MapInv, IteratorsAligned
    <3> QED  BY <3>1, <3>2, <1>2 DEF MapInv, OneObject
  <2> QED  BY <2>1, <2>2
<1>9. \A i \in Caches : IsolatesFreed(i)' <=> IsolatesFreed(i)
  BY <1>1, <1>2 DEF IsolatesFreed
<1>10. /\ \A i \in corrupt : IsolatesFreed(i)
       /\ \A y \in DOMAIN addrMap : \A i \in 1 .. Len(addrMap[y].iterators) :
            addrMap[y].iterators[i] # PartitionFor(cachesims[i], addrMap[y].ds_num) => IsolatesFreed(i)
  BY StrayNodes DEF MapInv
<1>11. \A i \in corrupt' : i \in Caches /\ IsolatesFreed(i)
  <2>1. ASSUME NEW i \in 1 .. Known(x), addrMap[x].iterators[i] # entry.iterators[i]
        PROVE  i \in Caches /\ IsolatesFreed(i)
    <3>1. i \in Caches /\ x \in DOMAIN addrMap /\ i \in 1 .. Len(addrMap[x].iterators) /\ i <= Known(x)
      BY <1>3 DEF Known
    <3>2. entry.iterators[i] = PartitionFor(cachesims[i], addrMap[x].ds_num)
      BY <3>1, <1>1 DEF old
    <3> QED  BY <3>1, <3>2, <2>1, <1>10
  <2>2. corrupt \subseteq Caches
    BY DEF MapInv, CachesShape
  <2> QED  BY <2>1, <2>2, <1>1, <1>10
<1>12. ASSUME NEW y \in DOMAIN addrMap', NEW i \in 1 .. Len(addrMap'[y].iterators),
              addrMap'[y].iterators[i] # PartitionFor(cachesims[i], addrMap'[y].ds_num)
       PROVE  i \in Caches /\ IsolatesFreed(i)
  <2>1. CASE y = x
    <3>1. i \in Caches /\ i \in 1 .. Len(cachesims)
      BY <2>1, <1>1, <1>3 DEF entry
    <3>2. entry.iterators[i] # PartitionFor(cachesims[i], new)
      BY <2>1, <1>12 DEF entry, new
    <3>3. i <= Known(x) /\ entry.iterators[i] = PartitionFor(cachesims[i], old)
      BY <3>1, <3>2, <1>1
    <3>4. x \in DOMAIN addrMap /\ i \in 1 .. Len(addrMap[x].iterators)
      BY <3>1, <3>3, <1>3 DEF Known
    <3>5. old # new /\ datastructs[old + 1].is_freed
      BY <3>2, <3>3, <3>4, <1>1
    <3>6. CASE old \in cachesims[i].ds_nums \/ old = NoDatastruct
      BY <3>1, <3>5, <3>6 DEF IsolatesFreed
    <3>7. CASE old \notin cachesims[i].ds_nums /\ old # NoDatastruct
      <4>1. new \in cachesims[i].ds_nums
        BY <3>2, <3>3, <3>7 DEF PartitionFor
      <4>2. new # NoDatastruct
        BY <4>1, <3>1 DEF MapInv, CachesShape, NoDatastruct
      <4>3. new = old
        BY <4>1, <4>2, <3>4, <3>7, <1>6 DEF MapInv, OneObject, old
      <4> QED  BY <4>3, <3>5
    <3> QED  BY <3>6, <3>7
  <2>2. CASE y # x
    <3>1. y \in DOMAIN addrMap /\ addrMap'[y] = addrMap[y]
      BY <2>2, <1>1
    <3>2. i \in Caches
      BY <3>1, <1>3 DEF MapInv, IteratorsAligned
    <3> QED  BY <3>1, <3>2, <1>10, <1>12
  <2> QED  BY <2>1, <2>2
<1>13. StrayNodesNeedFree'
  <2>1. \A i \in Caches : \A k : PartitionFor(cachesims'[i], k) = PartitionFor(cachesims[i], k)
    BY <1>2 DEF PartitionFor
  <2>2. /\ \A i \in corrupt' : IsolatesFreed(i)'
        /\ \A y \in DOMAIN addrMap' : \A i \in 1 .. Len(addrMap'[y].iterators) :
             addrMap'[y].iterators[i] # PartitionFor(cachesims'[i], addrMap'[y].ds_num)
               => IsolatesFreed(i)'
    <3>1. \A i \in corrupt' : IsolatesFreed(i)'
      BY <1>9, <1>11
    <3>2. ASSUME NEW y \in DOMAIN addrMap', NEW i \in 1 .. Len(addrMap'[y].iterators),
                 addrMap'[y].iterators[i] # PartitionFor(cachesims'[i], addrMap'[y].ds_num)
          PROVE  IsolatesFreed(i)'
      <4>1. i \in Caches
        <5>1. CASE y = x
          BY <5>1, <1>1, <1>3 DEF entry
        <5>2. CASE y # x
          <6>1. y \in DOMAIN addrMap /\ addrMap'[y] = addrMap[y]
            BY <5>2, <1>1
          <6> QED  BY <6>1, <1>3 DEF MapInv, IteratorsAligned
        <5> QED  BY <5>1, <5>2
      <4> QED  BY <4>1, <3>2, <2>1, <1>9, <1>12
    <3> QED  BY <3>1, <3>2
  <2> QED  BY <2>2 DEF StrayNodesNeedFree, IsolatesFreed
<1> QED  BY <1>7, <1>8, <1>13

-----------------------------------------------------------------------------
\* The caches of a registration: each isolates registered objects, and has
\* seen no block.
LEMMA PairsType ==
  ASSUME NEW T, NEW k, NEW S \in SUBSET T, IsFiniteSet(S), k \in T \/ S = {}
  PROVE  Pairs(k, S) \in Seq(SUBSET T)
<1> DEFINE pair(i) == {k} \cup {j \in S : Cardinality({l \in S : l < j}) = i - 1}
<1>1. Cardinality(S) \in Nat /\ (S = {} => Cardinality(S) = 0)
  BY FS_CardinalityType, FS_EmptySet
<1>2. \A i \in 1 .. Cardinality(S) : pair(i) \subseteq T
  BY <1>1
<1>3. Pairs(k, S) = [i \in 1 .. Cardinality(S) |-> pair(i)]
  BY DEF Pairs
<1> HIDE DEF pair
<1>4. Pairs(k, S) \in [1 .. Cardinality(S) -> SUBSET T]
  BY <1>2, <1>3
<1> QED  BY <1>1, <1>4, SeqOf

LEMMA AddedCachesType ==
  ASSUME NEW ds \in Seq(Object), Len(ds) > 0
  PROVE  /\ AddedCaches(ds) \in Seq(SUBSET (1 .. Len(ds) - 1))
         /\ Len(AddedCaches(ds)) > 0
<1> DEFINE k == Len(ds) - 1
           S == Large(ds, 1 .. k - 1)
           T == SUBSET (1 .. k)
<1>1. k \in Nat
  BY LenProperties
<1>2. /\ IsFiniteSet(S) /\ S \in SUBSET (1 .. k)
      /\ k \in 1 .. k \/ S = {}
  <2>1. S \subseteq 1 .. k - 1
    BY DEF Large
  <2>2. IsFiniteSet(1 .. k - 1)
    BY <1>1, FS_Interval
  <2> HIDE DEF S
  <2>3. IsFiniteSet(S)
    BY <2>1, <2>2, FS_Subset
  <2> QED  BY <2>1, <2>3, <1>1
<1>3. Combine(ds) \in Seq(T)
  <2>1. << >> \in Seq(T)
    BY EmptySeq
  <2>2. Pairs(k, S) \in Seq(T)
    BY <1>2, PairsType
  <2> QED  BY <2>1, <2>2 DEF Combine
<1>4. /\ << IF k > NoDatastruct THEN {k} ELSE {} >> \in Seq(T)
      /\ Len(<< IF k > NoDatastruct THEN {k} ELSE {} >>) = 1
  BY <1>1 DEF NoDatastruct
<1>5. AddedCaches(ds) = << IF k > NoDatastruct THEN {k} ELSE {} >> \o Combine(ds)
  BY DEF AddedCaches
<1> HIDE DEF k, T
<1>6. AddedCaches(ds) \in Seq(T) /\ Len(AddedCaches(ds)) = 1 + Len(Combine(ds)) /\ Len(Combine(ds)) \in Nat
  BY <1>3, <1>4, <1>5, ConcatProperties, LenProperties
<1> QED  BY <1>6 DEF T, k

LEMMA NewPartitionedCacheIs ==
  ASSUME NEW S \in SUBSET Nat
  PROVE  LET cs == NewPartitionedCache(S)
         IN  /\ cs \in Cache
             /\ cs.ds_nums = S
             /\ \A p \in 0 .. 1 : cs.partition[p] = NewCacheSim
<1>1. NewCacheSim \in CacheSimState
  BY NewConsistent DEF Consistent
<1> QED  BY <1>1 DEF NewPartitionedCache, Cache

LEMMA RegisteredLayout ==
  ASSUME NEW ds \in Seq(Object), Len(ds) > 0, NEW css \in Seq(Cache)
  PROVE  LET r == Registered(ds, css)
             added == AddedCaches(ds)
         IN  /\ r \in Seq(Cache)
             /\ Len(r) = Len(css) + Len(added)
             /\ \A i \in 1 .. Len(css) + Len(added) :
                  r[i] = IF i <= Len(css) THEN css[i]
                                          ELSE NewPartitionedCache(added[i - Len(css)])
<1> DEFINE added == AddedCaches(ds)
           m == Len(added)
           new == [i \in 1 .. m |-> NewPartitionedCache(added[i])]
           c == Len(css)
           r == Registered(ds, css)
<1>1. added \in Seq(SUBSET (1 .. Len(ds) - 1)) /\ m \in Nat /\ c \in Nat /\ Len(ds) \in Nat
  BY AddedCachesType, LenProperties
<1>2. \A i \in 1 .. m : added[i] \in SUBSET Nat
  <2>1. \A i \in 1 .. m : added[i] \subseteq 1 .. Len(ds) - 1
    BY <1>1, ElementOfSeq
  <2>2. 1 .. Len(ds) - 1 \subseteq Nat
    BY <1>1
  <2> QED  BY <2>1, <2>2
<1> HIDE DEF added, m
<1>3. \A i \in 1 .. m : NewPartitionedCache(added[i]) \in Cache
  BY <1>2, NewPartitionedCacheIs
<1>4. new \in Seq(Cache) /\ Len(new) = m
  <2>1. new \in [1 .. m -> Cache]
    BY <1>3
  <2> QED  BY <2>1, <1>1, SeqOf
<1>5. r = css \o new
  BY DEF Registered, added, m
<1>6. \A i \in 1 .. m : new[i] = NewPartitionedCache(added[i])
  OBVIOUS
<1> HIDE DEF new, r
<1>7. /\ r \in Seq(Cache) /\ Len(r) = c + m
      /\ \A i \in 1 .. c + m : r[i] = IF i <= c THEN css[i] ELSE new[i - c]
  BY <1>4, <1>5, ConcatProperties
<1>8. ASSUME NEW i \in 1 .. c + m, ~(i <= c)
      PROVE  r[i] = NewPartitionedCache(added[i - c])
  <2>1. i - c \in 1 .. m
    BY <1>1, <1>8
  <2> QED  BY <2>1, <1>6, <1>7, <1>8
<1> QED  BY <1>7, <1>8 DEF r, added, m

LEMMA RegisteredCaches ==
  ASSUME NEW ds \in Seq(Object), Len(ds) > 0, NEW css \in Seq(Cache)
  PROVE  LET r == Registered(ds, css)
         IN  /\ r \in Seq(Cache)
             /\ Len(r) > Len(css)
             /\ \A i \in 1 .. Len(css) : r[i] = css[i]
             /\ \A i \in Len(css) + 1 .. Len(r) :
                  /\ r[i].ds_nums \subseteq 1 .. Len(ds) - 1
                  /\ \A p \in 0 .. 1 : r[i].partition[p] = NewCacheSim
<1> DEFINE added == AddedCaches(ds)
           m == Len(added)
           c == Len(css)
           r == Registered(ds, css)
<1>1. added \in Seq(SUBSET (1 .. Len(ds) - 1)) /\ m \in Nat /\ m > 0
  BY AddedCachesType, LenProperties
<1>2. Len(ds) \in Nat /\ c \in Nat
  BY LenProperties
<1>3. \A i \in 1 .. m : added[i] \subseteq 1 .. Len(ds) - 1
  BY <1>1, ElementOfSeq
<1>4. /\ r \in Seq(Cache) /\ Len(r) = c + m
      /\ \A i \in 1 .. c + m : r[i] = IF i <= c THEN css[i] ELSE NewPartitionedCache(added[i - c])
  BY RegisteredLayout
<1> HIDE DEF added, m, r
<1>5. \A i \in 1 .. c : r[i] = css[i]
  BY <1>1, <1>2, <1>4
<1>6. ASSUME NEW i \in c + 1 .. Len(r)
      PROVE  /\ r[i].ds_nums \subseteq 1 .. Len(ds) - 1
             /\ \A p \in 0 .. 1 : r[i].partition[p] = NewCacheSim
  <2>1. i - c \in 1 .. m /\ r[i] = NewPartitionedCache(added[i - c])
    BY <1>1, <1>2, <1>4
  <2>2. added[i - c] \in SUBSET Nat
    <3>1. 1 .. Len(ds) - 1 \subseteq Nat
      BY <1>2
    <3> QED  BY <3>1, <2>1, <1>3
  <2> QED  BY <2>1, <2>2, <1>3, NewPartitionedCacheIs
<1> QED  BY <1>1, <1>2, <1>4, <1>5, <1>6 DEF r

\* Objects and caches are added, and objects marked; the blocks stay as they are.
Grown ==
  /\ UNCHANGED << addrMap, corrupt >>
  /\ Len(datastructs) <= Len(datastructs')
  /\ \A i \in 1 .. Len(datastructs) :
       /\ datastructs'[i].address = datastructs[i].address
       /\ datastructs'[i].nbytes = datastructs[i].nbytes
       /\ datastructs[i].is_freed => datastructs'[i].is_freed
  /\ cachesims' \in Seq(Cache)
  /\ Len(cachesims) <= Len(cachesims')
  /\ \A i \in Caches : cachesims'[i] = cachesims[i]
  /\ \A i \in Len(cachesims) + 1 .. Len(cachesims') :
       /\ cachesims'[i].ds_nums \subseteq 1 .. Len(datastructs') - 1
       /\ \A p \in 0 .. 1 : cachesims'[i].partition[p] = NewCacheSim

\* That keeps the map's invariant: no block has a node in the new caches, and
\* an object that is marked contains nothing any more.
LEMMA GrownKeepsMap ==
  ASSUME ObjectsInv, ObjectsInv', MapInv, Grown
  PROVE  MapInv'
<1> DEFINE n == Len(datastructs)
           c == Len(cachesims)
<1>1. /\ n \in Nat /\ Len(datastructs') \in Nat /\ n <= Len(datastructs') /\ n > 0
      /\ c \in Nat /\ Len(cachesims') \in Nat /\ c <= Len(cachesims') /\ c > 0
      /\ Caches = 1 .. c /\ Caches' = 1 .. Len(cachesims')
  BY LenProperties DEF ObjectsInv, ObjectsShape, MapInv, CachesShape, Grown, Caches
<1>2. \A i \in Caches' : i \in Caches \/ i \in c + 1 .. Len(cachesims')
  BY <1>1
<1>3. /\ addrMap' = addrMap /\ corrupt' = corrupt
      /\ cachesims' \in Seq(Cache)
      /\ \A i \in Caches : cachesims'[i] = cachesims[i]
      /\ \A i \in c + 1 .. Len(cachesims') :
           /\ cachesims'[i].ds_nums \subseteq 1 .. Len(datastructs') - 1
           /\ \A p \in 0 .. 1 : cachesims'[i].partition[p] = NewCacheSim
  BY DEF Grown
<1>4. \A i \in 1 .. n : datastructs[i].is_freed => datastructs'[i].is_freed
  BY DEF Grown
<1>5. \A i \in 1 .. n : \A addr : Contains(datastructs'[i], addr) => Contains(datastructs[i], addr)
  BY DEF Grown, Contains
<1>6. \A i \in 1 .. n : \A addr : ~datastructs'[i].is_freed /\ Contains(datastructs[i], addr)
                                => Contains(datastructs'[i], addr)
  BY DEF Grown, Contains
<1>7. \A y \in DOMAIN addrMap : Len(addrMap[y].iterators) \in Caches
  BY DEF MapInv, IteratorsAligned
<1>8. \A y \in DOMAIN addrMap : \A i \in 1 .. Len(addrMap[y].iterators) : i \in Caches
  BY <1>1, <1>7
<1> HIDE DEF n, c
<1>9. MapShape'
  BY <1>3 DEF MapInv, MapShape
<1>10. CachesShape'
  <2>1. \A i \in Caches : cachesims[i].ds_nums \subseteq 1 .. n - 1
    BY DEF MapInv, CachesShape, n
  <2>2. \A i \in Caches' : cachesims'[i].ds_nums \subseteq 1 .. Len(datastructs') - 1
    BY <2>1, <1>1, <1>2, <1>3
  <2>3. corrupt \subseteq Caches'
    BY <1>1 DEF MapInv, CachesShape
  <2> QED  BY <2>2, <2>3, <1>1, <1>3 DEF CachesShape
<1>11. IteratorsAligned'
  <2>1. \A y : ~OnStack(NewCacheSim, y)
    <3>1. Len(NewCacheSim.stack) = 0
      BY EmptySeq DEF NewCacheSim
    <3> QED  BY <3>1 DEF OnStack
  <2>2. ASSUME NEW i \in Caches', i \notin corrupt, NEW p \in 0 .. 1, NEW y \in Block
        PROVE  OnStack(cachesims'[i].partition[p], y) <=>
                 /\ y \in DOMAIN addrMap
                 /\ i <= Len(addrMap[y].iterators)
                 /\ addrMap[y].iterators[i] = p
    <3>1. CASE i \in Caches
      BY <3>1, <2>2, <1>3 DEF MapInv, IteratorsAligned
    <3>2. CASE i \in c + 1 .. Len(cachesims')
      <4>1. ~OnStack(cachesims'[i].partition[p], y)
        BY <3>2, <2>1, <1>3
      <4>2. y \in DOMAIN addrMap => ~(i <= Len(addrMap[y].iterators))
        BY <3>2, <1>1, <1>7
      <4> QED  BY <4>1, <4>2
    <3> QED  BY <3>1, <3>2, <1>2
  <2>3. \A y \in DOMAIN addrMap : Len(addrMap[y].iterators) \in Caches'
    BY <1>1, <1>7
  <2> QED  BY <2>2, <2>3, <1>3 DEF IteratorsAligned
<1>12. CachesConsistent'
  <2>1. ASSUME NEW i \in Caches', i \notin corrupt, NEW p \in 0 .. 1
        PROVE  Consistent(cachesims'[i].partition[p])
    <3>1. CASE i \in Caches
      BY <3>1, <2>1, <1>3 DEF MapInv, CachesConsistent
    <3>2. CASE i \in c + 1 .. Len(cachesims')
      BY <3>2, <1>3, NewConsistent
    <3> QED  BY <3>1, <3>2, <1>2
  <2> QED  BY <2>1, <1>3 DEF CachesConsistent
<1>13. Attributed'
  <2> SUFFICES ASSUME NEW y \in DOMAIN addrMap
               PROVE  /\ addrMap[y].ds_num \in 0 .. Len(datastructs') - 1
                      /\ addrMap[y].ds_num # NoDatastruct /\ ~datastructs'[addrMap[y].ds_num + 1].is_freed
                           => Contains(datastructs'[addrMap[y].ds_num + 1], Base(y))
    BY <1>3 DEF Attributed
  <2> DEFINE k == addrMap[y].ds_num
  <2>1. /\ k \in 0 .. n - 1
        /\ k # NoDatastruct /\ ~datastructs[k + 1].is_freed => Contains(datastructs[k + 1], Base(y))
    BY DEF MapInv, Attributed, n
  <2> HIDE DEF k
  <2>2. k + 1 \in 1 .. n /\ k \in 0 .. Len(datastructs') - 1
    BY <2>1, <1>1
  <2>3. k # NoDatastruct /\ ~datastructs'[k + 1].is_freed => Contains(datastructs'[k + 1], Base(y))
    BY <2>1, <2>2, <1>4, <1>6
  <2> QED  BY <2>2, <2>3 DEF k
<1>14. OneObject'
  <2> SUFFICES ASSUME NEW y \in DOMAIN addrMap, NEW i \in 1 .. Len(addrMap[y].iterators),
                      NEW k \in cachesims'[i].ds_nums, addrMap[y].ds_num # NoDatastruct,
                      Contains(datastructs'[k + 1], Base(y))
               PROVE  k = addrMap[y].ds_num
    BY <1>3 DEF OneObject
  <2>1. i \in Caches /\ k \in cachesims[i].ds_nums
    BY <1>3, <1>8
  <2>2. k \in 1 .. n - 1
    BY <2>1 DEF MapInv, CachesShape, n
  <2>3. k + 1 \in 1 .. n
    BY <2>2, <1>1
  <2>4. Contains(datastructs[k + 1], Base(y))
    BY <2>3, <1>5
  <2> QED  BY <2>1, <2>4 DEF MapInv, OneObject
<1>15. FirstCache'
  <2>1. 1 \in Caches
    BY <1>1
  <2> QED  BY <2>1, <1>3 DEF MapInv, FirstCache
<1>16. StrayNodesNeedFree'
  <2>1. ASSUME NEW i \in Caches, IsolatesFreed(i)
        PROVE  \E k \in cachesims'[i].ds_nums \cup {NoDatastruct} : datastructs'[k + 1].is_freed
    <3>1. PICK k \in cachesims[i].ds_nums \cup {NoDatastruct} : datastructs[k + 1].is_freed
      BY <2>1 DEF IsolatesFreed
    <3>2. k \in 1 .. n - 1 \/ k = 0
      BY DEF MapInv, CachesShape, n, NoDatastruct
    <3>3. k + 1 \in 1 .. n
      BY <3>2, <1>1
    <3>4. datastructs'[k + 1].is_freed
      BY <3>1, <3>3, <1>4
    <3> QED  BY <3>4, <1>3
  <2>2. \A i \in corrupt : i \in Caches /\ IsolatesFreed(i)
    BY StrayNodes DEF MapInv, CachesShape
  <2>3. \A y \in DOMAIN addrMap : \A i \in 1 .. Len(addrMap[y].iterators) :
          addrMap[y].iterators[i] # PartitionFor(cachesims[i], addrMap[y].ds_num) => IsolatesFreed(i)
    BY StrayNodes DEF MapInv
  <2>4. \A y \in DOMAIN addrMap : \A i \in 1 .. Len(addrMap[y].iterators) :
          PartitionFor(cachesims'[i], addrMap[y].ds_num) = PartitionFor(cachesims[i], addrMap[y].ds_num)
    BY <1>3, <1>8
  <2> QED  BY <2>1, <2>2, <2>3, <2>4, <1>3, <1>8 DEF StrayNodesNeedFree
<1> QED  BY <1>9, <1>10, <1>11, <1>12, <1>13, <1>14, <1>15, <1>16 DEF MapInv

LEMMA HandleDatastructGrows ==
  ASSUME ObjectsInv, MapInv, NEW t \in Thread, NEW has_file \in BOOLEAN, HandleDatastruct(t, has_file)
  PROVE  Grown
<1> DEFINE ds == NewDatastruct(call[t].alloc[1], call[t].alloc[2])
<1>1. UNCHANGED << addrMap, corrupt >>
  BY DEF HandleDatastruct
<1>2. datastructs \in Seq(Object) /\ cachesims \in Seq(Cache) /\ Caches = 1 .. Len(cachesims)
  BY DEF ObjectsInv, ObjectsShape, MapInv, CachesShape, Caches
<1>3. Len(datastructs) \in Nat /\ Len(cachesims) \in Nat
  BY <1>2, LenProperties
<1>4. CASE UNCHANGED << datastructs, cachesims >>
  BY <1>1, <1>2, <1>3, <1>4 DEF Grown
<1>5. CASE datastructs' = Append(datastructs, ds) /\ cachesims' = Registered(datastructs', cachesims)
  <2>1. ds \in Object
    <3>1. call[t] # NoCall
      BY DEF HandleDatastruct, NoCall
    <3>2. call[t].alloc[1] \in Nat /\ call[t].alloc[2] \in Nat
      BY <3>1, CallParts, AllocationParts DEF ObjectsInv
    <3> QED  BY <3>2 DEF NewDatastruct, Object
  <2> HIDE DEF ds
  <2>2. /\ datastructs' \in Seq(Object) /\ Len(datastructs') = Len(datastructs) + 1
        /\ \A i \in 1 .. Len(datastructs) : datastructs'[i] = datastructs[i]
    BY <2>1, <1>2, <1>5, AppendProperties
  <2>3. Len(datastructs') > 0
    BY <2>2, <1>3
  <2>4. /\ cachesims' \in Seq(Cache)
        /\ Len(cachesims') > Len(cachesims)
        /\ \A i \in 1 .. Len(cachesims) : cachesims'[i] = cachesims[i]
        /\ \A i \in Len(cachesims) + 1 .. Len(cachesims') :
             /\ cachesims'[i].ds_nums \subseteq 1 .. Len(datastructs') - 1
             /\ \A p \in 0 .. 1 : cachesims'[i].partition[p] = NewCacheSim
    <3> DEFINE dss == datastructs'
    <3>1. dss \in Seq(Object) /\ Len(dss) > 0
      BY <2>2, <2>3
    <3>2. cachesims' = Registered(dss, cachesims)
      BY <1>5
    <3> HIDE DEF dss
    <3>3. /\ Registered(dss, cachesims) \in Seq(Cache)
          /\ Len(Registered(dss, cachesims)) > Len(cachesims)
          /\ \A i \in 1 .. Len(cachesims) : Registered(dss, cachesims)[i] = cachesims[i]
          /\ \A i \in Len(cachesims) + 1 .. Len(Registered(dss, cachesims)) :
               /\ Registered(dss, cachesims)[i].ds_nums \subseteq 1 .. Len(dss) - 1
               /\ \A p \in 0 .. 1 : Registered(dss, cachesims)[i].partition[p] = NewCacheSim
      BY <3>1, <1>2, RegisteredCaches
    <3>4. /\ cachesims' \in Seq(Cache)
          /\ Len(cachesims') > Len(cachesims)
          /\ \A i \in 1 .. Len(cachesims) : cachesims'[i] = cachesims[i]
          /\ \A i \in Len(cachesims) + 1 .. Len(cachesims') :
               /\ cachesims'[i].ds_nums \subseteq 1 .. Len(dss) - 1
               /\ \A p \in 0 .. 1 : cachesims'[i].partition[p] = NewCacheSim
      BY <3>3, <3>2
    <3> QED  BY <3>4 DEF dss
  <2>5. Len(cachesims') \in Nat
    BY <2>4, LenProperties
  <2>6. Len(cachesims) <= Len(cachesims') /\ Len(datastructs) <= Len(datastructs')
    BY <2>2, <2>4, <2>5, <1>3
  <2>7. \A i \in 1 .. Len(datastructs) :
          /\ datastructs'[i].address = datastructs[i].address
          /\ datastructs'[i].nbytes = datastructs[i].nbytes
          /\ datastructs[i].is_freed => datastructs'[i].is_freed
    <3> SUFFICES ASSUME NEW i \in 1 .. Len(datastructs)
                 PROVE  /\ datastructs'[i].address = datastructs[i].address
                        /\ datastructs'[i].nbytes = datastructs[i].nbytes
                        /\ datastructs[i].is_freed => datastructs'[i].is_freed
      OBVIOUS
    <3>1. datastructs'[i] = datastructs[i]
      BY <2>2
    <3> QED  BY <3>1, Zenon
  <2>8. \A i \in Caches : cachesims'[i] = cachesims[i]
    BY <2>4, <1>2
  <2> QED  BY <2>4, <2>6, <2>7, <2>8, <1>1, Zenon DEF Grown
<1> QED  BY <1>4, <1>5 DEF HandleDatastruct

LEMMA NewFreeGrows ==
  ASSUME ObjectsInv, MapInv, NEW t \in Thread, NEW a \in Allocation \cup {NullAllocation}, NewFree(t, a)
  PROVE  Grown
<1>1. UNCHANGED << cachesims, addrMap, corrupt >>
  BY DEF NewFree
<1>2. /\ Len(datastructs') = Len(datastructs)
      /\ \A i \in 1 .. Len(datastructs) :
           /\ datastructs'[i].address = datastructs[i].address
           /\ datastructs'[i].nbytes = datastructs[i].nbytes
           /\ datastructs[i].is_freed => datastructs'[i].is_freed
  BY NewFreeKeepsObjects
<1>3. cachesims \in Seq(Cache) /\ Len(cachesims) \in Nat /\ Len(datastructs) \in Nat
  BY LenProperties DEF MapInv, CachesShape, ObjectsInv, ObjectsShape
<1> QED  BY <1>1, <1>2, <1>3 DEF Grown

-----------------------------------------------------------------------------
(***************************************************************************)
(* Every step keeps the invariant.                                         *)
(***************************************************************************)
\* An access whose second block is still to come belongs to a thread.
LEMMA SecondBlock ==
  ASSUME StepShape, NEW t \in Thread, second.thread = t
  PROVE  second # NoSecond /\ second.block \in Block
<1>1. NoSecond.thread = NoBlock
  BY DEF NoSecond
<1>2. second # NoSecond
  BY <1>1, ThreadAssumption
<1>3. QED
  BY <1>2 DEF StepShape

\* A block that is not the thread's previous one is accessed in the caches.
LEMMA AccessBlockAccesses ==
  ASSUME ObjectsInv, MapInv, NEW t \in Thread, NEW x \in Block, AccessBlock(t, x), addr_prev[t] # x
  PROVE  Accessed(x)
<1>1. \/ x \notin DOMAIN addrMap /\ NewBlock(x)
      \/ x \in DOMAIN addrMap /\ SeenBlock(x)
  BY Zenon DEF AccessBlock
<1>2. MapShape /\ CachesShape /\ IteratorsAligned /\ CachesConsistent
  BY DEF MapInv
<1>3. QED
  BY <1>1, <1>2, NewBlockAccesses, SeenBlockAccesses

\* A step that leaves the objects, the caches and the map alone.
LEMMA IdleKeepsMap ==
  ASSUME MapInv, UNCHANGED << datastructs, cachesims, addrMap, corrupt >>
  PROVE  MapInv'
<1>1. Caches' = Caches
  BY DEF Caches
<1>2. MapShape' /\ CachesShape'
  BY <1>1 DEF MapInv, MapShape, CachesShape
<1>3. IteratorsAligned' /\ CachesConsistent'
  BY <1>1 DEF MapInv, IteratorsAligned, CachesConsistent
<1>4. Attributed' /\ OneObject' /\ FirstCache'
  BY DEF MapInv, Attributed, OneObject, FirstCache
<1>5. StrayNodesNeedFree'
  BY DEF MapInv, StrayNodesNeedFree
<1>6. QED
  BY <1>2, <1>3, <1>4, <1>5 DEF MapInv

LEMMA AccessBlockKeepsMap ==
  ASSUME ObjectsInv, MapInv, NEW t \in Thread, NEW x \in Block, AccessBlock(t, x),
         UNCHANGED << heap, call, datastructs >>
  PROVE  ObjectsInv' /\ MapInv'
<1>1. ObjectsInv'
  <2>1. ObjectsShape' /\ HeapDisjoint'
    BY DEF ObjectsInv, ObjectsShape, HeapDisjoint
  <2>2. ObjectsOwn' /\ CallsOwn'
    BY DEF ObjectsInv, ObjectsOwn, CallsOwn
  <2>3. QED
    BY <2>1, <2>2 DEF ObjectsInv
<1>2. CASE addr_prev[t] = x
  <2>1. UNCHANGED << addrMap, cachesims, corrupt >>
    BY <1>2 DEF AccessBlock
  <2>2. QED
    BY <2>1, <1>1, IdleKeepsMap
<1>3. CASE addr_prev[t] # x
  <2>1. Accessed(x)
    BY <1>3, AccessBlockAccesses
  <2>2. MapShape' /\ CachesShape' /\ IteratorsAligned' /\ CachesConsistent' /\ FirstCache'
    BY <2>1, AccessedKeepsCaches
  <2>3. Attributed' /\ OneObject' /\ StrayNodesNeedFree'
    BY <2>1, AccessedKeepsAttribution
  <2>4. QED
    BY <1>1, <2>2, <2>3 DEF MapInv
<1>4. QED
  BY <1>2, <1>3

\* The first cache, which RD_init adds for data object 0, isolates nothing and
\* has seen nothing.
LEMMA InitialCaches ==
  ASSUME Init
  PROVE  /\ cachesims \in Seq(Cache) /\ Len(cachesims) \in Nat /\ Len(cachesims) > 0
         /\ \A i \in Caches : /\ cachesims[i].ds_nums = {}
                              /\ \A p \in 0 .. 1 : cachesims[i].partition[p] = NewCacheSim
<1> DEFINE ds == << NewDatastruct(0, 0) >>
<1>1. ds \in Seq(Object) /\ Len(ds) = 1
  BY DEF NewDatastruct, Object
<1> DEFINE none == << >>
<1>2. none \in Seq(Cache) /\ Len(none) = 0
  OBVIOUS
<1>3. cachesims = Registered(ds, none)
  BY DEF Init
<1> HIDE DEF none, ds
<1>4. /\ Registered(ds, none) \in Seq(Cache)
      /\ Len(Registered(ds, none)) > Len(none)
      /\ \A i \in Len(none) + 1 .. Len(Registered(ds, none)) :
           /\ Registered(ds, none)[i].ds_nums \subseteq 1 .. Len(ds) - 1
           /\ \A p \in 0 .. 1 : Registered(ds, none)[i].partition[p] = NewCacheSim
  <2>1. Len(ds) > 0
    BY <1>1
  <2>2. QED
    BY <1>1, <1>2, <2>1, RegisteredCaches
<1>5. /\ cachesims \in Seq(Cache)
      /\ Len(cachesims) > 0
      /\ \A i \in 0 + 1 .. Len(cachesims) :
           /\ cachesims[i].ds_nums \subseteq 1 .. Len(ds) - 1
           /\ \A p \in 0 .. 1 : cachesims[i].partition[p] = NewCacheSim
  BY <1>2, <1>4, <1>3
<1>6. cachesims \in Seq(Cache) /\ Len(cachesims) \in Nat /\ Len(cachesims) > 0
  BY <1>5, LenProperties
<1>7. \A i \in Caches : /\ cachesims[i].ds_nums \subseteq 1 .. Len(ds) - 1
                        /\ \A p \in 0 .. 1 : cachesims[i].partition[p] = NewCacheSim
  BY <1>5 DEF Caches
<1>8. 1 .. Len(ds) - 1 = {}
  BY <1>1
<1>9. QED
  BY <1>6, <1>7, <1>8

LEMMA InitIInv == Init => IInv
<1> SUFFICES ASSUME Init PROVE IInv
  OBVIOUS
<1> DEFINE ds == << NewDatastruct(0, 0) >>
<1>1. /\ heap = {} /\ call = [t \in Thread |-> NoCall] /\ datastructs = ds
      /\ cachesims = Registered(ds, << >>) /\ addrMap = << >>
      /\ addr_prev = [t \in Thread |-> NoBlock] /\ second = NoSecond
      /\ corrupt = {} /\ accesses = 0
  BY DEF Init
<1>2. /\ ds \in Seq(Object) /\ Len(ds) = 1
      /\ ds[1].nbytes = 0 /\ ds[1].is_freed = FALSE
  BY DEF NewDatastruct, Object
<1> HIDE DEF ds
<1>3. ObjectsInv
  <2>1. ObjectsShape
    BY <1>1, <1>2 DEF ObjectsShape, AnyCall
  <2>2. HeapDisjoint
    BY <1>1 DEF HeapDisjoint
  <2>3. ObjectsOwn
    BY <1>1, <1>2 DEF ObjectsOwn
  <2>4. CallsOwn
    BY <1>1 DEF CallsOwn
  <2>5. QED
    BY <2>1, <2>2, <2>3, <2>4 DEF ObjectsInv
<1>4. /\ cachesims \in Seq(Cache) /\ Len(cachesims) \in Nat /\ Len(cachesims) > 0
      /\ \A i \in Caches : /\ cachesims[i].ds_nums = {}
                           /\ \A p \in 0 .. 1 : cachesims[i].partition[p] = NewCacheSim
  BY InitialCaches
<1>5. DOMAIN addrMap = {}
  BY <1>1
<1>6. MapInv
  <2>1. MapShape
    BY <1>1, <1>5 DEF MapShape
  <2>2. CachesShape
    BY <1>1, <1>4 DEF CachesShape
  <2>3. IteratorsAligned
    <3>1. \A y : ~OnStack(NewCacheSim, y)
      <4>1. Len(NewCacheSim.stack) = 0
        BY EmptySeq DEF NewCacheSim
      <4> QED  BY <4>1 DEF OnStack
    <3>2. QED
      BY <3>1, <1>4, <1>5 DEF IteratorsAligned
  <2>4. CachesConsistent
    BY <1>4, NewConsistent DEF CachesConsistent
  <2>5. Attributed /\ OneObject
    BY <1>5 DEF Attributed, OneObject
  <2>6. FirstCache
    BY <1>1, <1>4, <1>5 DEF FirstCache, Caches
  <2>7. StrayNodesNeedFree
    BY <1>1, <1>5 DEF StrayNodesNeedFree
  <2>8. QED
    BY <2>1, <2>2, <2>3, <2>4, <2>5, <2>6, <2>7 DEF MapInv
<1>7. StepShape
  BY <1>1, <1>2, LimitAssumption DEF StepShape
<1>8. QED
  BY <1>3, <1>6, <1>7 DEF IInv

\* What an access does to the counters and to the threads' previous blocks.
LEMMA MemAccessStep ==
  ASSUME IInv, NEW t \in Thread, NEW x \in Block, NEW crosses \in BOOLEAN, MemAccess(t, x, crosses)
  PROVE  IInv'
<1>1. AccessBlock(t, x) /\ UNCHANGED << heap, call, datastructs >>
  BY DEF MemAccess
<1>2. ObjectsInv' /\ MapInv'
  BY <1>1, AccessBlockKeepsMap DEF IInv
<1>3. /\ accesses' = accesses + 1 /\ addr_prev' = [addr_prev EXCEPT ![t] = x]
      /\ accesses + (IF crosses THEN 2 ELSE 1) <= MaxAccesses
      /\ second' = IF crosses THEN [thread |-> t, block |-> x + 1] ELSE NoSecond
      /\ crosses => x + 1 \in Block
      /\ datastructs' = datastructs
  BY DEF MemAccess, AccessBlock
<1>4. StepShape'
  <2>1. second' = NoSecond \/ second' \in [thread : Thread, block : Block]
    BY <1>3
  <2>2. addr_prev' \in [Thread -> Block \cup {NoBlock}]
    BY <1>3 DEF IInv, StepShape
  <2>3. accesses \in Nat /\ MaxAccesses \in Nat
    BY LimitAssumption DEF IInv, StepShape
  <2>4. accesses' \in Nat /\ accesses' + (IF second' = NoSecond THEN 0 ELSE 1) <= MaxAccesses
    <3>1. CASE crosses
      BY <3>1, <1>3, <2>3
    <3>2. CASE ~crosses
      BY <3>2, <1>3, <2>3
    <3> QED  BY <3>1, <3>2
  <2>5. QED
    BY <2>1, <2>2, <2>4, <1>3 DEF IInv, StepShape
<1>5. QED
  BY <1>2, <1>4 DEF IInv

LEMMA SecondAccessStep ==
  ASSUME IInv, NEW t \in Thread, SecondAccess(t)
  PROVE  IInv'
<1>1. second # NoSecond /\ second.block \in Block
  BY SecondBlock DEF IInv, SecondAccess
<1> DEFINE x == second.block
<1>2. AccessBlock(t, x) /\ UNCHANGED << heap, call, datastructs >>
  BY DEF SecondAccess
<1>3. ObjectsInv' /\ MapInv'
  BY <1>1, <1>2, AccessBlockKeepsMap DEF IInv
<1>4. /\ accesses' = accesses + 1 /\ addr_prev' = [addr_prev EXCEPT ![t] = x]
      /\ second' = NoSecond /\ datastructs' = datastructs
  BY DEF SecondAccess, AccessBlock
<1>5. StepShape'
  <2>1. addr_prev' \in [Thread -> Block \cup {NoBlock}]
    BY <1>1, <1>4 DEF IInv, StepShape
  <2>2. accesses' \in Nat /\ accesses' <= MaxAccesses
    BY <1>1, <1>4, LimitAssumption DEF IInv, StepShape
  <2>3. QED
    BY <2>1, <2>2, <1>4, LimitAssumption DEF IInv, StepShape
<1>6. QED
  BY <1>3, <1>5 DEF IInv

\* The allocation functions leave the accesses alone.
LEMMA CallStepShape ==
  ASSUME StepShape, UNCHANGED << second, addr_prev, accesses >>,
         ~MayFree => \A i \in 1 .. Len(datastructs') : ~datastructs'[i].is_freed
  PROVE  StepShape'
BY DEF StepShape

LEMMA MallocStep ==
  ASSUME IInv, NEW t \in Thread, NEW a \in Allocation, Malloc(t, a)
  PROVE  IInv'
<1>1. UNCHANGED << datastructs, cachesims, addrMap, addr_prev, second, corrupt, accesses >>
  BY DEF Malloc
<1>2. ObjectsInv'
  BY MallocKeepsObjects DEF IInv
<1>3. MapInv'
  BY <1>1, IdleKeepsMap DEF IInv
<1>4. StepShape'
  BY <1>1, CallStepShape DEF IInv, StepShape
<1>5. QED
  BY <1>2, <1>3, <1>4 DEF IInv

LEMMA OrgFreeStep ==
  ASSUME IInv, NEW t \in Thread, OrgFree(t)
  PROVE  IInv'
<1>1. UNCHANGED << datastructs, cachesims, addrMap, addr_prev, second, corrupt, accesses >>
  BY DEF OrgFree
<1>2. ObjectsInv'
  BY OrgFreeKeepsObjects DEF IInv
<1>3. MapInv'
  BY <1>1, IdleKeepsMap DEF IInv
<1>4. StepShape'
  BY <1>1, CallStepShape DEF IInv, StepShape
<1>5. QED
  BY <1>2, <1>3, <1>4 DEF IInv

LEMMA HandleDatastructStep ==
  ASSUME IInv, NEW t \in Thread, NEW has_file \in BOOLEAN, HandleDatastruct(t, has_file)
  PROVE  IInv'
<1>1. ObjectsInv'
  BY HandleDatastructKeepsObjects DEF IInv
<1>2. MapInv'
  BY <1>1, HandleDatastructGrows, GrownKeepsMap DEF IInv
<1>3. ~MayFree => \A i \in 1 .. Len(datastructs') : ~datastructs'[i].is_freed
  <2> SUFFICES ASSUME ~MayFree, NEW i \in 1 .. Len(datastructs')
               PROVE  ~datastructs'[i].is_freed
    OBVIOUS
  <2>1. \A j \in 1 .. Len(datastructs) : ~datastructs[j].is_freed
    BY DEF IInv, StepShape
  <2>2. CASE datastructs' = datastructs
    BY <2>1, <2>2
  <2>3. CASE datastructs' = Append(datastructs, NewDatastruct(call[t].alloc[1], call[t].alloc[2]))
    <3> DEFINE ds == NewDatastruct(call[t].alloc[1], call[t].alloc[2])
    <3>1. ds.is_freed = FALSE
      BY DEF NewDatastruct
    <3> HIDE DEF ds
    <3>2. Len(datastructs) \in Nat /\ Len(datastructs') = Len(datastructs) + 1
      BY <2>3, LenProperties DEF ds, IInv, ObjectsInv, ObjectsShape
    <3>3. CASE i = Len(datastructs) + 1
      <4>1. datastructs'[i] = ds
        BY <3>3, <2>3 DEF ds, IInv, ObjectsInv, ObjectsShape
      <4> QED  BY <4>1, <3>1
    <3>4. CASE i \in 1 .. Len(datastructs)
      <4>1. datastructs'[i] = datastructs[i]
        BY <3>4, <2>3 DEF ds, IInv, ObjectsInv, ObjectsShape
      <4> QED  BY <4>1, <3>4, <2>1
    <3> QED  BY <3>2, <3>3, <3>4
  <2>4. QED
    BY <2>2, <2>3 DEF HandleDatastruct
<1>4. UNCHANGED << second, addr_prev, accesses >>
  BY DEF HandleDatastruct
<1>5. StepShape'
  BY <1>3, <1>4, CallStepShape DEF IInv
<1>6. QED
  BY <1>1, <1>2, <1>5 DEF IInv

LEMMA NewFreeStep ==
  ASSUME IInv, NEW t \in Thread, NEW a \in Allocation \cup {NullAllocation}, NewFree(t, a)
  PROVE  IInv'
<1>1. ObjectsInv'
  BY NewFreeKeepsObjects DEF IInv
<1>2. MapInv'
  BY <1>1, NewFreeGrows, GrownKeepsMap DEF IInv
<1>3. MayFree /\ UNCHANGED << second, addr_prev, accesses >>
  BY DEF NewFree
<1>4. StepShape'
  BY <1>3, CallStepShape DEF IInv
<1>5. QED
  BY <1>1, <1>2, <1>4 DEF IInv

LEMMA NextIInv == IInv /\ [Next]_vars => IInv'
<1> SUFFICES ASSUME IInv, [Next]_vars
             PROVE  IInv'
  OBVIOUS
<1>1. CASE UNCHANGED vars
  <2>1. UNCHANGED << heap, call, datastructs, cachesims, addrMap, addr_prev, second, corrupt, accesses >>
    BY <1>1 DEF vars
  <2>2. ObjectsShape' /\ HeapDisjoint' /\ ObjectsOwn' /\ CallsOwn'
    BY <2>1 DEF IInv, ObjectsInv, ObjectsShape, HeapDisjoint, ObjectsOwn, CallsOwn
  <2>3. MapInv' /\ StepShape'
    BY <2>1, IdleKeepsMap DEF IInv, StepShape
  <2>4. QED
    BY <2>2, <2>3 DEF IInv, ObjectsInv
<1>2. ASSUME NEW t \in Thread, NEW x \in Block, NEW crosses \in BOOLEAN, MemAccess(t, x, crosses)
      PROVE  IInv'
  BY <1>2, MemAccessStep
<1>3. ASSUME NEW t \in Thread, SecondAccess(t)
      PROVE  IInv'
  BY <1>3, SecondAccessStep
<1>4. ASSUME NEW t \in Thread, NEW a \in Allocation, Malloc(t, a)
      PROVE  IInv'
  BY <1>4, MallocStep
<1>5. ASSUME NEW t \in Thread, NEW has_file \in BOOLEAN, HandleDatastruct(t, has_file)
      PROVE  IInv'
  BY <1>5, HandleDatastructStep
<1>6. ASSUME NEW t \in Thread, NEW a \in Allocation \cup {NullAllocation}, NewFree(t, a)
      PROVE  IInv'
  BY <1>6, NewFreeStep
<1>7. ASSUME NEW t \in Thread, OrgFree(t)
      PROVE  IInv'
  BY <1>7, OrgFreeStep
<1>8. QED
  BY <1>1, <1>2, <1>3, <1>4, <1>5, <1>6, <1>7 DEF Next

\* The invariant the other theorems rest on holds in every reachable state.
THEOREM Invariance == Spec => []IInv
<1>1. IInv /\ [Next]_vars => IInv'
  BY NextIInv
<1>2. QED
  BY <1>1, InitIInv, PTL DEF Spec

-----------------------------------------------------------------------------
(***************************************************************************)
(* What the invariant says about the profile.                              *)
(***************************************************************************)

\* Every value stays in its C++ type, and an access never outruns its bound.
THEOREM TypeCorrect == Spec => []TypeOK
<1>1. IInv => TypeOK
  <2> SUFFICES ASSUME IInv PROVE TypeOK
    OBVIOUS
  <2>1. /\ heap \subseteq Allocation
        /\ call \in [Thread -> AnyCall]
        /\ datastructs \in Seq(Object)
    BY DEF IInv, ObjectsInv, ObjectsShape
  <2>2. /\ cachesims \in Seq(Cache) /\ corrupt \subseteq 1 .. Len(cachesims)
        /\ DOMAIN addrMap \subseteq Block /\ addrMap \in [DOMAIN addrMap -> Entry]
    BY DEF IInv, MapInv, CachesShape, MapShape, Caches
  <2>3. /\ second = NoSecond \/ second \in [thread : Thread, block : Block]
        /\ addr_prev \in [Thread -> Block \cup {NoBlock}]
        /\ accesses \in 0 .. MaxAccesses
    BY LimitAssumption DEF IInv, StepShape
  <2>4. \A t \in Thread : call[t] = NoCall \/ call[t] \in
           [op : {"malloc", "free"}, alloc : Allocation \cup {NullAllocation}]
    BY <2>1 DEF AnyCall
  <2>5. \A x \in DOMAIN addrMap : addrMap[x] \in Entry
    BY <2>2
  <2>6. QED
    BY <2>1, <2>2, <2>3, <2>4, <2>5 DEF TypeOK, Object, Cache
<1>2. QED
  BY <1>1, Invariance, PTL

\* Blocks and caches never lose their alignment: the iterator on_block_seen
\* uses for a cache is that of the block's only node in it.
THEOREM AlignmentHolds == Spec => []IteratorsAligned
<1>1. IInv => IteratorsAligned
  BY DEF IInv, MapInv
<1>2. QED
  BY <1>1, Invariance, PTL

\* check_consistency (cachesim.cpp) never fails in a cache without a foreign
\* node, however many objects, caches and threads there are.
THEOREM ConsistencyHolds == Spec => []CachesConsistent
<1>1. IInv => CachesConsistent
  BY DEF IInv, MapInv
<1>2. QED
  BY <1>1, Invariance, PTL

\* A block is attributed to a live data object only if it begins in that
\* object's memory, and the memory is still allocated.
THEOREM AttributionHolds == Spec => []AttributionSound
<1>1. IInv => AttributionSound
  <2> SUFFICES ASSUME IInv, NEW x \in DOMAIN addrMap,
                      addrMap[x].ds_num # NoDatastruct, ~datastructs[addrMap[x].ds_num + 1].is_freed
               PROVE  LET k  == addrMap[x].ds_num
                          ds == datastructs[k + 1]
                      IN  /\ << ds.address, ds.nbytes >> \in heap
                          /\ Contains(ds, Base(x))
                          /\ DatastructNum(datastructs, Base(x)) = k
    BY DEF AttributionSound
  <2> DEFINE k == addrMap[x].ds_num
             b == Base(x)
             num == DatastructNum(datastructs, b)
  <2>1. k \in 0 .. Len(datastructs) - 1 /\ Contains(datastructs[k + 1], b)
    BY DEF IInv, MapInv, Attributed
  <2>2. ObjectsInv /\ b \in Nat
    BY BaseNat DEF IInv, MapInv, MapShape
  <2>3. Len(datastructs) \in Nat
    BY <2>2, LenProperties DEF ObjectsInv, ObjectsShape
  <2> HIDE DEF k, b
  <2>4. k + 1 \in 1 .. Len(datastructs)
    BY <2>1, <2>3
  <2>5. Memory(datastructs[k + 1]) \in heap
    BY <2>1, <2>2, <2>4, ContainingUnique
  <2>6. num \in 0 .. Len(datastructs) - 1 /\ k + 1 = num + 1
    BY <2>1, <2>2, <2>4, DatastructNumIs
  <2>7. num = k
    BY <2>1, <2>3, <2>6
  <2>8. QED
    BY <2>1, <2>5, <2>7 DEF Memory, k, b
<1>2. QED
  BY <1>1, Invariance, PTL

\* A node is in a list that its block's data object does not select only in a
\* cache of an object that some free has marked.
THEOREM StrayNodesHold == Spec => []StrayNodesNeedFree
<1>1. IInv => StrayNodesNeedFree
  BY DEF IInv, MapInv
<1>2. QED
  BY <1>1, Invariance, PTL

\* A target that frees nothing has every node in the stack that the map's
\* comment says, and no list is ever spliced with a foreign node.
THEOREM NoFreeNoStray == ~MayFree => (Spec => [](IteratorsWithinStack /\ corrupt = {}))
<1> SUFFICES ASSUME ~MayFree PROVE Spec => [](IteratorsWithinStack /\ corrupt = {})
  OBVIOUS
<1>1. IInv => IteratorsWithinStack /\ corrupt = {}
  <2> SUFFICES ASSUME IInv PROVE IteratorsWithinStack /\ corrupt = {}
    OBVIOUS
  <2>1. \A i \in 1 .. Len(datastructs) : ~datastructs[i].is_freed
    BY DEF IInv, StepShape
  <2>2. ASSUME NEW i \in Caches PROVE ~IsolatesFreed(i)
    <3>1. cachesims[i].ds_nums \subseteq 1 .. Len(datastructs) - 1
      BY DEF IInv, MapInv, CachesShape
    <3>2. Len(datastructs) \in Nat /\ Len(datastructs) > 0
      BY LenProperties DEF IInv, ObjectsInv, ObjectsShape
    <3>3. \A k \in cachesims[i].ds_nums \cup {NoDatastruct} : k + 1 \in 1 .. Len(datastructs)
      BY <3>1, <3>2 DEF NoDatastruct
    <3> QED  BY <3>3, <2>1 DEF IsolatesFreed
  <2>3. corrupt = {}
    BY <2>2, StrayNodes DEF IInv, MapInv, CachesShape
  <2>4. ASSUME NEW x \in DOMAIN addrMap, NEW i \in 1 .. Len(addrMap[x].iterators)
        PROVE  addrMap[x].iterators[i] = PartitionFor(cachesims[i], addrMap[x].ds_num)
    <3>1. Len(addrMap[x].iterators) \in Caches
      BY DEF IInv, MapInv, IteratorsAligned
    <3>2. Len(cachesims) \in Nat
      BY LenProperties DEF IInv, MapInv, CachesShape
    <3>3. i \in Caches
      BY <3>1, <3>2 DEF Caches
    <3> QED  BY <3>3, <2>2, StrayNodes DEF IInv, MapInv
  <2>5. QED
    BY <2>3, <2>4 DEF IteratorsWithinStack
<1>2. QED
  BY <1>1, Invariance, PTL

-----------------------------------------------------------------------------
(***************************************************************************)
(* Cold misses and histograms.  To the caches a step is an access that is  *)
(* looked at, the registration of new ones, or nothing.                    *)
(***************************************************************************)
Looked == \E x \in Block : Accessed(x) /\ UNCHANGED datastructs

LEMMA StepKinds ==
  ASSUME IInv, [Next]_vars
  PROVE  Looked \/ Grown \/ UNCHANGED << cachesims, addrMap, corrupt >>
<1>1. ASSUME NEW t \in Thread, NEW x \in Block, AccessBlock(t, x), UNCHANGED datastructs
      PROVE  Looked \/ UNCHANGED << cachesims, addrMap, corrupt >>
  <2>1. CASE addr_prev[t] = x
    BY <2>1, <1>1 DEF AccessBlock
  <2>2. CASE addr_prev[t] # x
    <3>1. Accessed(x)
      BY <2>2, <1>1, AccessBlockAccesses DEF IInv
    <3> QED  BY <3>1, <1>1 DEF Looked
  <2> QED  BY <2>1, <2>2
<1>2. ASSUME NEW t \in Thread, NEW x \in Block, NEW crosses \in BOOLEAN, MemAccess(t, x, crosses)
      PROVE  Looked \/ UNCHANGED << cachesims, addrMap, corrupt >>
  <2>1. AccessBlock(t, x) /\ UNCHANGED datastructs
    BY <1>2 DEF MemAccess
  <2> QED  BY <2>1, <1>1
<1>3. ASSUME NEW t \in Thread, SecondAccess(t)
      PROVE  Looked \/ UNCHANGED << cachesims, addrMap, corrupt >>
  <2>1. second.block \in Block /\ AccessBlock(t, second.block) /\ UNCHANGED datastructs
    BY <1>3, SecondBlock DEF SecondAccess, IInv
  <2> QED  BY <2>1, <1>1
<1>4. ASSUME NEW t \in Thread, NEW a \in Allocation, Malloc(t, a)
      PROVE  UNCHANGED << cachesims, addrMap, corrupt >>
  BY <1>4 DEF Malloc
<1>5. ASSUME NEW t \in Thread, NEW has_file \in BOOLEAN, HandleDatastruct(t, has_file)
      PROVE  Grown
  BY <1>5, HandleDatastructGrows DEF IInv
<1>6. ASSUME NEW t \in Thread, NEW a \in Allocation \cup {NullAllocation}, NewFree(t, a)
      PROVE  Grown
  BY <1>6, NewFreeGrows DEF IInv
<1>7. ASSUME NEW t \in Thread, OrgFree(t)
      PROVE  UNCHANGED << cachesims, addrMap, corrupt >>
  BY <1>7 DEF OrgFree
<1>8. CASE UNCHANGED vars
  BY <1>8 DEF vars
<1>9. QED
  BY <1>2, <1>3, <1>4, <1>5, <1>6, <1>7, <1>8 DEF Next

\* A simulator counts one cold miss for every node of its stack.
ColdMisses(c) == c.count[InfBucket] = Len(c.stack)

LEMMA AccessColdMisses ==
  ASSUME NEW c, Consistent(c), NEW x \in Block, ColdMisses(c)
  PROVE  ColdMisses(AccessSim(c, x))
<1> DEFINE d == AccessSim(c, x)
           b == IF x \in SeenOf(c) THEN SeenBucket(c, x) ELSE InfBucket
<1>1. /\ c.count \in [Bucket -> Nat] /\ InfBucket \in Bucket /\ InfBucket \in Nat
      /\ Len(c.stack) \in Nat
  BY MinDistAssumption, LenProperties DEF Consistent, CacheSimState, Bucket
<1>2. d.count = [c.count EXCEPT ![b] = @ + 1]
  BY AccessCounts
<1>3. x \in SeenOf(c) <=> OnStack(c, x)
  BY DEF SeenOf, OnStack
<1>4. CASE OnStack(c, x)
  <2> PICK p \in 1 .. Len(c.stack) : c.stack[p] = x
    BY <1>4 DEF OnStack
  <2> DEFINE s == OnBlockSeen(c, x)
  <2>1. SeenBucket(c, x) \in 0 .. InfBucket - 1
    BY SeenBucketHoldsDistance
  <2>2. SeenBucket(c, x) # InfBucket /\ SeenBucket(c, x) \in Bucket
    BY <2>1, <1>1 DEF Bucket
  <2>3. b = SeenBucket(c, x)
    BY <1>3, <1>4
  <2>4. d.count[InfBucket] = c.count[InfBucket]
    BY <2>2, <2>3, <1>1, <1>2
  <2>5. Consistent(s) /\ Len(s.stack) = Len(c.stack)
    BY OnBlockSeenConsistent DEF InFront
  <2>6. d = IncrAccess(s, SeenBucket(c, x))
    BY <1>4 DEF AccessSim
  <2> HIDE DEF s
  <2>7. IncrAccess(s, SeenBucket(c, x)).stack = s.stack
    BY <2>2, <2>5, IncrAccessConsistent
  <2>8. d.stack = s.stack
    BY <2>6, <2>7
  <2> QED  BY <2>4, <2>5, <2>8 DEF ColdMisses
<1>5. CASE ~OnStack(c, x)
  <2> DEFINE s == OnBlockNew(c, x)
  <2>1. b = InfBucket
    BY <1>3, <1>5
  <2>2. d.count[InfBucket] = c.count[InfBucket] + 1
    BY <2>1, <1>1, <1>2
  <2>3. Consistent(s) /\ Len(s.stack) = Len(c.stack) + 1
    BY <1>5, OnBlockNewConsistent
  <2>4. d = IncrAccess(s, InfBucket)
    BY <1>5 DEF AccessSim
  <2> HIDE DEF s
  <2>5. IncrAccess(s, InfBucket).stack = s.stack
    BY <1>1, <2>3, IncrAccessConsistent
  <2>6. d.stack = s.stack
    BY <2>4, <2>5
  <2> QED  BY <2>2, <2>3, <2>6 DEF ColdMisses
<1>6. QED
  BY <1>4, <1>5

NewColdMisses == ColdMisses(NewCacheSim)

LEMMA NewHasNoColdMiss == NewColdMisses
<1>1. Len(NewCacheSim.stack) = 0 /\ NewCacheSim.count = [b \in Bucket |-> 0]
  BY EmptySeq DEF NewCacheSim
<1>2. InfBucket \in Bucket
  BY MinDistAssumption DEF Bucket
<1>3. QED
  BY <1>1, <1>2 DEF NewColdMisses, ColdMisses

ColdMissesInv ==
  \A i \in Caches : i \notin corrupt => \A p \in 0 .. 1 : ColdMisses(cachesims[i].partition[p])

LEMMA InitColdMisses == Init => ColdMissesInv
<1> SUFFICES ASSUME Init, NEW i \in Caches, NEW p \in 0 .. 1
             PROVE  ColdMisses(cachesims[i].partition[p])
  BY DEF ColdMissesInv
<1>1. cachesims[i].partition[p] = NewCacheSim
  BY InitialCaches
<1>2. QED
  BY <1>1, NewHasNoColdMiss DEF NewColdMisses

LEMMA NextColdMisses == IInv /\ ColdMissesInv /\ [Next]_vars => ColdMissesInv'
<1> SUFFICES ASSUME IInv, ColdMissesInv, [Next]_vars, NEW i \in Caches', i \notin corrupt', NEW p \in 0 .. 1
             PROVE  ColdMisses(cachesims'[i].partition[p])
  BY DEF ColdMissesInv
<1>1. MapInv /\ MapShape /\ CachesShape /\ CachesConsistent
  BY DEF IInv, MapInv
<1>2. Len(cachesims) \in Nat
  BY <1>1, LenProperties DEF CachesShape
<1>3. CASE Looked
  <2>1. PICK x \in Block : Accessed(x)
    BY <1>3 DEF Looked
  <2> DEFINE q == addrMap'[x].iterators[i]
  <2>2. i \in Caches
    BY <2>1 DEF Accessed, Caches
  <2>3. i \notin corrupt
    BY <2>1 DEF Accessed
  <2>4. AccessedIn(cachesims[i], cachesims'[i], q, x)
    BY <2>1, <2>2 DEF Accessed
  <2>5. cachesims'[i].partition[p] = IF p = q THEN AccessSim(cachesims[i].partition[p], x)
                                              ELSE cachesims[i].partition[p]
    BY <2>4 DEF AccessedIn
  <2>6. Consistent(cachesims[i].partition[p]) /\ ColdMisses(cachesims[i].partition[p])
    BY <1>1, <2>2, <2>3 DEF CachesConsistent, ColdMissesInv
  <2> HIDE DEF q
  <2> QED  BY <2>5, <2>6, AccessColdMisses
<1>4. CASE Grown
  <2>1. /\ corrupt' = corrupt
        /\ \A j \in Caches : cachesims'[j] = cachesims[j]
        /\ \A j \in Len(cachesims) + 1 .. Len(cachesims') : cachesims'[j].partition[p] = NewCacheSim
        /\ cachesims' \in Seq(Cache)
    BY <1>4 DEF Grown
  <2>2. Len(cachesims') \in Nat
    BY <2>1, LenProperties
  <2>3. i \in Caches \/ i \in Len(cachesims) + 1 .. Len(cachesims')
    BY <1>2, <2>2 DEF Caches
  <2>4. CASE i \in Caches
    BY <2>1, <2>4 DEF ColdMissesInv
  <2>5. CASE i \in Len(cachesims) + 1 .. Len(cachesims')
    BY <2>1, <2>5, NewHasNoColdMiss DEF NewColdMisses
  <2> QED  BY <2>3, <2>4, <2>5
<1>5. CASE UNCHANGED << cachesims, addrMap, corrupt >>
  BY <1>5 DEF ColdMissesInv, Caches
<1>6. QED
  BY <1>3, <1>4, <1>5, StepKinds

\* Every block has one cold miss per cache it has a node in.
THEOREM ColdMissesHold == Spec => []ColdMissPerNode
<1>1. Spec => []ColdMissesInv
  BY Invariance, InitColdMisses, NextColdMisses, PTL DEF Spec
<1>2. IInv /\ ColdMissesInv => ColdMissPerNode
  <2> SUFFICES ASSUME IInv, ColdMissesInv, NEW i \in Caches \ corrupt
               PROVE  LET p0 == cachesims[i].partition[0]
                          p1 == cachesims[i].partition[1]
                      IN  p0.count[InfBucket] + p1.count[InfBucket] = Len(p0.stack) + Len(p1.stack)
    BY DEF ColdMissPerNode
  <2>1. ColdMisses(cachesims[i].partition[0]) /\ ColdMisses(cachesims[i].partition[1])
    BY DEF ColdMissesInv
  <2> QED  BY <2>1 DEF ColdMisses
<1>3. QED
  BY <1>1, <1>2, Invariance, PTL

\* The first cache's partition 1, which the numbers of data object 0 are
\* printed from.
Global == cachesims[1].partition[1]

\* An access that is looked at is one of the global simulator.
LEMMA GlobalAccessed ==
  ASSUME IInv, NEW x \in Block, Accessed(x), UNCHANGED datastructs
  PROVE  Consistent(Global) /\ Global' = AccessSim(Global, x)
<1>1. 1 \in Caches /\ 1 \notin corrupt /\ 1 \notin corrupt'
  <2>1. FirstCache /\ FirstCache'
    BY AccessedKeepsCaches DEF IInv, MapInv
  <2>2. Len(cachesims) \in Nat /\ Len(cachesims) > 0
    BY LenProperties DEF IInv, MapInv, CachesShape
  <2> QED  BY <2>1, <2>2 DEF FirstCache, Caches
<1>2. /\ AccessedIn(cachesims[1], cachesims'[1], addrMap'[x].iterators[1], x)
      /\ x \in DOMAIN addrMap'
  BY <1>1 DEF Accessed
<1>3. addrMap'[x].iterators[1] = 1
  BY <1>2, AccessedKeepsCaches DEF FirstCache, IInv
<1>4. Global' = AccessSim(Global, x)
  BY <1>2, <1>3 DEF AccessedIn, Global
<1>5. Consistent(Global)
  BY <1>1 DEF IInv, MapInv, CachesConsistent, Global
<1>6. QED
  BY <1>4, <1>5

LEMMA GlobalAccess ==
  ASSUME IInv, NEW x \in Block, Accessed(x), UNCHANGED datastructs
  PROVE  Reuse!Access(x)
<1>1. HistoryStep(Global, Global', x)
  BY GlobalAccessed, AccessSimHistory
<1>2. Reuse!BucketOf(Reuse!Distance(x)) = HistoryBucket(HistoryDistance(Global, x))
  BY DEF HistoryBucket, HistoryDistance, Reuse!BucketOf, Reuse!Distance, Reuse!Cardinality, Cardinality, Global
<1>3. QED
  BY <1>1, <1>2 DEF HistoryStep, Reuse!Access, Global

\* Everything that is not an access that is looked at leaves it alone.
LEMMA GlobalKept ==
  ASSUME IInv, Grown \/ UNCHANGED << cachesims, addrMap, corrupt >>
  PROVE  UNCHANGED Reuse!vars
<1>1. 1 \in Caches
  BY LenProperties DEF IInv, MapInv, CachesShape, Caches
<1>2. cachesims'[1] = cachesims[1]
  BY <1>1 DEF Grown
<1>3. QED
  BY <1>2 DEF Reuse!vars

\* The numbers printed for data object 0 are the reuse distance histogram of
\* the whole target, for any number of objects, caches and threads: each access
\* that is looked at is an access of the abstract histogram, to the same block,
\* and nothing else changes that.
THEOREM GlobalImplementsReuseDistance == Spec => GlobalHistogram
<1>1. Init => Reuse!Init
  <2> SUFFICES ASSUME Init PROVE Reuse!Init
    OBVIOUS
  <2>1. cachesims[1].partition[1] = NewCacheSim
    BY InitialCaches DEF Caches
  <2> QED  BY <2>1, NewHistory DEF Reuse!Init
<1>2. IInv /\ [Next]_vars => [Reuse!Next]_(Reuse!vars)
  <2> SUFFICES ASSUME IInv, [Next]_vars PROVE [Reuse!Next]_(Reuse!vars)
    OBVIOUS
  <2>1. CASE Looked
    <3>1. PICK x \in Block : Accessed(x) /\ UNCHANGED datastructs
      BY <2>1 DEF Looked
    <3>2. Reuse!Access(x)
      BY <3>1, GlobalAccess
    <3> QED  BY <3>2 DEF Reuse!Next
  <2>2. CASE Grown \/ UNCHANGED << cachesims, addrMap, corrupt >>
    BY <2>2, GlobalKept
  <2> QED  BY <2>1, <2>2, StepKinds
<1>3. IInv /\ [Next]_vars =>
        [\A t \in Thread, x \in Block :
           Accesses(t, x) /\ addr_prev[t] # x => Reuse!Access(x)]_vars
  <2> SUFFICES ASSUME IInv, NEW t \in Thread, NEW x \in Block, Accesses(t, x), addr_prev[t] # x
               PROVE  Reuse!Access(x)
    OBVIOUS
  <2>1. AccessBlock(t, x) /\ UNCHANGED datastructs
    BY DEF Accesses, MemAccess, SecondAccess
  <2>2. Accessed(x)
    BY <2>1, AccessBlockAccesses DEF IInv
  <2> QED  BY <2>1, <2>2, GlobalAccess
<1>4. QED
  BY <1>1, <1>2, <1>3, Invariance, PTL DEF Spec, Reuse!Spec, GlobalHistogram

-----------------------------------------------------------------------------
(***************************************************************************)
(* Skipped accesses of a target with one thread.                           *)
(***************************************************************************)
PreviousOnTop == \A t \in Thread : addr_prev[t] # NoBlock => Global.stack[1] = addr_prev[t]

LEMMA AccessBlockPrevious ==
  ASSUME IInv, PreviousOnTop, \A t, u \in Thread : t = u,
         NEW t \in Thread, NEW x \in Block, AccessBlock(t, x), UNCHANGED datastructs
  PROVE  PreviousOnTop'
<1>1. addr_prev' = [addr_prev EXCEPT ![t] = x] /\ addr_prev \in [Thread -> Block \cup {NoBlock}]
  BY DEF AccessBlock, IInv, StepShape
<1>2. \A u \in Thread : addr_prev'[u] = x
  BY <1>1
<1>3. Global'.stack[1] = x
  <2>1. CASE addr_prev[t] = x
    <3>1. cachesims' = cachesims
      BY <2>1 DEF AccessBlock
    <3>2. x # NoBlock
      BY BlockAssumption
    <3> QED  BY <2>1, <3>1, <3>2 DEF PreviousOnTop, Global
  <2>2. CASE addr_prev[t] # x
    <3>1. Accessed(x)
      BY <2>2, AccessBlockAccesses DEF IInv
    <3>2. \E to : Fronted(Global, Global', x, to)
      BY <3>1, GlobalAccessed, AccessFronts
    <3> QED  BY <3>2 DEF Fronted
  <2> QED  BY <2>1, <2>2
<1> QED  BY <1>2, <1>3 DEF PreviousOnTop

LEMMA NextPrevious ==
  ASSUME IInv, PreviousOnTop, \A t, u \in Thread : t = u, [Next]_vars
  PROVE  PreviousOnTop'
<1>1. ASSUME NEW t \in Thread, NEW x \in Block, NEW crosses \in BOOLEAN, MemAccess(t, x, crosses)
      PROVE  PreviousOnTop'
  BY <1>1, AccessBlockPrevious DEF MemAccess
<1>2. ASSUME NEW t \in Thread, SecondAccess(t)
      PROVE  PreviousOnTop'
  <2>1. second.block \in Block /\ AccessBlock(t, second.block) /\ UNCHANGED datastructs
    BY <1>2, SecondBlock DEF SecondAccess, IInv
  <2> QED  BY <2>1, AccessBlockPrevious
<1>3. ASSUME UNCHANGED addr_prev, Grown \/ UNCHANGED cachesims
      PROVE  PreviousOnTop'
  <2>1. 1 \in Caches
    BY LenProperties DEF IInv, MapInv, CachesShape, Caches
  <2>2. Global' = Global
    BY <1>3, <2>1 DEF Grown, Global
  <2> QED  BY <1>3, <2>2 DEF PreviousOnTop
<1>4. ASSUME NEW t \in Thread, NEW a \in Allocation, Malloc(t, a)
      PROVE  PreviousOnTop'
  BY <1>4, <1>3 DEF Malloc
<1>5. ASSUME NEW t \in Thread, NEW has_file \in BOOLEAN, HandleDatastruct(t, has_file)
      PROVE  PreviousOnTop'
  <2>1. Grown
    BY <1>5, HandleDatastructGrows DEF IInv
  <2>2. UNCHANGED addr_prev
    BY <1>5 DEF HandleDatastruct
  <2> QED  BY <2>1, <2>2, <1>3
<1>6. ASSUME NEW t \in Thread, NEW a \in Allocation \cup {NullAllocation}, NewFree(t, a)
      PROVE  PreviousOnTop'
  <2>1. Grown
    BY <1>6, NewFreeGrows DEF IInv
  <2>2. UNCHANGED addr_prev
    BY <1>6 DEF NewFree
  <2> QED  BY <2>1, <2>2, <1>3
<1>7. ASSUME NEW t \in Thread, OrgFree(t)
      PROVE  PreviousOnTop'
  BY <1>7, <1>3 DEF OrgFree
<1>8. CASE UNCHANGED vars
  BY <1>8, <1>3 DEF vars
<1>9. QED
  BY <1>1, <1>2, <1>4, <1>5, <1>6, <1>7, <1>8 DEF Next

\* With one thread an access that is not looked at has distance zero: its block
\* is the one the whole target accessed last.
THEOREM OneThreadSkipsZero == (\A t, u \in Thread : t = u) => (Spec => SkipsZeroDistance)
<1> SUFFICES ASSUME \A t, u \in Thread : t = u PROVE Spec => SkipsZeroDistance
  OBVIOUS
<1>1. Init => PreviousOnTop
  BY DEF Init, PreviousOnTop
<1>2. IInv /\ PreviousOnTop /\ [Next]_vars => PreviousOnTop'
  BY NextPrevious
<1>3. PreviousOnTop =>
        [\A t \in Thread, x \in Block :
           Accesses(t, x) /\ addr_prev[t] = x => cachesims[1].partition[1].stack[1] = x]_vars
  <2>1. \A x \in Block : x # NoBlock
    BY BlockAssumption
  <2> QED  BY <2>1 DEF PreviousOnTop, Global
<1>4. QED
  BY <1>1, <1>2, <1>3, Invariance, PTL DEF Spec, SkipsZeroDistance

-----------------------------------------------------------------------------
(***************************************************************************)
(* The caches of the registered objects.                                   *)
(***************************************************************************)
LEMMA WantedIs ==
  ASSUME NEW ds, NEW s
  PROVE  s \in Wanted(ds) <=> \/ s = {}
                              \/ \E k \in 1 .. Len(ds) - 1 : s = {k}
                              \/ \E j, k \in LargeOnes(ds) : s = {j, k}
BY DEF Wanted

\* The caches a registration adds are those of NewSets, each once.
LEMMA RegisteredObjects ==
  ASSUME NEW ds \in Seq(Object), Len(ds) > 1, NEW css \in Seq(Cache)
  PROVE  LET r == Registered(ds, css)
             new == Len(css) + 1 .. Len(r)
         IN  /\ \A i \in new : r[i].ds_nums \in NewSets(ds)
             /\ \A s \in NewSets(ds) : \E i \in new : r[i].ds_nums = s
             /\ \A i, j \in new : r[i].ds_nums = r[j].ds_nums => i = j
<1> DEFINE added == AddedCaches(ds)
           m == Len(added)
           c == Len(css)
           r == Registered(ds, css)
<1>1. Len(ds) \in Nat /\ c \in Nat
  BY LenProperties
<1>2. /\ m \in Nat
      /\ {added[i] : i \in 1 .. m} = NewSets(ds)
      /\ \A i, j \in 1 .. m : added[i] = added[j] => i = j
  BY <1>1, AddedCachesAre
<1>3. /\ Len(r) = c + m
      /\ \A i \in 1 .. c + m : r[i] = IF i <= c THEN css[i] ELSE NewPartitionedCache(added[i - c])
  BY <1>1, RegisteredLayout
<1> HIDE DEF added, m, r, c
<1>4. \A i \in 1 .. m : c + i \in 1 .. c + m /\ ~(c + i <= c) /\ (c + i) - c = i
  BY <1>1, <1>2
<1>5. \A i \in c + 1 .. Len(r) : i - c \in 1 .. m /\ r[i].ds_nums = added[i - c]
  <2> SUFFICES ASSUME NEW i \in c + 1 .. Len(r)
               PROVE  i - c \in 1 .. m /\ r[i].ds_nums = added[i - c]
    OBVIOUS
  <2>1. i - c \in 1 .. m /\ c + (i - c) = i
    BY <1>1, <1>2, <1>3
  <2>2. i \in 1 .. c + m /\ ~(i <= c)
    BY <1>1, <1>2, <1>3
  <2>3. r[i] = NewPartitionedCache(added[i - c])
    BY <2>2, <1>3
  <2> QED  BY <2>1, <2>3 DEF NewPartitionedCache
<1>6. \A i \in 1 .. m : c + i \in c + 1 .. Len(r) /\ r[c + i].ds_nums = added[i]
  <2> SUFFICES ASSUME NEW i \in 1 .. m
               PROVE  c + i \in c + 1 .. Len(r) /\ r[c + i].ds_nums = added[i]
    OBVIOUS
  <2>1. c + i \in c + 1 .. Len(r)
    BY <1>1, <1>2, <1>3
  <2>2. (c + i) - c = i
    BY <1>4
  <2> QED  BY <2>1, <2>2, <1>5
<1>7. /\ \A i \in c + 1 .. Len(r) : r[i].ds_nums \in NewSets(ds)
      /\ \A s \in NewSets(ds) : \E i \in c + 1 .. Len(r) : r[i].ds_nums = s
  <2>1. /\ \A j \in 1 .. m : added[j] \in NewSets(ds)
        /\ \A s \in NewSets(ds) : \E j \in 1 .. m : added[j] = s
    BY <1>2
  <2>2. ASSUME NEW i \in c + 1 .. Len(r) PROVE r[i].ds_nums \in NewSets(ds)
    BY <2>1, <1>5
  <2>3. ASSUME NEW s \in NewSets(ds) PROVE \E i \in c + 1 .. Len(r) : r[i].ds_nums = s
    <3>1. PICK j \in 1 .. m : added[j] = s
      BY <2>1
    <3> QED  BY <3>1, <1>6
  <2> QED  BY <2>2, <2>3
<1>8. ASSUME NEW i \in c + 1 .. Len(r), NEW j \in c + 1 .. Len(r), r[i].ds_nums = r[j].ds_nums
      PROVE  i = j
  <2>1. i - c = j - c
    BY <1>2, <1>5, <1>8
  <2> QED  BY <2>1, <1>1, <1>2, <1>4
<1> QED  BY <1>7, <1>8 DEF r, c

\* With the next data object the caches of NewSets are wanted besides.
LEMMA WantedGrows ==
  ASSUME NEW ds \in Seq(Object), Len(ds) > 0, NEW dss \in Seq(Object), Len(dss) = Len(ds) + 1,
         \A i \in 1 .. Len(ds) : dss[i] = ds[i]
  PROVE  Wanted(dss) = Wanted(ds) \cup NewSets(dss)
<1> DEFINE n == Len(ds)
           large == LargeOnes(ds)
           big == dss[n + 1].nbytes >= CombineThreshold
<1>1. n \in Nat /\ n > 0 /\ Len(dss) = n + 1
  BY LenProperties
<1>2. \A k \in 1 .. n - 1 : dss[k + 1] = ds[k + 1]
  BY <1>1
<1>3. LargeOnes(dss) = large \cup (IF big THEN {n} ELSE {}) /\ large \subseteq 1 .. n - 1
  <2>1. ASSUME NEW k \in 1 .. n PROVE k \in LargeOnes(dss) <=> k \in large \/ (big /\ k = n)
    <3>1. CASE k = n
      BY <3>1, <1>1 DEF LargeOnes
    <3>2. CASE k # n
      <4>1. k \in 1 .. n - 1
        BY <3>2, <1>1
      <4> QED  BY <3>2, <4>1, <1>1, <1>2 DEF LargeOnes
    <3> QED  BY <3>1, <3>2
  <2>2. LargeOnes(dss) \subseteq 1 .. n /\ large \subseteq 1 .. n /\ n \in 1 .. n
    BY <1>1 DEF LargeOnes
  <2>3. large \subseteq 1 .. n - 1
    BY DEF LargeOnes
  <2> HIDE DEF large, big, n
  <2> QED  BY <2>1, <2>2, <2>3
<1>4. NewSets(dss) = {{n}} \cup {{n, j} : j \in IF big THEN large ELSE {}}
  <2>1. dss[n + 1].nbytes \in Nat
    <3>1. n + 1 \in 1 .. Len(dss)
      BY <1>1
    <3>2. dss[n + 1] \in Object
      BY <3>1, ElementOfSeq
    <3> QED  BY <3>2 DEF Object
  <2>2. ~big <=> dss[n + 1].nbytes < CombineThreshold
    BY <2>1, ThresholdAssumption
  <2>3. Large(dss, 1 .. n - 1) = large
    BY <1>1, <1>2 DEF Large, LargeOnes
  <2>4. Len(dss) - 1 = n
    BY <1>1
  <2>5. NewSets(dss) = {{n}} \cup {{n, j} : j \in IF dss[n + 1].nbytes < CombineThreshold
                                                  THEN {} ELSE Large(dss, 1 .. n - 1)}
    BY <2>4 DEF NewSets
  <2> HIDE DEF big, large, n
  <2> QED  BY <2>2, <2>3, <2>5
<1>5. 1 .. Len(dss) - 1 = (1 .. n - 1) \cup {n} /\ 1 .. Len(ds) - 1 = 1 .. n - 1
  BY <1>1
<1> HIDE DEF n, large, big
<1>6. \A s : s \in Wanted(ds) <=> \/ s = {}
                                  \/ \E k \in 1 .. n - 1 : s = {k}
                                  \/ \E j, k \in large : s = {j, k}
  <2> SUFFICES ASSUME NEW s
               PROVE  s \in Wanted(ds) <=> \/ s = {}
                                           \/ \E k \in 1 .. n - 1 : s = {k}
                                           \/ \E j, k \in large : s = {j, k}
    OBVIOUS
  <2>1. s \in Wanted(ds) <=> \/ s = {}
                             \/ \E k \in 1 .. Len(ds) - 1 : s = {k}
                             \/ \E j, k \in LargeOnes(ds) : s = {j, k}
    BY WantedIs
  <2> QED  BY <2>1, <1>5, Zenon DEF large
<1>7. \A s : s \in Wanted(dss) <=> \/ s = {}
                                   \/ \E k \in (1 .. n - 1) \cup {n} : s = {k}
                                   \/ \E j, k \in large \cup (IF big THEN {n} ELSE {}) : s = {j, k}
  <2> SUFFICES ASSUME NEW s
               PROVE  s \in Wanted(dss) <=>
                        \/ s = {}
                        \/ \E k \in (1 .. n - 1) \cup {n} : s = {k}
                        \/ \E j, k \in large \cup (IF big THEN {n} ELSE {}) : s = {j, k}
    OBVIOUS
  <2>1. s \in Wanted(dss) <=> \/ s = {}
                              \/ \E k \in 1 .. Len(dss) - 1 : s = {k}
                              \/ \E j, k \in LargeOnes(dss) : s = {j, k}
    BY WantedIs
  <2> QED  BY <2>1, <1>3, <1>5, Zenon
<1>8. ASSUME NEW s \in Wanted(dss) PROVE s \in Wanted(ds) \cup NewSets(dss)
  <2>1. CASE s = {}
    BY <2>1, <1>6
  <2>2. ASSUME NEW k \in (1 .. n - 1) \cup {n}, s = {k} PROVE s \in Wanted(ds) \cup NewSets(dss)
    BY <2>2, <1>4, <1>6
  <2>3. ASSUME NEW j \in large \cup (IF big THEN {n} ELSE {}),
               NEW k \in large \cup (IF big THEN {n} ELSE {}), s = {j, k}
        PROVE  s \in Wanted(ds) \cup NewSets(dss)
    <3>1. CASE j \in large /\ k \in large
      BY <3>1, <2>3, <1>6
    <3>2. CASE big /\ j = n /\ k \in large
      BY <3>2, <2>3, <1>4
    <3>0. \/ j \in large /\ k \in large
          \/ big /\ j = n /\ k \in large
          \/ big /\ j \in large /\ k = n
          \/ j = n /\ k = n
      OBVIOUS
    <3>3. CASE big /\ j \in large /\ k = n
      <4>1. s = {n, j}
        BY <3>3, <2>3
      <4> QED  BY <3>3, <4>1, <1>4
    <3>4. CASE j = n /\ k = n
      <4>1. s = {n}
        BY <3>4, <2>3
      <4> QED  BY <4>1, <1>4
    <3> QED  BY <3>0, <3>1, <3>2, <3>3, <3>4
  <2> QED  BY <2>1, <2>2, <2>3, <1>7
<1>9. ASSUME NEW s \in Wanted(ds) PROVE s \in Wanted(dss)
  <2>1. CASE s = {}
    BY <2>1, <1>7
  <2>2. ASSUME NEW k \in 1 .. n - 1, s = {k} PROVE s \in Wanted(dss)
    BY <2>2, <1>7
  <2>3. ASSUME NEW j \in large, NEW k \in large, s = {j, k} PROVE s \in Wanted(dss)
    BY <2>3, <1>7
  <2> QED  BY <2>1, <2>2, <2>3, <1>6
<1>10. ASSUME NEW s \in NewSets(dss) PROVE s \in Wanted(dss)
  <2>1. CASE s = {n}
    BY <2>1, <1>7
  <2>2. ASSUME NEW j \in large, big, s = {n, j} PROVE s \in Wanted(dss)
    BY <2>2, <1>7
  <2> QED  BY <2>1, <2>2, <1>4
<1> QED  BY <1>8, <1>9, <1>10

\* Nothing of that depends on what an object's is_freed is.
LEMMA WantedKept ==
  ASSUME NEW ds, NEW dss, Len(dss) = Len(ds),
         \A i \in 1 .. Len(ds) : dss[i].nbytes = ds[i].nbytes, Len(ds) \in Nat
  PROVE  Wanted(dss) = Wanted(ds)
<1>1. LargeOnes(dss) = LargeOnes(ds)
  <2>1. \A k \in 1 .. Len(ds) - 1 : dss[k + 1].nbytes = ds[k + 1].nbytes
    OBVIOUS
  <2> QED  BY <2>1 DEF LargeOnes
<1> QED  BY <1>1 DEF Wanted

\* EveryObjectSimulated, cache by cache.
Simulated ==
  /\ cachesims[1].ds_nums = {}
  /\ \A i \in Caches : cachesims[i].ds_nums \in Wanted(datastructs)
  /\ \A s \in Wanted(datastructs) : \E i \in Caches : cachesims[i].ds_nums = s
  /\ \A i, j \in Caches : cachesims[i].ds_nums = cachesims[j].ds_nums => i = j

LEMMA SimulatedIs == Simulated => EveryObjectSimulated
<1> SUFFICES ASSUME Simulated PROVE EveryObjectSimulated
  OBVIOUS
<1>1. {cachesims[i].ds_nums : i \in Caches} = Wanted(datastructs)
  BY DEF Simulated
<1>2. cachesims[1].ds_nums = {}
      /\ \A i, j \in Caches : cachesims[i].ds_nums = cachesims[j].ds_nums => i = j
  BY DEF Simulated
<1>3. QED
  BY <1>1, <1>2 DEF EveryObjectSimulated

\* RD_init registers one cache, which isolates nothing.
LEMMA InitSimulated == Init => Simulated
<1> SUFFICES ASSUME Init PROVE Simulated
  OBVIOUS
<1> DEFINE ds == << NewDatastruct(0, 0) >>
           none == << >>
<1>1. ds \in Seq(Object) /\ Len(ds) = 1
  BY DEF NewDatastruct, Object
<1>2. none \in Seq(Cache) /\ Len(none) = 0
  OBVIOUS
<1>3. datastructs = ds /\ cachesims = Registered(ds, none)
  BY DEF Init
<1> HIDE DEF ds, none
<1>4. Len(AddedCaches(ds)) = 1
  <2> DEFINE k == Len(ds) - 1
  <2>0. k = 0
    BY <1>1
  <2>2. Len(Pairs(0, {})) = 0
    BY FS_EmptySet DEF Pairs
  <2>3. Combine(ds) = << >> \/ Combine(ds) = Pairs(0, {})
    <3>1. Combine(ds) = << >> \/ Combine(ds) = Pairs(k, Large(ds, 1 .. k - 1))
      BY DEF Combine
    <3> HIDE DEF k
    <3>2. Large(ds, 1 .. k - 1) = {}
      BY <2>0 DEF Large
    <3> QED  BY <3>1, <3>2, <2>0
  <2>4. Combine(ds) \in Seq(SUBSET Nat) /\ Len(Combine(ds)) = 0
    <3>1. Pairs(0, {}) \in Seq(SUBSET Nat)
      BY FS_EmptySet, PairsType
    <3>2. << >> \in Seq(SUBSET Nat) /\ Len(<< >>) = 0
      OBVIOUS
    <3> QED  BY <3>1, <3>2, <2>2, <2>3
  <2>5. << IF Len(ds) - 1 > NoDatastruct THEN {Len(ds) - 1} ELSE {} >> \in Seq(SUBSET Nat)
    BY <1>1 DEF NoDatastruct
  <2> QED  BY <2>4, <2>5, ConcatProperties DEF AddedCaches
<1>5. Len(cachesims) = 1
  <2>1. Len(Registered(ds, none)) = Len(none) + Len(AddedCaches(ds))
    <3>1. Len(ds) > 0
      BY <1>1
    <3> QED  BY <3>1, <1>1, <1>2, RegisteredLayout
  <2> QED  BY <2>1, <1>2, <1>3, <1>4
<1>6. Caches = {1} /\ cachesims[1].ds_nums = {}
  BY <1>5, InitialCaches DEF Caches
<1>7. Wanted(datastructs) = {{}}
  <2>1. 1 .. Len(ds) - 1 = {}
    BY <1>1
  <2>2. LargeOnes(ds) = {}
    BY <2>1 DEF LargeOnes
  <2>3. \A s : s \in Wanted(ds) <=> s = {}
    BY <2>1, <2>2, WantedIs
  <2> QED  BY <1>3, <2>3
<1>8. QED
  BY <1>6, <1>7 DEF Simulated

\* A registration adds the caches of the new object, and nothing that is there.
LEMMA RegistrationSimulates ==
  ASSUME IInv, Simulated, NEW ds \in Object, datastructs' = Append(datastructs, ds),
         cachesims' = Registered(datastructs', cachesims)
  PROVE  Simulated'
<1> DEFINE dss == datastructs'
           css == cachesims'
           c == Len(cachesims)
           n == Len(datastructs)
<1>1. /\ datastructs \in Seq(Object) /\ n \in Nat /\ n > 0
      /\ cachesims \in Seq(Cache) /\ c \in Nat /\ c > 0 /\ Caches = 1 .. c
  BY LenProperties DEF IInv, ObjectsInv, ObjectsShape, MapInv, CachesShape, Caches
<1>2. /\ dss \in Seq(Object) /\ Len(dss) = n + 1
      /\ \A i \in 1 .. n : dss[i] = datastructs[i]
  BY <1>1, AppendProperties
<1>3. css = Registered(dss, cachesims) /\ Caches' = 1 .. Len(css)
  BY DEF Caches
<1>4. Len(dss) > 1 /\ Len(dss) > 0
  BY <1>1, <1>2
<1>5. Wanted(dss) = Wanted(datastructs) \cup NewSets(dss)
  BY <1>1, <1>2, WantedGrows
<1> HIDE DEF dss, css
<1>6. /\ \A i \in c + 1 .. Len(css) : css[i].ds_nums \in NewSets(dss)
      /\ \A s \in NewSets(dss) : \E i \in c + 1 .. Len(css) : css[i].ds_nums = s
      /\ \A i, j \in c + 1 .. Len(css) : css[i].ds_nums = css[j].ds_nums => i = j
  <2>1. LET r == Registered(dss, cachesims)
            new == Len(cachesims) + 1 .. Len(r)
        IN  /\ \A i \in new : r[i].ds_nums \in NewSets(dss)
            /\ \A s \in NewSets(dss) : \E i \in new : r[i].ds_nums = s
            /\ \A i, j \in new : r[i].ds_nums = r[j].ds_nums => i = j
    BY <1>1, <1>2, <1>4, RegisteredObjects
  <2> QED  BY <2>1, <1>3
<1>7. Len(css) > c /\ Len(css) \in Nat /\ \A i \in 1 .. c : css[i] = cachesims[i]
  <2>1. LET r == Registered(dss, cachesims)
        IN  r \in Seq(Cache) /\ Len(r) > c /\ \A i \in 1 .. c : r[i] = cachesims[i]
    BY <1>1, <1>2, <1>4, RegisteredCaches
  <2>2. css \in Seq(Cache) /\ Len(css) > c /\ \A i \in 1 .. c : css[i] = cachesims[i]
    BY <2>1, <1>3
  <2> QED  BY <2>2, LenProperties
<1>8. \A s \in NewSets(dss) : n \in s
  BY <1>2, <1>1 DEF NewSets
<1>9. \A i \in 1 .. c : n \notin cachesims[i].ds_nums
  <2>1. \A i \in 1 .. c : cachesims[i].ds_nums \subseteq 1 .. n - 1
    BY <1>1 DEF IInv, MapInv, CachesShape
  <2> QED  BY <2>1, <1>1
<1> HIDE DEF n, c
<1>10. \A i \in 1 .. Len(css) : i \in 1 .. c \/ i \in c + 1 .. Len(css)
  BY <1>1, <1>7
<1>11. 1 \in 1 .. c /\ \A i \in 1 .. c : i \in 1 .. Len(css)
  BY <1>1, <1>7
<1>12. \A i \in c + 1 .. Len(css) : i \in 1 .. Len(css)
  BY <1>1, <1>7
<1>13. css[1].ds_nums = {}
  BY <1>7, <1>11 DEF Simulated
<1>14. \A i \in 1 .. Len(css) : css[i].ds_nums \in Wanted(dss)
  BY <1>1, <1>5, <1>6, <1>7, <1>10 DEF Simulated
<1>15. \A s \in Wanted(dss) : \E i \in 1 .. Len(css) : css[i].ds_nums = s
  <2> SUFFICES ASSUME NEW s \in Wanted(dss) PROVE \E i \in 1 .. Len(css) : css[i].ds_nums = s
    OBVIOUS
  <2>1. CASE s \in Wanted(datastructs)
    <3>1. PICK i \in 1 .. c : cachesims[i].ds_nums = s
      BY <2>1, <1>1 DEF Simulated
    <3> QED  BY <3>1, <1>7, <1>11
  <2>2. CASE s \in NewSets(dss)
    <3>1. PICK i \in c + 1 .. Len(css) : css[i].ds_nums = s
      BY <2>2, <1>6
    <3> QED  BY <3>1, <1>12
  <2> QED  BY <2>1, <2>2, <1>5
<1>16. ASSUME NEW i \in 1 .. Len(css), NEW j \in 1 .. Len(css), css[i].ds_nums = css[j].ds_nums
       PROVE  i = j
  <2>1. CASE i \in 1 .. c /\ j \in 1 .. c
    BY <2>1, <1>1, <1>7, <1>16 DEF Simulated
  <2>2. CASE i \in c + 1 .. Len(css) /\ j \in c + 1 .. Len(css)
    BY <2>2, <1>6, <1>16
  <2>3. ASSUME NEW a \in 1 .. c, NEW b \in c + 1 .. Len(css), css[a].ds_nums = css[b].ds_nums
        PROVE  FALSE
    <3>1. n \in css[b].ds_nums
      BY <1>6, <1>8
    <3>2. n \notin css[a].ds_nums
      BY <1>7, <1>9
    <3> QED  BY <3>1, <3>2, <2>3
  <2> QED  BY <2>1, <2>2, <2>3, <1>10, <1>16
<1>17. Simulated' = /\ css[1].ds_nums = {}
                    /\ \A i \in 1 .. Len(css) : css[i].ds_nums \in Wanted(dss)
                    /\ \A s \in Wanted(dss) : \E i \in 1 .. Len(css) : css[i].ds_nums = s
                    /\ \A i, j \in 1 .. Len(css) : css[i].ds_nums = css[j].ds_nums => i = j
  BY DEF Simulated, Caches, css, dss
<1>18. QED
  BY <1>13, <1>14, <1>15, <1>16, <1>17

\* Every other step keeps the caches' objects and the objects' sizes.
LEMMA KeptSimulates ==
  ASSUME Simulated, Len(datastructs') = Len(datastructs), Len(datastructs) \in Nat,
         \A i \in 1 .. Len(datastructs) : datastructs'[i].nbytes = datastructs[i].nbytes,
         Len(cachesims') = Len(cachesims), 1 \in Caches,
         \A i \in Caches : cachesims'[i].ds_nums = cachesims[i].ds_nums
  PROVE  Simulated'
<1>1. Wanted(datastructs') = Wanted(datastructs)
  BY WantedKept
<1>2. Caches' = Caches
  BY DEF Caches
<1>3. QED
  <2>1. \A i \in Caches' : i \in Caches /\ cachesims'[i].ds_nums = cachesims[i].ds_nums
    BY <1>2
  <2>2. (cachesims[1].ds_nums = {})' /\ (\A i \in Caches : cachesims[i].ds_nums \in Wanted(datastructs))'
    BY <1>1, <2>1 DEF Simulated
  <2>3. (\A s \in Wanted(datastructs) : \E i \in Caches : cachesims[i].ds_nums = s)'
    <3> SUFFICES ASSUME NEW s \in Wanted(datastructs) PROVE \E i \in Caches' : cachesims'[i].ds_nums = s
      BY <1>1
    <3>1. PICK i \in Caches : cachesims[i].ds_nums = s
      BY DEF Simulated
    <3> QED  BY <3>1, <1>2
  <2>4. (\A i, j \in Caches : cachesims[i].ds_nums = cachesims[j].ds_nums => i = j)'
    BY <2>1 DEF Simulated
  <2> QED  BY <2>2, <2>3, <2>4 DEF Simulated

LEMMA NextSimulated == IInv /\ Simulated /\ [Next]_vars => Simulated'
<1> SUFFICES ASSUME IInv, Simulated, [Next]_vars PROVE Simulated'
  OBVIOUS
<1>1. Len(datastructs) \in Nat /\ 1 \in Caches
  BY LenProperties DEF IInv, ObjectsInv, ObjectsShape, MapInv, CachesShape, Caches
<1>2. CASE UNCHANGED << datastructs, cachesims >>
  BY <1>1, <1>2, KeptSimulates
<1>3. CASE Looked
  <2>1. PICK x \in Block : Accessed(x) /\ UNCHANGED datastructs
    BY <1>3 DEF Looked
  <2>2. \A i \in Caches : cachesims'[i].ds_nums = cachesims[i].ds_nums
    BY <2>1, AccessedKeepsCaches DEF IInv
  <2>3. Len(cachesims') = Len(cachesims) /\ datastructs' = datastructs
    BY <2>1 DEF Accessed
  <2> QED  BY <2>2, <2>3, <1>1, KeptSimulates
<1>4. ASSUME NEW t \in Thread, NEW x \in Block, AccessBlock(t, x), UNCHANGED datastructs
      PROVE  Looked \/ UNCHANGED << datastructs, cachesims >>
  <2>1. CASE addr_prev[t] = x
    BY <2>1, <1>4 DEF AccessBlock
  <2>2. CASE addr_prev[t] # x
    <3>1. Accessed(x)
      BY <2>2, <1>4, AccessBlockAccesses DEF IInv
    <3> QED  BY <3>1, <1>4 DEF Looked
  <2> QED  BY <2>1, <2>2
<1>5. ASSUME NEW t \in Thread, NEW x \in Block, NEW crosses \in BOOLEAN, MemAccess(t, x, crosses)
      PROVE  Simulated'
  <2>1. AccessBlock(t, x) /\ UNCHANGED datastructs
    BY <1>5 DEF MemAccess
  <2> QED  BY <2>1, <1>2, <1>3, <1>4
<1>6. ASSUME NEW t \in Thread, SecondAccess(t)
      PROVE  Simulated'
  <2>1. second.block \in Block /\ AccessBlock(t, second.block) /\ UNCHANGED datastructs
    BY <1>6, SecondBlock DEF SecondAccess, IInv
  <2> QED  BY <2>1, <1>2, <1>3, <1>4
<1>7. ASSUME NEW t \in Thread, NEW has_file \in BOOLEAN, HandleDatastruct(t, has_file)
      PROVE  Simulated'
  <2> DEFINE ds == NewDatastruct(call[t].alloc[1], call[t].alloc[2])
  <2>1. CASE datastructs' = Append(datastructs, ds) /\ cachesims' = Registered(datastructs', cachesims)
    <3>1. call[t] # NoCall
      BY <1>7 DEF HandleDatastruct, NoCall
    <3>2. call[t].alloc[1] \in Nat /\ call[t].alloc[2] \in Nat
      BY <3>1, CallParts, AllocationParts DEF IInv, ObjectsInv
    <3>3. ds \in Object
      BY <3>2 DEF NewDatastruct, Object
    <3> HIDE DEF ds
    <3> QED  BY <3>3, <2>1, RegistrationSimulates
  <2>2. CASE UNCHANGED << datastructs, cachesims >>
    BY <2>2, <1>2
  <2> QED  BY <2>1, <2>2, <1>7 DEF HandleDatastruct
<1>8. ASSUME NEW t \in Thread, NEW a \in Allocation \cup {NullAllocation}, NewFree(t, a)
      PROVE  Simulated'
  <2>1. /\ Len(datastructs') = Len(datastructs)
        /\ \A i \in 1 .. Len(datastructs) : datastructs'[i].nbytes = datastructs[i].nbytes
    BY <1>8, NewFreeKeepsObjects DEF IInv
  <2>2. cachesims' = cachesims
    BY <1>8 DEF NewFree
  <2> QED  BY <2>1, <2>2, <1>1, KeptSimulates
<1>9. ASSUME NEW t \in Thread, NEW a \in Allocation, Malloc(t, a)
      PROVE  Simulated'
  BY <1>9, <1>2 DEF Malloc
<1>10. ASSUME NEW t \in Thread, OrgFree(t)
       PROVE  Simulated'
  BY <1>10, <1>2 DEF OrgFree
<1>11. CASE UNCHANGED vars
  BY <1>11, <1>2 DEF vars
<1>12. QED
  BY <1>5, <1>6, <1>7, <1>8, <1>9, <1>10, <1>11 DEF Next

\* However many objects the target registers, there is one cache for each of
\* them and one for every two large ones; none is missing and none is there
\* twice, and the first isolates nothing.
THEOREM SimulationHolds == Spec => []EveryObjectSimulated
<1>1. Spec => []Simulated
  BY Invariance, InitSimulated, NextSimulated, PTL DEF Spec
<1>2. QED
  BY <1>1, SimulatedIs, PTL
=============================================================================
