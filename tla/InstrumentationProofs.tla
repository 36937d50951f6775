------------------------ MODULE InstrumentationProofs ------------------------
(***************************************************************************)
(* Theorems about Instrumentation, for any output of objdump, any images,  *)
(* routines, instructions and allocations, and for runs of any length.     *)
(***************************************************************************)
EXTENDS Instrumentation, SumProofs, SequenceTheorems

\* Of the lines read so far the last header is one of this tag.
Current(tag) ==
  \E h \in 1 .. position :
    Entry(output, h, tag) /\ \A j \in h + 1 .. position : output[j].kind # "header"

IsPointer(o, i) == \E tag \in PointerTag : Entry(o, i, tag)

\* The pointer types of depth 1 in the first n lines.
TypesUpTo(o, n) == {o[i].offset : i \in {j \in 1 .. n : IsPointer(o, j) /\ o[j].depth = 1}}

\* No element of ptr_types is left unwritten.
AllScanned(o) == \A i \in Pointers(o) : o[i].depth = 1

\* What elements of ptr_types can be.
Offsets(o) == {o[i].offset : i \in {j \in 1 .. Len(o) : IsPointer(o, j)}} \cup Leftover
Known(types) == {types[i] : i \in 1 .. Len(types)}

\* read_debug: the flags tell the current entry.
Reader ==
  /\ output \in Outputs /\ position \in 0 .. Len(output)
  /\ get_function \in BOOLEAN /\ get_function <=> Current("subprogram")
  /\ get_parameter \in BOOLEAN /\ get_parameter <=> Current("formal_parameter")
  /\ ptr_types \in Seq(Offsets(output))
  /\ TypesUpTo(output, position) \subseteq Known(ptr_types)
  /\ AllScanned(output) => Known(ptr_types) \subseteq TypesUpTo(output, position)
  /\ FunctionsRead

\* Routines are looked at when all of the output has been read.
Loader ==
  /\ DOMAIN inspected # {} => position = Len(output)
  /\ \A rtn \in DOMAIN inspected : inspected[rtn] = inspect_ptr_args(rtn)
  /\ replaced = UNION {ReplacedIn(img) : img \in loaded}

\* The target's objects are where they were allocated, and apart.
Heap ==
  /\ heap \in Seq([address : Address \cup {Null}, nbytes : Size, source : BOOLEAN, live : BOOLEAN])
  /\ \A i \in DOMAIN heap : heap[i].live => heap[i].address # Null
  /\ \A i \in DOMAIN heap : heap[i].address = Null => \A a \in Address : heap[i].nbytes <= a
  /\ \A i, j \in DOMAIN heap : i # j /\ heap[i].live /\ heap[j].live =>
       \/ heap[i].address + heap[i].nbytes <= heap[j].address
       \/ heap[j].address + heap[j].nbytes <= heap[i].address

\* The registry holds those that are followed, in the order of allocation.
Registry ==
  /\ Len(datastructs) = NumberOf(Len(heap)) + 1
  /\ datastructs \in Seq([address : Nat, nbytes : Nat, is_freed : BOOLEAN])
  /\ datastructs[1].nbytes = 0
  /\ \A i \in DOMAIN heap : Followed(i) =>
       LET ds == datastructs[NumberOf(i) + 1]
       IN  /\ ds.address = heap[i].address /\ ds.nbytes = heap[i].nbytes
           /\ heap[i].address # Null => ds.is_freed <=> ~heap[i].live

FunctionArguments ==
  /\ \A entry \in g_fnargs : entry[3] \in 0 .. Len(datastructs) - 1
  /\ ArgumentsMapped

IInv == Reader /\ Loader /\ Heap /\ Registry /\ FunctionArguments

-----------------------------------------------------------------------------
(* Numbers of data objects *)

\* The elements of F up to i.
Count(F, i) == Cardinality({j \in 1 .. i : j \in F})

LEMMA CountType ==
  ASSUME NEW F, NEW i \in Nat
  PROVE  IsFiniteSet({j \in 1 .. i : j \in F}) /\ Count(F, i) \in Nat
<1>1. IsFiniteSet(1 .. i)
  BY FS_Interval
<1>2. {j \in 1 .. i : j \in F} \in SUBSET (1 .. i)
  OBVIOUS
<1> QED  BY <1>1, <1>2, FS_Subset, FS_CardinalityType DEF Count

LEMMA CountNone == ASSUME NEW F PROVE Count(F, 0) = 0
<1>1. {j \in 1 .. 0 : j \in F} = {}
  OBVIOUS
<1> QED  BY <1>1, FS_EmptySet DEF Count

LEMMA CountStep ==
  ASSUME NEW F, NEW i \in Nat
  PROVE  Count(F, i + 1) = IF i + 1 \in F THEN Count(F, i) + 1 ELSE Count(F, i)
<1> DEFINE S == {j \in 1 .. i : j \in F}
           T == {j \in 1 .. i + 1 : j \in F}
<1>1. IsFiniteSet(S) /\ i + 1 \notin S
  BY CountType
<1>2. T = IF i + 1 \in F THEN S \cup {i + 1} ELSE S
  OBVIOUS
<1>3. Cardinality(S \cup {i + 1}) = Cardinality(S) + 1
  <2> HIDE DEF S
  <2> QED  BY <1>1, FS_AddElement
<1>4. Count(F, i) = Cardinality(S) /\ Count(F, i + 1) = Cardinality(T)
  BY DEF Count
<1> HIDE DEF S, T
<1> QED  BY <1>2, <1>3, <1>4

LEMMA CountIncreases ==
  ASSUME NEW F, NEW i \in Nat, NEW j \in Nat, i < j
  PROVE  /\ Count(F, i) <= Count(F, j)
         /\ j \in F => Count(F, i) < Count(F, j)
<1> DEFINE S == {l \in 1 .. i : l \in F}
           T == {l \in 1 .. j : l \in F}
<1>1. S \in SUBSET T /\ IsFiniteSet(T) /\ (j \in F => j \in T \ S)
  BY CountType
<1>2. Count(F, i) = Cardinality(S) /\ Count(F, j) = Cardinality(T)
  BY DEF Count
<1>3. Count(F, i) \in Nat /\ Count(F, j) \in Nat
  BY CountType
<1> HIDE DEF S, T
<1>4. Cardinality(S) <= Cardinality(T) /\ (Cardinality(S) = Cardinality(T) => S = T)
  BY <1>1, FS_Subset
<1> QED  BY <1>1, <1>2, <1>3, <1>4

\* Each number up to the count is an element's.
LEMMA CountOnto ==
  ASSUME NEW F, NEW n \in Nat, NEW r \in 1 .. Count(F, n)
  PROVE  \E j \in 1 .. n : j \in F /\ Count(F, j) = r
<1> DEFINE S == {l \in 1 .. n : l \in F}
<1>1. IsFiniteSet(S) /\ Cardinality(S) \in Nat /\ Cardinality(S) = Count(F, n) /\ S \in SUBSET Nat
  BY CountType DEF Count
<1>2. r - 1 \in 0 .. Cardinality(S) - 1
  <2> HIDE DEF S
  <2> QED  BY <1>1
<1>3. PICK j \in S : Rank(S, j) = r - 1
  <2> HIDE DEF S
  <2> QED  BY <1>1, <1>2, RankOnto
<1>4. {l \in S : l < j} = {l \in 1 .. j - 1 : l \in F}
  OBVIOUS
<1>5. Rank(S, j) = Count(F, j - 1) /\ j - 1 \in Nat /\ (j - 1) + 1 = j /\ j \in F /\ j \in 1 .. n
  BY <1>4 DEF Rank, Count
<1>6. Count(F, j) = Count(F, j - 1) + 1
  BY <1>5, CountStep
<1> HIDE DEF S
<1> QED  BY <1>3, <1>5, <1>6

\* A finite set of numbers has a least element.
LEMMA LeastExists ==
  ASSUME NEW S \in SUBSET Nat, IsFiniteSet(S), S # {}
  PROVE  \E i \in S : \A j \in S : i <= j
<1> DEFINE R == {p \in Nat \X Nat : p[1] < p[2]}
<1>1. \A x, y \in S : << x, y >> \in R <=> x < y
  OBVIOUS
<1>2. \A x, y, z \in S : << x, y >> \in R /\ << y, z >> \in R => << x, z >> \in R
  BY <1>1
<1>3. \A x, y \in S : x # y => << x, y >> \in R \/ << y, x >> \in R
  BY <1>1
<1>4. PICK i \in S : \A s \in S \ {i} : << i, s >> \in R
  <2> HIDE DEF R
  <2>1. \E i \in S : \A s \in S \ {i} : << i, s >> \in R
    BY <1>2, <1>3, FirstExists, ZenonT(60)
  <2> QED  BY <2>1
<1>5. \A s \in S : i \in Nat /\ s \in Nat /\ (s = i \/ i < s)
  <2> HIDE DEF R
  <2> QED  BY <1>1, <1>4
<1> QED  BY <1>5

-----------------------------------------------------------------------------
(* The data objects *)

LEMMA HeapAt ==
  ASSUME Heap, NEW i \in 1 .. Len(heap)
  PROVE  /\ heap[i].address \in Nat /\ heap[i].nbytes \in Nat /\ heap[i].live \in BOOLEAN
         /\ heap[i].address \in Address \cup {Null} /\ heap[i].source \in BOOLEAN
<1>1. heap[i] \in [address : Address \cup {Null}, nbytes : Size, source : BOOLEAN, live : BOOLEAN]
  BY ElementOfSeq DEF Heap
<1>2. /\ heap[i].address \in Address \cup {Null} /\ heap[i].nbytes \in Size
      /\ heap[i].live \in BOOLEAN /\ heap[i].source \in BOOLEAN
  BY <1>1
<1>3. Address \cup {Null} \subseteq Nat /\ Size \subseteq Nat
  BY InstrumentationAssumption DEF Null
<1> QED  BY <1>2, <1>3

LEMMA HeapLength ==
  ASSUME Heap
  PROVE  Len(heap) \in Nat /\ DOMAIN heap = 1 .. Len(heap)
BY LenProperties DEF Heap

LEMMA RegistryAt ==
  ASSUME Registry, NEW i \in 1 .. Len(datastructs)
  PROVE  /\ datastructs[i].address \in Nat /\ datastructs[i].nbytes \in Nat
         /\ datastructs[i].is_freed \in BOOLEAN
<1>1. datastructs[i] \in [address : Nat, nbytes : Nat, is_freed : BOOLEAN]
  BY ElementOfSeq DEF Registry
<1> QED  BY <1>1

\* The allocations that are followed.
Allocations == {j \in 1 .. Len(heap) : Followed(j)}

LEMMA NumberIs ==
  ASSUME Heap
  PROVE  \A i \in 0 .. Len(heap) : NumberOf(i) = Count(Allocations, i)
<1>1. ASSUME NEW i \in 0 .. Len(heap)
      PROVE  {j \in 1 .. i : Followed(j)} = {j \in 1 .. i : j \in Allocations}
  BY HeapLength DEF Allocations
<1> QED  BY <1>1 DEF NumberOf, Count

\* Each allocation that is followed has its own number, and each number is one's.
LEMMA NumbersAre ==
  ASSUME Heap, Registry
  PROVE  /\ Len(datastructs) \in Nat /\ Len(datastructs) > 0
         /\ \A i \in 1 .. Len(heap) : Followed(i) => NumberOf(i) \in 1 .. Len(datastructs) - 1
         /\ \A i, j \in 1 .. Len(heap) :
              Followed(i) /\ Followed(j) /\ NumberOf(i) = NumberOf(j) => i = j
         /\ \A k \in 2 .. Len(datastructs) :
              \E i \in 1 .. Len(heap) : Followed(i) /\ NumberOf(i) + 1 = k
<1> DEFINE F == Allocations
           n == Len(heap)
           N(i) == NumberOf(i)
<1>1. n \in Nat /\ \A i \in 0 .. n : N(i) = Count(F, i) /\ N(i) \in Nat
  <2>1. n \in Nat /\ \A i \in 0 .. n : N(i) = Count(F, i)
    BY NumberIs, HeapLength
  <2>2. \A i \in 0 .. n : Count(F, i) \in Nat
    <3>1. \A i \in 0 .. n : i \in Nat
      BY <2>1
    <3> HIDE DEF F, n
    <3> QED  BY <3>1, CountType
  <2> HIDE DEF F, N, n
  <2> QED  BY <2>1, <2>2
<1>2. N(0) = 0
  BY <1>1, CountNone
<1>3. Len(datastructs) = N(n) + 1
  BY DEF Registry
<1>4. \A i \in 1 .. n : Followed(i) <=> i \in F
  BY DEF Allocations
<1>5. \A i, j \in 0 .. n : i < j => N(i) <= N(j) /\ (j \in F => N(i) < N(j))
  <2>1. ASSUME NEW i \in 0 .. n, NEW j \in 0 .. n, i < j
        PROVE  Count(F, i) <= Count(F, j) /\ (j \in F => Count(F, i) < Count(F, j))
    <3>1. i \in Nat /\ j \in Nat
      BY <1>1
    <3> HIDE DEF F
    <3> QED  BY <3>1, <2>1, CountIncreases
  <2> HIDE DEF F, N
  <2> QED  BY <2>1, <1>1
<1>6. \A k \in 1 .. N(n) : \E i \in 1 .. n : i \in F /\ N(i) = k
  <2> SUFFICES ASSUME NEW k \in 1 .. N(n) PROVE \E i \in 1 .. n : i \in F /\ N(i) = k
    OBVIOUS
  <2>1. k \in 1 .. Count(F, n)
    BY <1>1
  <2> HIDE DEF F, N
  <2>2. PICK i \in 1 .. n : i \in F /\ Count(F, i) = k
    BY <2>1, <1>1, CountOnto
  <2> QED  BY <2>2, <1>1
<1> HIDE DEF F, n, N
<1>7. \A i \in 1 .. n : i \in F => N(i) \in 1 .. N(n)
  BY <1>1, <1>2, <1>5
<1>8. \A i, j \in 1 .. n : i \in F /\ j \in F /\ N(i) = N(j) => i = j
  BY <1>1, <1>5
<1>9. \A k \in 2 .. N(n) + 1 : \E i \in 1 .. n : i \in F /\ N(i) + 1 = k
  <2> SUFFICES ASSUME NEW k \in 2 .. N(n) + 1 PROVE \E i \in 1 .. n : i \in F /\ N(i) + 1 = k
    OBVIOUS
  <2>1. k - 1 \in 1 .. N(n)
    BY <1>1
  <2>2. PICK i \in 1 .. n : i \in F /\ N(i) = k - 1
    BY <2>1, <1>6
  <2> QED  BY <2>2, <1>1
<1>10. N(n) + 1 \in Nat /\ N(n) + 1 > 0 /\ (N(n) + 1) - 1 = N(n)
  BY <1>1
<1> QED  BY <1>3, <1>4, <1>7, <1>8, <1>9, <1>10 DEF F, n, N

\* An entry of the registry contains an address of the target if it is that
\* of the live object there, and may contain null if its allocation failed.
LEMMA ContainsIs ==
  ASSUME Heap, Registry, NEW k \in 1 .. Len(datastructs), NEW addr \in Nat
  PROVE  Contains(datastructs[k], addr) =>
           \E i \in 1 .. Len(heap) :
             /\ Followed(i) /\ NumberOf(i) + 1 = k
             /\ heap[i].address # Null => InObject(i, addr)
<1> SUFFICES ASSUME Contains(datastructs[k], addr)
             PROVE  \E i \in 1 .. Len(heap) :
                      /\ Followed(i) /\ NumberOf(i) + 1 = k
                      /\ heap[i].address # Null => InObject(i, addr)
  OBVIOUS
<1>1. k # 1
  BY RegistryAt DEF Registry, Contains
<1>2. k \in 2 .. Len(datastructs)
  BY <1>1, NumbersAre
<1>3. PICK i \in 1 .. Len(heap) : Followed(i) /\ NumberOf(i) + 1 = k
  BY <1>2, NumbersAre
<1>4. /\ datastructs[k].address = heap[i].address /\ datastructs[k].nbytes = heap[i].nbytes
      /\ heap[i].address # Null => datastructs[k].is_freed <=> ~heap[i].live
  BY <1>3, HeapLength DEF Registry
<1>5. heap[i].address # Null => InObject(i, addr)
  BY <1>3, <1>4, HeapAt DEF Contains, InObject
<1> QED  BY <1>3, <1>5

LEMMA ObjectContains ==
  ASSUME Heap, Registry, NEW i \in 1 .. Len(heap), NEW addr \in Nat, InObject(i, addr)
  PROVE  /\ NumberOf(i) + 1 \in 1 .. Len(datastructs)
         /\ Contains(datastructs[NumberOf(i) + 1], addr)
         /\ heap[i].address # Null
<1>1. Followed(i) /\ heap[i].live
  BY DEF InObject
<1>2. NumberOf(i) \in 1 .. Len(datastructs) - 1 /\ Len(datastructs) \in Nat
  BY <1>1, NumbersAre
<1>3. heap[i].address # Null
  BY <1>1, HeapLength DEF Heap
<1>4. /\ datastructs[NumberOf(i) + 1].address = heap[i].address
      /\ datastructs[NumberOf(i) + 1].nbytes = heap[i].nbytes
      /\ datastructs[NumberOf(i) + 1].is_freed <=> ~heap[i].live
  BY <1>1, <1>3, HeapLength DEF Registry
<1>5. /\ ~datastructs[NumberOf(i) + 1].is_freed
      /\ datastructs[NumberOf(i) + 1].address <= addr
      /\ addr < datastructs[NumberOf(i) + 1].address + datastructs[NumberOf(i) + 1].nbytes
  BY <1>4 DEF InObject
<1> QED  BY <1>2, <1>3, <1>5 DEF Contains

LEMMA ReplacedIfDefined ==
  ASSUME Loader, NEW f \in Replaceable, Defined(f)
  PROVE  Replaced(f)
BY DEF Loader, Defined, Replaced, ReplacedIn

LEMMA MallocKeepsObjects ==
  ASSUME Loader, Heap, Registry, FunctionArguments,
         NEW address \in Address \cup {Null}, NEW nbytes \in Size, NEW source \in BOOLEAN,
         Malloc(address, nbytes, source)
  PROVE  Heap' /\ Registry' /\ FunctionArguments'
<1>n. PICK n \in Nat : n = Len(heap)
  BY HeapLength
<1> DEFINE object == [address |-> address, nbytes |-> nbytes, source |-> source,
                      live |-> address # Null]
           Object == [address : Address \cup {Null}, nbytes : Size, source : BOOLEAN, live : BOOLEAN]
           Entries == [address : Nat, nbytes : Nat, is_freed : BOOLEAN]
           new == source /\ nbytes > DatastructThreshold
           ds == NewDatastruct(address, nbytes)
<1>t. /\ n \in Nat /\ DOMAIN heap = 1 .. n /\ heap \in Seq(Object)
      /\ \A i \in 1 .. n : i \in 1 .. n + 1 /\ i # n + 1
      /\ address \in Nat /\ nbytes \in Nat
  BY <1>n, HeapLength, InstrumentationAssumption DEF Heap, Null
<1>1. /\ address = Null => \A a \in Address : nbytes <= a
      /\ address # Null => \A i \in DOMAIN heap : heap[i].live =>
           \/ address + nbytes <= heap[i].address
           \/ heap[i].address + heap[i].nbytes <= address
      /\ heap' = Append(heap, object)
      /\ datastructs' = IF new THEN Append(datastructs, ds) ELSE datastructs
      /\ g_fnargs' = g_fnargs /\ passed' = passed
  BY ReplacedIfDefined DEF Malloc, Replaceable
<1>2. /\ heap' \in Seq(Object) /\ Len(heap') = n + 1 /\ DOMAIN heap' = 1 .. n + 1
      /\ \A i \in 1 .. n : heap'[i] = heap[i]
      /\ heap'[n + 1] = object
  <2>1. object \in Object
    OBVIOUS
  <2> HIDE DEF object, Object
  <2>2. Append(heap, object) \in Seq(Object) /\ Len(Append(heap, object)) = n + 1
    BY <2>1, <1>t, <1>n, AppendProperties
  <2> QED  BY <2>1, <2>2, <1>t, <1>n, <1>1, AppendProperties, LenProperties
<1>3. /\ object.address = address /\ object.nbytes = nbytes /\ object.source = source
      /\ object.live <=> address # Null
  OBVIOUS
<1>4. Heap'
  <2>1. \A i \in DOMAIN heap' : heap'[i].live => heap'[i].address # Null
    <3> HIDE DEF object, Object
    <3> QED  BY <1>2, <1>3, <1>t DEF Heap
  <2>2. \A i \in DOMAIN heap' : heap'[i].address = Null => \A a \in Address : heap'[i].nbytes <= a
    <3> HIDE DEF object, Object
    <3> QED  BY <1>1, <1>2, <1>3, <1>t DEF Heap
  <2>3. \A i, j \in DOMAIN heap' : i # j /\ heap'[i].live /\ heap'[j].live =>
          \/ heap'[i].address + heap'[i].nbytes <= heap'[j].address
          \/ heap'[j].address + heap'[j].nbytes <= heap'[i].address
    <3> SUFFICES ASSUME NEW i \in 1 .. n + 1, NEW j \in 1 .. n + 1,
                        i # j, heap'[i].live, heap'[j].live
                 PROVE  \/ heap'[i].address + heap'[i].nbytes <= heap'[j].address
                        \/ heap'[j].address + heap'[j].nbytes <= heap'[i].address
      BY <1>2
    <3> HIDE DEF object, Object
    <3>1. CASE i \in 1 .. n /\ j \in 1 .. n
      BY <3>1, <1>2, <1>t DEF Heap
    <3>2. CASE i = n + 1
      <4>1. j \in 1 .. n /\ address # Null
        BY <3>2, <1>t, <1>2, <1>3
      <4> QED  BY <4>1, <3>2, <1>1, <1>2, <1>3, <1>t
    <3>3. CASE j = n + 1
      <4>1. i \in 1 .. n /\ address # Null
        BY <3>3, <1>t, <1>2, <1>3
      <4> QED  BY <4>1, <3>3, <1>1, <1>2, <1>3, <1>t
    <3> QED  BY <3>1, <3>2, <3>3, <1>t
  <2> QED  BY <2>1, <2>2, <2>3, <1>2 DEF Heap
<1>5. /\ \A i \in 1 .. n : Followed(i)' <=> Followed(i)
      /\ Followed(n + 1)' <=> new
  <2>1. heap'[n + 1].source = source /\ heap'[n + 1].nbytes = nbytes
    BY <1>2, <1>3
  <2>2. Followed(n + 1)' <=> heap'[n + 1].source /\ heap'[n + 1].nbytes > DatastructThreshold
    BY DEF Followed
  <2>3. \A i \in 1 .. n : Followed(i)' <=> Followed(i)
    <3> HIDE DEF object
    <3> QED  BY <1>2 DEF Followed
  <2>4. Followed(n + 1)' <=> new
    BY <2>1, <2>2, Zenon
  <2> QED  BY <2>3, <2>4
<1>6. /\ \A i \in 0 .. n : NumberOf(i)' = NumberOf(i) /\ NumberOf(i) \in Nat
      /\ NumberOf(n + 1)' = IF new THEN NumberOf(n) + 1 ELSE NumberOf(n)
  <2> DEFINE F == Allocations
             G == {j \in 1 .. n + 1 : Followed(j)'}
  <2>1. \A i \in 0 .. n + 1 : NumberOf(i)' = Count(G, i)
    <3>1. ASSUME NEW i \in 0 .. n + 1
          PROVE  {j \in 1 .. i : Followed(j)'} = {j \in 1 .. i : j \in G}
      BY <1>t
    <3> QED  BY <3>1 DEF NumberOf, Count
  <2>2. \A i \in 0 .. n : NumberOf(i) = Count(F, i)
    BY NumberIs, <1>n
  <2>3. \A i \in 0 .. n : Count(F, i) = Count(G, i)
    <3>1. ASSUME NEW i \in 0 .. n
          PROVE  {j \in 1 .. i : j \in F} = {j \in 1 .. i : j \in G}
      BY <1>5, <1>t, <1>n DEF Allocations
    <3> QED  BY <3>1 DEF Count
  <2>4. Count(G, n + 1) = IF n + 1 \in G THEN Count(G, n) + 1 ELSE Count(G, n)
    <3> HIDE DEF G
    <3> QED  BY <1>t, CountStep
  <2>5. n + 1 \in G <=> new
    <3>1. n + 1 \in 1 .. n + 1
      BY <1>t
    <3>2. n + 1 \in G <=> Followed(n + 1)'
      BY <3>1
    <3> QED  BY <3>2, <1>5
  <2>6. \A i \in 0 .. n : Count(F, i) \in Nat
    <3>1. \A i \in 0 .. n : i \in Nat
      BY <1>t
    <3> HIDE DEF F
    <3> QED  BY <3>1, CountType
  <2> HIDE DEF F, G, new
  <2>7. n \in 0 .. n /\ n \in 0 .. n + 1 /\ n + 1 \in 0 .. n + 1 /\ \A i \in 0 .. n : i \in 0 .. n + 1
    BY <1>t
  <2>8. \A i \in 0 .. n : NumberOf(i)' = NumberOf(i) /\ NumberOf(i) \in Nat
    BY <2>1, <2>2, <2>3, <2>6, <2>7
  <2>9. NumberOf(n + 1)' = IF new THEN NumberOf(n) + 1 ELSE NumberOf(n)
    BY <2>1, <2>2, <2>3, <2>4, <2>5, <2>7
  <2> QED  BY <2>8, <2>9
<1>7. Len(datastructs) = NumberOf(n) + 1 /\ datastructs \in Seq(Entries) /\ datastructs[1].nbytes = 0
  BY <1>n DEF Registry
<1>8. /\ datastructs' \in Seq(Entries)
      /\ Len(datastructs') = IF new THEN Len(datastructs) + 1 ELSE Len(datastructs)
      /\ \A i \in 1 .. Len(datastructs) : datastructs'[i] = datastructs[i]
      /\ new => datastructs'[Len(datastructs) + 1] = ds
  <2>1. ds \in Entries
    BY <1>t DEF NewDatastruct
  <2> HIDE DEF ds, Entries, new
  <2>2. CASE new
    BY <2>1, <2>2, <1>1, <1>7, AppendProperties
  <2>3. CASE ~new
    BY <2>3, <1>1, <1>7
  <2> QED  BY <2>2, <2>3
<1>9. Registry'
  <2>1. Len(heap') = n + 1 /\ NumberOf(Len(heap))' = NumberOf(n + 1)'
    BY <1>2
  <2>2. Len(datastructs') = NumberOf(Len(heap))' + 1
    <3> HIDE DEF new
    <3> QED  BY <2>1, <1>6, <1>7, <1>8, <1>t
  <2>3. datastructs'[1].nbytes = 0
    <3>1. 1 \in 1 .. Len(datastructs)
      BY NumbersAre
    <3>2. datastructs'[1] = datastructs[1]
      BY <3>1, <1>8
    <3> QED  BY <3>2, <1>7
  <2>4. ASSUME NEW i \in DOMAIN heap', Followed(i)'
        PROVE  /\ datastructs'[NumberOf(i)' + 1].address = heap'[i].address
               /\ datastructs'[NumberOf(i)' + 1].nbytes = heap'[i].nbytes
               /\ heap'[i].address # Null => datastructs'[NumberOf(i)' + 1].is_freed <=> ~heap'[i].live
    <3>1. CASE i \in 1 .. n
      <4>1. Followed(i) /\ heap'[i] = heap[i] /\ NumberOf(i)' = NumberOf(i)
        BY <3>1, <2>4, <1>5, <1>6, <1>2, <1>t
      <4>2. NumberOf(i) + 1 \in 1 .. Len(datastructs)
        BY <4>1, <3>1, <1>n, NumbersAre
      <4>3. datastructs'[NumberOf(i)' + 1] = datastructs[NumberOf(i) + 1]
        BY <4>1, <4>2, <1>8
      <4> QED  BY <4>1, <4>3, <3>1, <1>t DEF Registry
    <3>2. CASE i = n + 1
      <4>1. new
        BY <3>2, <2>4, <1>5
      <4>2. NumberOf(i)' + 1 = Len(datastructs) + 1
        BY <4>1, <3>2, <1>6, <1>7
      <4>3. datastructs'[NumberOf(i)' + 1] = ds
        BY <4>1, <4>2, <1>8
      <4>4. ds.address = address /\ ds.nbytes = nbytes /\ ds.is_freed = FALSE
        BY DEF NewDatastruct
      <4>5. heap'[i].address = address /\ heap'[i].nbytes = nbytes /\ (heap'[i].live <=> address # Null)
        BY <3>2, <1>2, <1>3
      <4>6. heap'[i].live \in BOOLEAN
        BY <3>2, <1>2
      <4> HIDE DEF ds, object
      <4> QED  BY <4>3, <4>4, <4>5, <4>6
    <3> QED  BY <3>1, <3>2, <1>2, <1>t
  <2> QED  BY <2>2, <2>3, <2>4, <1>8 DEF Registry
<1>10. FunctionArguments'
  <2>1. \A i \in 1 .. n : (heap'[i].address = Null <=> heap[i].address = Null)
    BY <1>2
  <2>2. \A entry \in g_fnargs : entry[3] \in 0 .. Len(datastructs) - 1
    BY DEF FunctionArguments
  <2>3. Failed = {NumberOf(i) : i \in {j \in 1 .. n : Followed(j) /\ heap[j].address = Null}}
    BY <1>t DEF Failed
  <2>4. Failed' = {NumberOf(i)' : i \in {j \in 1 .. n + 1 : Followed(j)' /\ heap'[j].address = Null}}
    BY <1>2 DEF Failed
  <2>5. \A k \in 0 .. Len(datastructs) - 1 : k \in Failed' <=> k \in Failed
    <3>1. ASSUME NEW k \in Failed
          PROVE  k \in Failed'
      <4>1. PICK i \in 1 .. n : Followed(i) /\ heap[i].address = Null /\ k = NumberOf(i)
        BY <3>1, <2>3
      <4>2. i \in 1 .. n + 1 /\ Followed(i)' /\ heap'[i].address = Null /\ k = NumberOf(i)'
        BY <4>1, <2>1, <1>5, <1>6, <1>t
      <4> QED  BY <4>2, <2>4
    <3>2. ASSUME NEW k \in 0 .. Len(datastructs) - 1, k \in Failed'
          PROVE  k \in Failed
      <4>1. PICK i \in 1 .. n + 1 : Followed(i)' /\ heap'[i].address = Null /\ k = NumberOf(i)'
        BY <3>2, <2>4
      <4>2. i \in 1 .. n
        <5>1. ASSUME i = n + 1 PROVE FALSE
          <6>1. new
            BY <4>1, <5>1, <1>5
          <6>2. k = NumberOf(n) + 1
            BY <4>1, <5>1, <6>1, <1>6
          <6> QED  BY <6>2, <3>2, <1>7, <1>6, <1>t
        <5> QED  BY <5>1, <1>t
      <4>3. Followed(i) /\ heap[i].address = Null /\ k = NumberOf(i)
        BY <4>1, <4>2, <2>1, <1>5, <1>6, <1>t
      <4> QED  BY <4>2, <4>3, <2>3
    <3> QED  BY <3>1, <3>2
  <2>6. ArgumentsMapped'
    <3>1. {entry \in g_fnargs : entry[3] \notin Failed} = {entry \in g_fnargs : entry[3] \notin Failed'}
      BY <2>2, <2>5
    <3> QED  BY <3>1, <1>1 DEF FunctionArguments, ArgumentsMapped
  <2>7. \A entry \in g_fnargs' : entry[3] \in 0 .. Len(datastructs') - 1
    <3>1. Len(datastructs) \in Nat
      BY NumbersAre
    <3>2. Len(datastructs') = Len(datastructs) \/ Len(datastructs') = Len(datastructs) + 1
      BY <1>8
    <3> QED  BY <3>1, <3>2, <2>2, <1>1
  <2> QED  BY <2>6, <2>7 DEF FunctionArguments
<1> QED  BY <1>4, <1>9, <1>10

\* datastruct_num returns the first entry that contains the address, or 0.
LEMMA DatastructNumFinds ==
  ASSUME Heap, Registry, NEW addr \in Nat
  PROVE  LET k == DatastructNum(datastructs, addr) + 1
         IN  /\ k \in 1 .. Len(datastructs)
             /\ (\E i \in 1 .. Len(datastructs) : Contains(datastructs[i], addr)) =>
                  Contains(datastructs[k], addr)
             /\ (\A i \in 1 .. Len(datastructs) : ~Contains(datastructs[i], addr)) => k = 1
<1> DEFINE found == {i \in 1 .. Len(datastructs) : Contains(datastructs[i], addr)}
           least == CHOOSE i \in found : \A j \in found : i <= j
           k == DatastructNum(datastructs, addr) + 1
<1>t. Len(datastructs) \in Nat /\ 1 \in 1 .. Len(datastructs)
  BY NumbersAre
<1>1. k = IF found = {} THEN 0 + 1 ELSE least - 1 + 1
  BY DEF DatastructNum, NoDatastruct
<1>2. found # {} => least \in found
  <2>1. IsFiniteSet(1 .. Len(datastructs))
    BY <1>t, FS_Interval
  <2>2. found \in SUBSET Nat /\ IsFiniteSet(found)
    BY <2>1, <1>t, FS_Subset
  <2> HIDE DEF found
  <2> QED  BY <2>2, LeastExists
<1>3. found # {} => k = least
  <2>1. found # {} => least \in Nat
    BY <1>2, <1>t
  <2> HIDE DEF least, found, k
  <2> QED  BY <2>1, <1>1
<1>4. CASE found = {}
  BY <1>4, <1>1, <1>t
<1>5. CASE found # {}
  <2>1. k \in found
    BY <1>5, <1>2, <1>3
  <2> QED  BY <2>1
<1> QED  BY <1>4, <1>5

LEMMA FreeKeepsObjects ==
  ASSUME Loader, Heap, Registry, FunctionArguments, NEW address \in Address \cup {Null},
         Free(address)
  PROVE  Heap' /\ Registry' /\ FunctionArguments'
<1>n. PICK n \in Nat : n = Len(heap)
  BY HeapLength
<1> DEFINE k == DatastructNum(datastructs, address) + 1
           Object == [address : Address \cup {Null}, nbytes : Size, source : BOOLEAN, live : BOOLEAN]
           Entries == [address : Nat, nbytes : Nat, is_freed : BOOLEAN]
           gone(i) == heap[i].address = address
<1>t. /\ DOMAIN heap = 1 .. n /\ heap \in Seq(Object) /\ address \in Nat
      /\ Len(datastructs) \in Nat /\ datastructs \in Seq(Entries)
      /\ DOMAIN datastructs = 1 .. Len(datastructs)
  BY <1>n, HeapLength, NumbersAre, LenProperties, InstrumentationAssumption DEF Heap, Registry, Null
<1>1. /\ address # Null => \E i \in DOMAIN heap : heap[i].live /\ heap[i].address = address
      /\ heap' = [i \in DOMAIN heap |-> IF gone(i) THEN [heap[i] EXCEPT !.live = FALSE] ELSE heap[i]]
      /\ datastructs' = [datastructs EXCEPT ![k].is_freed = TRUE]
      /\ g_fnargs' = g_fnargs /\ passed' = passed
  BY ReplacedIfDefined DEF Free, Replaceable
<1>2. k \in 1 .. Len(datastructs)
  BY <1>t, DatastructNumFinds
<1>3. /\ heap' \in Seq(Object) /\ Len(heap') = n /\ DOMAIN heap' = 1 .. n
      /\ \A i \in 1 .. n : /\ heap'[i].address = heap[i].address /\ heap'[i].nbytes = heap[i].nbytes
                           /\ heap'[i].source = heap[i].source
                           /\ heap'[i].live <=> heap[i].live /\ ~gone(i)
  <2>1. \A i \in 1 .. n : heap[i] \in Object
    BY <1>t, <1>n, ElementOfSeq
  <2>2. \A i \in 1 .. n : heap'[i] = IF gone(i) THEN [heap[i] EXCEPT !.live = FALSE] ELSE heap[i]
    BY <1>1, <1>t
  <2>3. ASSUME NEW i \in 1 .. n
        PROVE  /\ heap'[i] \in Object
               /\ heap'[i].address = heap[i].address /\ heap'[i].nbytes = heap[i].nbytes
               /\ heap'[i].source = heap[i].source
               /\ heap'[i].live <=> heap[i].live /\ ~gone(i)
    <3>1. heap[i] \in Object
      BY <2>1
    <3>2. CASE gone(i)
      <4>1. heap'[i] = [heap[i] EXCEPT !.live = FALSE]
        BY <3>2, <2>2
      <4>2. ~heap'[i].live
        BY <4>1, <3>1
      <4> QED  BY <4>1, <4>2, <3>1, <3>2
    <3>3. CASE ~gone(i)
      BY <3>1, <3>3, <2>2
    <3> QED  BY <3>2, <3>3
  <2>4. heap' \in Seq(Object) /\ Len(heap') = n /\ DOMAIN heap' = 1 .. n
    <3>1. heap' = [i \in 1 .. n |-> IF gone(i) THEN [heap[i] EXCEPT !.live = FALSE] ELSE heap[i]]
      BY <1>1, <1>t
    <3>2. heap' \in [1 .. n -> Object]
      BY <3>1, <2>2, <2>3
    <3> HIDE DEF Object
    <3> QED  BY <3>2, SeqDef, LenProperties
  <2> QED  BY <2>3, <2>4
<1>4. /\ datastructs' \in Seq(Entries) /\ Len(datastructs') = Len(datastructs)
      /\ \A i \in 1 .. Len(datastructs) :
           /\ datastructs'[i].address = datastructs[i].address
           /\ datastructs'[i].nbytes = datastructs[i].nbytes
           /\ i # k => datastructs'[i] = datastructs[i]
      /\ datastructs'[k].is_freed = TRUE
  <2>1. \A i \in 1 .. Len(datastructs) : datastructs[i] \in Entries
    BY <1>t, ElementOfSeq
  <2>2. datastructs' = [datastructs EXCEPT ![k] = [datastructs[k] EXCEPT !.is_freed = TRUE]]
    BY <1>1
  <2>3. [datastructs[k] EXCEPT !.is_freed = TRUE] \in Entries
    BY <2>1, <1>2
  <2>4. datastructs' \in Seq(Entries) /\ Len(datastructs') = Len(datastructs)
    <3> HIDE DEF Entries, k
    <3> QED  BY <2>2, <2>3, <1>2, <1>t, ExceptSeq
  <2>5. /\ datastructs'[k] = [datastructs[k] EXCEPT !.is_freed = TRUE]
        /\ \A i \in 1 .. Len(datastructs) : i # k => datastructs'[i] = datastructs[i]
    <3> HIDE DEF Entries, k
    <3> QED  BY <2>2, <1>2, <1>t
  <2>6. /\ datastructs'[k].address = datastructs[k].address
        /\ datastructs'[k].nbytes = datastructs[k].nbytes
        /\ datastructs'[k].is_freed = TRUE
    <3>1. datastructs[k] \in Entries
      BY <2>1, <1>2
    <3> HIDE DEF k
    <3> QED  BY <3>1, <2>5
  <2> HIDE DEF k, Entries
  <2> QED  BY <2>4, <2>5, <2>6
<1>5. /\ \A i \in 1 .. n : Followed(i)' <=> Followed(i)
      /\ \A i \in 0 .. n : NumberOf(i)' = NumberOf(i)
  <2>1. \A i \in 1 .. n : Followed(i)' <=> Followed(i)
    <3> HIDE DEF gone, Object
    <3> QED  BY <1>3 DEF Followed
  <2>2. ASSUME NEW i \in 0 .. n
        PROVE  {j \in 1 .. i : Followed(j)'} = {j \in 1 .. i : Followed(j)}
    BY <2>1
  <2> QED  BY <2>1, <2>2 DEF NumberOf
<1>6. Heap'
  <2> HIDE DEF Object, gone
  <2>1. \A i \in DOMAIN heap' : heap'[i].live => heap'[i].address # Null
    BY <1>3, <1>t DEF Heap
  <2>2. \A i \in DOMAIN heap' : heap'[i].address = Null => \A a \in Address : heap'[i].nbytes <= a
    BY <1>3, <1>t DEF Heap
  <2>3. \A i, j \in DOMAIN heap' : i # j /\ heap'[i].live /\ heap'[j].live =>
          \/ heap'[i].address + heap'[i].nbytes <= heap'[j].address
          \/ heap'[j].address + heap'[j].nbytes <= heap'[i].address
    BY <1>3, <1>t DEF Heap
  <2> QED  BY <2>1, <2>2, <2>3, <1>3 DEF Heap, Object
\* The entry that is marked is that of the object that is freed.
<1>7. ASSUME NEW i \in 1 .. n, Followed(i), heap[i].address # Null
      PROVE  datastructs'[NumberOf(i) + 1].is_freed <=> ~heap'[i].live
  <2> DEFINE m == NumberOf(i) + 1
  <2>1. /\ m \in 2 .. Len(datastructs)
        /\ datastructs[m].address = heap[i].address /\ datastructs[m].nbytes = heap[i].nbytes
        /\ datastructs[m].is_freed <=> ~heap[i].live
    <3>1. i \in DOMAIN heap /\ i \in 1 .. Len(heap)
      BY <1>n, <1>t
    <3>2. NumberOf(i) \in 1 .. Len(datastructs) - 1
      BY <3>1, <1>7, NumbersAre
    <3>3. m \in 2 .. Len(datastructs)
      <4>1. Len(datastructs) \in Nat
        BY <1>t
      <4> QED  BY <3>2, <4>1
    <3> QED  BY <3>1, <3>3, <1>7 DEF Registry
  <2>2. /\ heap[i].address \in Nat /\ heap[i].nbytes \in Nat /\ heap[i].live \in BOOLEAN
        /\ heap[i].nbytes > 0 /\ heap[i].address > 0
    BY <1>7, <1>n, HeapAt, ThresholdAssumption DEF Followed, Null
  <2>3. \A a \in Nat : Contains(datastructs[m], a) <=> InObject(i, a)
    BY <1>7, <2>1, <2>2 DEF Contains, InObject
  <2>4. heap[i].live => (gone(i) <=> m = k)
    <3> SUFFICES ASSUME heap[i].live PROVE gone(i) <=> m = k
      OBVIOUS
    <3>1. ASSUME gone(i) PROVE m = k
      <4>1. InObject(i, address)
        BY <3>1, <1>7, <2>2 DEF InObject
      <4>2. Contains(datastructs[k], address)
        <5>1. m \in 1 .. Len(datastructs) /\ Contains(datastructs[m], address)
          BY <4>1, <2>1, <2>3, <1>t
        <5> HIDE DEF m
        <5>2. \E l \in 1 .. Len(datastructs) : Contains(datastructs[l], address)
          BY <5>1
        <5>3. address \in Nat
          BY <1>t
        <5> QED  BY <5>2, <5>3, DatastructNumFinds
      <4>3. PICK j \in 1 .. Len(heap) :
              /\ Followed(j) /\ NumberOf(j) + 1 = k
              /\ heap[j].address # Null => InObject(j, address)
        BY <4>2, <1>2, <1>t, ContainsIs
      <4>4. address \in Address
        BY <3>1, <1>7
      <4>5. heap[j].address # Null
        <5> SUFFICES ASSUME heap[j].address = Null PROVE FALSE
          OBVIOUS
        <5>1. heap[j].nbytes <= address
          BY <4>4, <1>n, <1>t DEF Heap
        <5>2. datastructs[k].address = 0 /\ datastructs[k].nbytes = heap[j].nbytes
          <6> HIDE DEF k
          <6>1. /\ datastructs[NumberOf(j) + 1].address = heap[j].address
                /\ datastructs[NumberOf(j) + 1].nbytes = heap[j].nbytes
            BY <4>3, <1>n, <1>t DEF Registry
          <6> QED  BY <6>1, <4>3 DEF Null
        <5>3. heap[j].nbytes \in Nat
          BY HeapAt
        <5> HIDE DEF k
        <5> QED  BY <4>2, <5>1, <5>2, <5>3, <1>t DEF Contains
      <4>6. j = i
        <5>1. InObject(j, address) /\ heap[j].address \in Nat /\ heap[j].nbytes \in Nat
          <6>1. heap[j].address \in Nat /\ heap[j].nbytes \in Nat
            BY HeapAt
          <6> QED  BY <6>1, <4>3, <4>5
        <5>2. i # j => \/ heap[i].address + heap[i].nbytes <= heap[j].address
                       \/ heap[j].address + heap[j].nbytes <= heap[i].address
          BY <5>1, <4>1, <1>n, <1>t DEF Heap, InObject
        <5> QED  BY <5>1, <5>2, <4>1, <2>2, <1>t DEF InObject
      <4> QED  BY <4>3, <4>6
    <3>2. ASSUME m = k PROVE gone(i)
      <4>1. Contains(datastructs[m], address)
        <5>1. \E l \in 1 .. Len(datastructs) : Contains(datastructs[l], address)
          <6>1. k # 1
            BY <3>2, <2>1
          <6> HIDE DEF k
          <6> QED  BY <6>1, <1>t, DatastructNumFinds DEF k
        <5> QED  BY <5>1, <3>2, <1>t, DatastructNumFinds
      <4>2. InObject(i, address)
        BY <4>1, <2>3, <1>t
      <4>3. address # Null
        BY <4>2, <2>2 DEF InObject, Null
      <4>4. PICK h \in 1 .. n : heap[h].live /\ heap[h].address = address
        BY <4>3, <1>1, <1>t
      <4>5. heap[h].nbytes \in Nat
        BY <1>n, HeapAt
      <4>6. h # i => \/ heap[h].address + heap[h].nbytes <= heap[i].address
                     \/ heap[i].address + heap[i].nbytes <= heap[h].address
        BY <4>4, <4>2, <1>n, <1>t DEF Heap, InObject
      <4>7. heap[i].address = address
        BY <4>2, <4>4, <4>5, <4>6, <2>2, <1>t DEF InObject
      <4> QED  BY <4>7
    <3> QED  BY <3>1, <3>2
  <2>5. heap'[i].live <=> heap[i].live /\ ~gone(i)
    BY <1>3
  <2>6. datastructs'[m].is_freed <=> m = k \/ datastructs[m].is_freed
    <3>1. m \in 1 .. Len(datastructs)
      BY <2>1, <1>t
    <3> HIDE DEF m, k
    <3>2. CASE m = k
      BY <3>2, <1>4
    <3>3. CASE m # k
      BY <3>1, <3>3, <1>4
    <3> QED  BY <3>2, <3>3
  <2> HIDE DEF m, k, gone
  <2>7. datastructs'[m].is_freed <=> ~heap'[i].live
    BY <2>1, <2>4, <2>5, <2>6, Zenon
  <2> QED  BY <2>7 DEF m
<1>8. Registry'
  <2>1. Len(datastructs') = NumberOf(Len(heap))' + 1
    <3>1. NumberOf(Len(heap))' = NumberOf(n)' /\ n \in 0 .. n
      BY <1>3
    <3>2. Len(datastructs) = NumberOf(n) + 1
      BY <1>n DEF Registry
    <3> QED  BY <3>1, <3>2, <1>4, <1>5
  <2>2. datastructs'[1].nbytes = 0
    <3>1. 1 \in 1 .. Len(datastructs)
      BY NumbersAre
    <3> QED  BY <3>1, <1>4 DEF Registry
  <2>3. ASSUME NEW i \in DOMAIN heap', Followed(i)'
        PROVE  /\ datastructs'[NumberOf(i)' + 1].address = heap'[i].address
               /\ datastructs'[NumberOf(i)' + 1].nbytes = heap'[i].nbytes
               /\ heap'[i].address # Null => datastructs'[NumberOf(i)' + 1].is_freed <=> ~heap'[i].live
    <3>1. i \in 1 .. n /\ i \in 0 .. n /\ Followed(i) /\ NumberOf(i)' = NumberOf(i)
      BY <2>3, <1>3, <1>5
    <3>2. NumberOf(i) + 1 \in 1 .. Len(datastructs)
      BY <3>1, <1>n, NumbersAre
    <3>3. /\ datastructs[NumberOf(i) + 1].address = heap[i].address
          /\ datastructs[NumberOf(i) + 1].nbytes = heap[i].nbytes
      BY <3>1, <1>t DEF Registry
    <3>4. heap'[i].address = heap[i].address /\ heap'[i].nbytes = heap[i].nbytes
      BY <3>1, <1>3
    <3>5. heap[i].address # Null => datastructs'[NumberOf(i) + 1].is_freed <=> ~heap'[i].live
      BY <3>1, <1>7
    <3>6. /\ datastructs'[NumberOf(i) + 1].address = datastructs[NumberOf(i) + 1].address
          /\ datastructs'[NumberOf(i) + 1].nbytes = datastructs[NumberOf(i) + 1].nbytes
      BY <3>2, <1>4
    <3> QED  BY <3>1, <3>3, <3>4, <3>5, <3>6
  <2> QED  BY <2>1, <2>2, <2>3, <1>4 DEF Registry
<1>9. FunctionArguments'
  <2>1. Failed' = Failed
    <3>1. {j \in DOMAIN heap' : Followed(j)' /\ heap'[j].address = Null}
            = {j \in DOMAIN heap : Followed(j) /\ heap[j].address = Null}
      BY <1>3, <1>5, <1>t
    <3>2. \A j \in DOMAIN heap : NumberOf(j)' = NumberOf(j)
      BY <1>5, <1>t
    <3> QED  BY <3>1, <3>2 DEF Failed
  <2> QED  BY <2>1, <1>1, <1>4 DEF FunctionArguments, ArgumentsMapped
<1> QED  BY <1>6, <1>8, <1>9

\* Inspector finds what the argument points into, and failed allocations.
LEMMA EnterRoutineKeepsArguments ==
  ASSUME Heap, Registry, FunctionArguments, NEW rtn \in DOMAIN inspected,
         NEW args \in [Arguments(rtn) -> Pointer], EnterRoutine(rtn, args)
  PROVE  FunctionArguments'
<1> DEFINE A == UNION {Inspector(c, args[c.arg]) : c \in inspected[rtn]}
           P == UNION {{<< c.fn, c.var, NumberOf(i) >> : i \in {j \in DOMAIN heap : InObject(j, args[c.arg])}} :
                         c \in inspected[rtn]}
<1>t. /\ Len(datastructs) \in Nat /\ DOMAIN datastructs = 1 .. Len(datastructs)
      /\ DOMAIN heap = 1 .. Len(heap)
      /\ \A c \in inspected[rtn] : args[c.arg] \in Nat
  <2>1. \A c \in inspected[rtn] : args[c.arg] \in Pointer
    BY DEF Arguments
  <2> QED  BY <2>1, HeapLength, NumbersAre, LenProperties, InstrumentationAssumption DEF Registry
<1>1. /\ g_fnargs' = g_fnargs \cup A /\ passed' = passed \cup P
      /\ heap' = heap /\ datastructs' = datastructs
  BY DEF EnterRoutine
<1>2. ASSUME NEW entry \in A
      PROVE  \E c \in inspected[rtn] : \E k \in 1 .. Len(datastructs) :
               entry = << c.fn, c.var, k - 1 >> /\ Contains(datastructs[k], args[c.arg])
  BY <1>t DEF Inspector
<1>3. ASSUME NEW entry \in A
      PROVE  entry[3] \in 0 .. Len(datastructs) - 1
  BY <1>2, <1>t
<1>4. ASSUME NEW entry \in A, entry[3] \notin Failed
      PROVE  entry \in P
  <2>1. PICK c \in inspected[rtn], k \in 1 .. Len(datastructs) :
          entry = << c.fn, c.var, k - 1 >> /\ Contains(datastructs[k], args[c.arg])
    BY <1>2
  <2>2. PICK i \in 1 .. Len(heap) :
          /\ Followed(i) /\ NumberOf(i) + 1 = k
          /\ heap[i].address # Null => InObject(i, args[c.arg])
    BY <2>1, <1>t, ContainsIs
  <2>3. NumberOf(i) \in Nat
    BY <2>2, NumbersAre
  <2>4. entry = << c.fn, c.var, NumberOf(i) >>
    BY <2>1, <2>2, <2>3
  <2>5. heap[i].address # Null
    BY <2>2, <2>4, <1>4, <1>t DEF Failed
  <2>6. InObject(i, args[c.arg]) /\ i \in DOMAIN heap
    BY <2>2, <2>5, <1>t
  <2> QED  BY <2>4, <2>6
<1>5. ASSUME NEW entry \in P
      PROVE  entry \in A /\ entry[3] \notin Failed
  <2>1. PICK c \in inspected[rtn], i \in 1 .. Len(heap) :
          entry = << c.fn, c.var, NumberOf(i) >> /\ InObject(i, args[c.arg])
    BY <1>t
  <2>2. /\ NumberOf(i) + 1 \in 1 .. Len(datastructs) /\ heap[i].address # Null /\ Followed(i)
        /\ Contains(datastructs[NumberOf(i) + 1], args[c.arg])
    BY <2>1, <1>t, ObjectContains DEF InObject
  <2>3. NumberOf(i) \in Nat
    BY <2>2, NumbersAre
  <2>4. << c.fn, c.var, (NumberOf(i) + 1) - 1 >> \in Inspector(c, args[c.arg])
    BY <2>2, <1>t DEF Inspector
  <2>5. (NumberOf(i) + 1) - 1 = NumberOf(i)
    BY <2>3
  <2>6. entry \in A
    BY <2>1, <2>4, <2>5
  <2>7. ASSUME NumberOf(i) \in Failed PROVE FALSE
    <3>1. PICK j \in 1 .. Len(heap) : Followed(j) /\ heap[j].address = Null /\ NumberOf(i) = NumberOf(j)
      BY <2>7, <1>t DEF Failed
    <3>2. i = j
      BY <3>1, <2>2, NumbersAre
    <3> QED  BY <3>1, <3>2, <2>2
  <2> QED  BY <2>1, <2>6, <2>7
<1>6. Failed' = Failed
  BY <1>1 DEF Failed, NumberOf, Followed
<1>7. \A entry \in g_fnargs : entry[3] \in 0 .. Len(datastructs) - 1
  BY DEF FunctionArguments
<1>8. {entry \in g_fnargs : entry[3] \notin Failed} = passed
  BY DEF FunctionArguments, ArgumentsMapped
<1> HIDE DEF A, P
<1>9. {entry \in g_fnargs \cup A : entry[3] \notin Failed} = passed \cup P
  BY <1>4, <1>5, <1>8
<1> QED  BY <1>1, <1>3, <1>6, <1>7, <1>9 DEF FunctionArguments, ArgumentsMapped

-----------------------------------------------------------------------------
(* Elements of a set of numbers by their place *)

LEMMA NthIs ==
  ASSUME NEW S \in SUBSET Nat, IsFiniteSet(S), NEW k \in 1 .. Cardinality(S)
  PROVE  /\ Nth(S, k) \in S /\ Rank(S, Nth(S, k)) = k - 1
         /\ \A i \in S : Rank(S, i) = k - 1 => i = Nth(S, k)
<1>1. k - 1 \in 0 .. Cardinality(S) - 1
  BY FS_CardinalityType
<1>2. \E i \in S : Rank(S, i) = k - 1
  BY <1>1, RankOnto
<1>3. Nth(S, k) = CHOOSE i \in S : Rank(S, i) = k - 1
  BY DEF Nth, Rank
<1>4. Nth(S, k) \in S /\ Rank(S, Nth(S, k)) = k - 1
  BY <1>2, <1>3
<1>5. ASSUME NEW i \in S, Rank(S, i) = k - 1
      PROVE  i = Nth(S, k)
  <2> DEFINE n == Nth(S, k)
  <2>1. n \in S /\ Rank(S, i) = Rank(S, n)
    BY <1>4, <1>5
  <2> HIDE DEF n
  <2>2. i = n
    BY <2>1, RankUnique
  <2> QED  BY <2>2 DEF n
<1> QED  BY <1>4, <1>5

\* A greater element comes last and leaves the others in their places.
LEMMA NthExtends ==
  ASSUME NEW S \in SUBSET Nat, IsFiniteSet(S), NEW m \in Nat, \A i \in S : i < m
  PROVE  /\ Cardinality(S \cup {m}) = Cardinality(S) + 1
         /\ \A k \in 1 .. Cardinality(S) : Nth(S \cup {m}, k) = Nth(S, k)
         /\ Nth(S \cup {m}, Cardinality(S) + 1) = m
<1> DEFINE T == S \cup {m}
           c == Cardinality(S)
<1>1. m \notin S /\ c \in Nat
  BY FS_CardinalityType
<1>2. T \in SUBSET Nat /\ IsFiniteSet(T) /\ Cardinality(T) = c + 1
  BY <1>1, FS_AddElement
<1>3. \A i \in S : Rank(T, i) = Rank(S, i)
  <2>1. ASSUME NEW i \in S
        PROVE  {l \in T : l < i} = {l \in S : l < i}
    <3>1. i \in Nat /\ i < m
      OBVIOUS
    <3> QED  BY <3>1
  <2> QED  BY <2>1 DEF Rank
<1>4. Rank(T, m) = c
  <2>1. {l \in T : l < m} = S
    <3>1. ~(m < m) /\ \A i \in S : i < m
      OBVIOUS
    <3> QED  BY <3>1
  <2> QED  BY <2>1 DEF Rank
<1>5. \A k \in 1 .. c : Nth(T, k) = Nth(S, k)
  <2> SUFFICES ASSUME NEW k \in 1 .. c PROVE Nth(T, k) = Nth(S, k)
    OBVIOUS
  <2>1. Nth(S, k) \in S /\ Rank(S, Nth(S, k)) = k - 1
    BY NthIs
  <2>2. k \in 1 .. Cardinality(T)
    BY <1>1, <1>2
  <2>3. Nth(S, k) \in T /\ Rank(T, Nth(S, k)) = k - 1
    BY <2>1, <1>3
  <2> HIDE DEF T
  <2>4. \A i \in T : Rank(T, i) = k - 1 => i = Nth(T, k)
    BY <2>2, <1>2, NthIs
  <2> QED  BY <2>3, <2>4
<1>6. Nth(T, c + 1) = m
  <2>1. c + 1 \in 1 .. Cardinality(T) /\ m \in T /\ Rank(T, m) = (c + 1) - 1
    BY <1>1, <1>2, <1>4
  <2> HIDE DEF T, c
  <2> QED  BY <2>1, <1>2, NthIs
<1> QED  BY <1>2, <1>5, <1>6

\* The greatest element is the last, and the others are less.
LEMMA NthLast ==
  ASSUME NEW S \in SUBSET Nat, IsFiniteSet(S), S # {}
  PROVE  /\ Cardinality(S) \in Nat /\ Cardinality(S) > 0
         /\ \A i \in S : i <= Nth(S, Cardinality(S))
         /\ \A k \in 1 .. Cardinality(S) : k # Cardinality(S) => Nth(S, k) < Nth(S, Cardinality(S))
<1> DEFINE c == Cardinality(S)
           m == Nth(S, c)
<1>1. c \in Nat /\ c > 0 /\ c \in 1 .. c
  BY FS_CardinalityType, FS_EmptySet
<1>2. m \in S /\ Rank(S, m) = c - 1
  BY <1>1, NthIs
<1>3. ASSUME NEW i \in S PROVE i <= m
  <2>1. Rank(S, i) \in 0 .. c - 1
    BY RankType
  <2>2. m < i => Rank(S, m) < Rank(S, i)
    BY <1>2, RankIncreases
  <2> HIDE DEF c, m
  <2>3. ~(m < i)
    BY <2>1, <2>2, <1>1, <1>2
  <2> QED  BY <2>3, <1>2
<1>4. ASSUME NEW k \in 1 .. c, k # c PROVE Nth(S, k) < m
  <2>1. Nth(S, k) \in S /\ Rank(S, Nth(S, k)) = k - 1
    BY NthIs
  <2>2. Nth(S, k) # m
    <3> HIDE DEF m, c
    <3> QED  BY <2>1, <1>2, <1>1, <1>4
  <2>3. Nth(S, k) \in Nat /\ m \in Nat /\ Nth(S, k) <= m
    <3> HIDE DEF m, c
    <3> QED  BY <2>1, <1>2, <1>3
  <2> HIDE DEF m, c
  <2> QED  BY <2>2, <2>3
<1> QED  BY <1>1, <1>3, <1>4

-----------------------------------------------------------------------------
(* What one more line adds to what the lines describe *)

LEMMA SubprogramsType ==
  ASSUME NEW o, NEW n \in Nat
  PROVE  Subprograms(o, n) \in SUBSET (1 .. n) /\ Subprograms(o, n) \in SUBSET Nat
         /\ IsFiniteSet(Subprograms(o, n))
<1>1. Subprograms(o, n) \in SUBSET (1 .. n) /\ IsFiniteSet(1 .. n)
  BY FS_Interval DEF Subprograms
<1> QED  BY <1>1, FS_Subset

LEMMA ParametersAfterType ==
  ASSUME NEW o, NEW n \in Nat, NEW h \in Nat
  PROVE  ParametersAfter(o, h, n) \in SUBSET (h + 1 .. n) /\ ParametersAfter(o, h, n) \in SUBSET Nat
         /\ IsFiniteSet(ParametersAfter(o, h, n))
<1>1. ParametersAfter(o, h, n) \in SUBSET (h + 1 .. n) /\ IsFiniteSet(h + 1 .. n)
  BY FS_Interval DEF ParametersAfter
<1> QED  BY <1>1, FS_Subset

LEMMA SubprogramsStep ==
  ASSUME NEW o, NEW n \in Nat
  PROVE  Subprograms(o, n + 1) =
           IF Entry(o, n + 1, "subprogram") THEN Subprograms(o, n) \cup {n + 1} ELSE Subprograms(o, n)
BY DEF Subprograms

LEMMA ParametersAfterStep ==
  ASSUME NEW o, NEW n \in Nat, NEW h \in 1 .. n
  PROVE  LET more == /\ Entry(o, n + 1, "formal_parameter")
                     /\ \A j \in h + 1 .. n + 1 : ~Entry(o, j, "subprogram")
         IN  /\ more => ParametersAfter(o, h, n + 1) = ParametersAfter(o, h, n) \cup {n + 1}
             /\ ~more => ParametersAfter(o, h, n + 1) = ParametersAfter(o, h, n)
<1>1. \A i \in h + 1 .. n + 1 : i \in h + 1 .. n \/ i = n + 1
  OBVIOUS
<1>2. n + 1 \in h + 1 .. n + 1 /\ \A i \in h + 1 .. n : i \in h + 1 .. n + 1 /\ i # n + 1
  OBVIOUS
<1> QED  BY <1>1, <1>2 DEF ParametersAfter

LEMMA AttributeStep ==
  ASSUME NEW o, NEW n \in Nat, NEW h \in 1 .. n, NEW kind \in {"name", "type"},
         o[n + 1].kind \in {"header", "name", "type"}
  PROVE  /\ o[n + 1].kind # kind => Attribute(o, h, kind, n + 1) = Attribute(o, h, kind, n)
         /\ o[n + 1].kind = kind =>
              Attribute(o, h, kind, n + 1) =
                IF \A j \in h + 1 .. n : o[j].kind # "header"
                THEN Token(o[n + 1]) ELSE Attribute(o, h, kind, n)
         /\ Attribute(o, n + 1, kind, n + 1) = Uninit
<1> DEFINE found(m) == {i \in h + 1 .. m :
                          o[i].kind = kind /\ \A j \in h + 1 .. i : o[j].kind # "header"}
           last(m) == CHOOSE i \in found(m) : \A j \in found(m) : j <= i
<1>1. \A i \in h + 1 .. n + 1 : i \in h + 1 .. n \/ i = n + 1
  OBVIOUS
<1>2. n + 1 \in h + 1 .. n + 1 /\ \A i \in h + 1 .. n : i \in h + 1 .. n + 1 /\ i # n + 1
  OBVIOUS
<1>3. \A m : Attribute(o, h, kind, m) = IF found(m) = {} THEN Uninit ELSE Token(o[last(m)])
  BY DEF Attribute
<1>4. found(n + 1) = found(n) \/ n + 1 \in found(n + 1)
  BY <1>1, <1>2
<1>5. n + 1 \in found(n + 1) <=>
        o[n + 1].kind = kind /\ \A j \in h + 1 .. n : o[j].kind # "header"
  BY <1>1, <1>2
<1>6. ASSUME n + 1 \in found(n + 1)
      PROVE  Attribute(o, h, kind, n + 1) = Token(o[n + 1])
  <2>1. \A j \in found(n + 1) : j \in Nat /\ j <= n + 1
    OBVIOUS
  <2>2. last(n + 1) = n + 1
    <3> HIDE DEF found
    <3>1. \A i \in found(n + 1) : (\A j \in found(n + 1) : j <= i) => i = n + 1
      BY <2>1, <1>6
    <3> QED  BY <3>1, <2>1, <1>6
  <2> HIDE DEF found, last
  <2> QED  BY <2>2, <1>3, <1>6
<1>7. ASSUME found(n + 1) = found(n)
      PROVE  Attribute(o, h, kind, n + 1) = Attribute(o, h, kind, n)
  <2>1. last(n + 1) = last(n)
    <3> HIDE DEF found
    <3> QED  BY <1>7
  <2> HIDE DEF found, last
  <2> QED  BY <2>1, <1>3, <1>7
<1>8. Attribute(o, n + 1, kind, n + 1) = Uninit
  BY DEF Attribute
<1> HIDE DEF found
<1> QED  BY <1>4, <1>5, <1>6, <1>7, <1>8

LEMMA AppendIs ==
  ASSUME NEW S, NEW c \in Nat, NEW s \in [1 .. c -> S], NEW t \in [1 .. c + 1 -> S],
         \A p \in 1 .. c : t[p] = s[p]
  PROVE  t = Append(s, t[c + 1]) /\ Len(s) = c
<1> DEFINE u == Append(s, t[c + 1])
<1>1. s \in Seq(S) /\ Len(s) = c
  BY SeqDef, LenProperties
<1>2. t[c + 1] \in S
  OBVIOUS
<1>3. u \in Seq(S) /\ Len(u) = c + 1 /\ u[c + 1] = t[c + 1] /\ \A p \in 1 .. c : u[p] = s[p]
  BY <1>1, <1>2, AppendProperties
<1>4. u \in [1 .. c + 1 -> S]
  <2> HIDE DEF u
  <2> QED  BY <1>3, LenProperties
<1>5. \A p \in 1 .. c + 1 : u[p] = t[p]
  <2>1. \A p \in 1 .. c + 1 : p \in 1 .. c \/ p = c + 1
    OBVIOUS
  <2> HIDE DEF u
  <2> QED  BY <2>1, <1>3
<1>6. u = t
  <2> HIDE DEF u
  <2> QED  BY <1>4, <1>5
<1> QED  BY <1>1, <1>6

\* No header follows the line h.
Latest(o, n, h) == \A j \in h + 1 .. n : o[j].kind # "header"

LEMMA ParameterStep ==
  ASSUME NEW o, NEW n \in Nat, NEW h \in 1 .. n, o[n + 1].kind \in {"header", "name", "type"}
  PROVE  /\ o[n + 1].kind = "header" \/ ~Latest(o, n, h) =>
              ParameterAt(o, h, n + 1) = ParameterAt(o, h, n)
         /\ o[n + 1].kind # "header" /\ Latest(o, n, h) =>
              ParameterAt(o, h, n + 1) = [ParameterAt(o, h, n) EXCEPT ![o[n + 1].kind] = Token(o[n + 1])]
         /\ ParameterAt(o, n + 1, n + 1) = NewParameter
<1> DEFINE L == o[n + 1]
           N(m) == Attribute(o, h, "name", m)
           T(m) == Attribute(o, h, "type", m)
<1>1. /\ L.kind # "name" => N(n + 1) = N(n)
      /\ L.kind # "type" => T(n + 1) = T(n)
      /\ L.kind = "name" => N(n + 1) = IF Latest(o, n, h) THEN Token(L) ELSE N(n)
      /\ L.kind = "type" => T(n + 1) = IF Latest(o, n, h) THEN Token(L) ELSE T(n)
  BY AttributeStep DEF Latest
<1>2. ParameterAt(o, n + 1, n + 1) = NewParameter
  BY AttributeStep DEF ParameterAt, NewParameter
<1>3. ParameterAt(o, h, n) = [name |-> N(n), type |-> T(n)]
      /\ ParameterAt(o, h, n + 1) = [name |-> N(n + 1), type |-> T(n + 1)]
  BY DEF ParameterAt
<1> HIDE DEF N, T
<1>4. CASE L.kind = "header" \/ ~Latest(o, n, h)
  BY <1>1, <1>2, <1>3, <1>4
<1>5. CASE L.kind = "name" /\ Latest(o, n, h)
  BY <1>1, <1>2, <1>3, <1>5
<1>6. CASE L.kind = "type" /\ Latest(o, n, h)
  BY <1>1, <1>2, <1>3, <1>6
<1> QED  BY <1>4, <1>5, <1>6

LEMMA FunctionBegins ==
  ASSUME NEW o, NEW n \in Nat
  PROVE  FunctionAt(o, n, n) = NewFunction
<1>1. ParametersAfter(o, n, n) = {}
  BY DEF ParametersAfter
<1>2. Attribute(o, n, "name", n) = Uninit /\ Attribute(o, n, "type", n) = Uninit
  BY DEF Attribute
<1>3. [p \in 1 .. 0 |-> ParameterAt(o, Nth({}, p), n)] = << >>
  OBVIOUS
<1>4. FunctionAt(o, n, n) =
        [name |-> Uninit, type |-> Uninit,
         parameters |-> [p \in 1 .. 0 |-> ParameterAt(o, Nth({}, p), n)]]
  BY <1>1, <1>2, FS_EmptySet DEF FunctionAt
<1> QED  BY <1>3, <1>4 DEF NewFunction

\* What a header adds to a function described before it.
LEMMA FunctionHeader ==
  ASSUME NEW o, NEW n \in Nat, NEW h \in 1 .. n, o[n + 1].kind = "header"
  PROVE  LET more == /\ Entry(o, n + 1, "formal_parameter")
                     /\ \A j \in h + 1 .. n + 1 : ~Entry(o, j, "subprogram")
         IN  /\ ~more => FunctionAt(o, h, n + 1) = FunctionAt(o, h, n)
             /\ more => FunctionAt(o, h, n + 1) =
                          [FunctionAt(o, h, n) EXCEPT !.parameters = Append(@, NewParameter)]
<1> DEFINE more == /\ Entry(o, n + 1, "formal_parameter")
                   /\ \A j \in h + 1 .. n + 1 : ~Entry(o, j, "subprogram")
           P == ParametersAfter(o, h, n)
           Q == ParametersAfter(o, h, n + 1)
           s == [p \in 1 .. Cardinality(P) |-> ParameterAt(o, Nth(P, p), n)]
           t == [p \in 1 .. Cardinality(Q) |-> ParameterAt(o, Nth(Q, p), n + 1)]
           N(m) == Attribute(o, h, "name", m)
           T(m) == Attribute(o, h, "type", m)
<1>1. /\ P \in SUBSET (h + 1 .. n) /\ P \in SUBSET Nat /\ IsFiniteSet(P)
      /\ Cardinality(P) \in Nat
  BY ParametersAfterType, FS_CardinalityType
<1>2. Q = IF more THEN P \cup {n + 1} ELSE P
  BY ParametersAfterStep
<1>3. N(n + 1) = N(n) /\ T(n + 1) = T(n)
  BY AttributeStep
<1>4. \A i \in 1 .. n : ParameterAt(o, i, n + 1) = ParameterAt(o, i, n)
  BY ParameterStep
<1>5. \A p \in 1 .. Cardinality(P) : Nth(P, p) \in 1 .. n
  <2>1. \A i \in P : i \in 1 .. n
    BY <1>1
  <2> HIDE DEF P
  <2> QED  BY <2>1, <1>1, NthIs
<1>6. /\ FunctionAt(o, h, n) = [name |-> N(n), type |-> T(n), parameters |-> s]
      /\ FunctionAt(o, h, n + 1) = [name |-> N(n + 1), type |-> T(n + 1), parameters |-> t]
  BY DEF FunctionAt
<1>7. ASSUME ~more PROVE t = s
  <2>1. Q = P
    BY <1>2, <1>7
  <2> HIDE DEF P, Q
  <2> QED  BY <2>1, <1>4, <1>5
<1>8. ASSUME more PROVE t = Append(s, NewParameter)
  <2> DEFINE c == Cardinality(P)
  <2>1. Q = P \cup {n + 1} /\ \A i \in P : i < n + 1
    BY <1>1, <1>2, <1>8
  <2>2. /\ Cardinality(Q) = c + 1 /\ Nth(Q, c + 1) = n + 1
        /\ \A p \in 1 .. c : Nth(Q, p) = Nth(P, p)
    <3> HIDE DEF P, Q
    <3> QED  BY <2>1, <1>1, NthExtends
  <2>3. t[c + 1] = NewParameter
    <3>1. c + 1 \in 1 .. Cardinality(Q)
      BY <2>2, <1>1
    <3>2. ParameterAt(o, n + 1, n + 1) = NewParameter
      BY ParameterStep
    <3> HIDE DEF P, Q, c
    <3> QED  BY <3>1, <3>2, <2>2
  <2>4. \A p \in 1 .. c : t[p] = s[p]
    <3>1. \A p \in 1 .. c : p \in 1 .. Cardinality(Q)
      BY <2>2, <1>1
    <3> HIDE DEF P, Q
    <3> QED  BY <3>1, <2>2, <1>4, <1>5
  <2> DEFINE S == {t[p] : p \in 1 .. c + 1}
  <2>5. t \in [1 .. c + 1 -> S]
    <3>1. t = [p \in 1 .. c + 1 |-> ParameterAt(o, Nth(Q, p), n + 1)]
      BY <2>2
    <3> HIDE DEF P, Q, c
    <3> QED  BY <3>1
  <2>6. c \in Nat
    BY <1>1
  <2>7. s \in [1 .. c -> S]
    <3>1. s = [p \in 1 .. c |-> s[p]]
      OBVIOUS
    <3>2. \A p \in 1 .. c : p \in 1 .. c + 1
      BY <2>6
    <3>3. \A p \in 1 .. c : s[p] \in S
      <4> HIDE DEF s, t, c
      <4> QED  BY <3>2, <2>4
    <3> HIDE DEF s, S, c
    <3> QED  BY <3>1, <3>3
  <2> HIDE DEF s, t, c, S
  <2>8. t = Append(s, t[c + 1])
    BY <2>4, <2>5, <2>6, <2>7, AppendIs
  <2> QED  BY <2>3, <2>8
<1>10. ~more => FunctionAt(o, h, n + 1) = FunctionAt(o, h, n)
  <2> HIDE DEF more, s, t, N, T
  <2> QED  BY <1>3, <1>6, <1>7
<1>11. more => FunctionAt(o, h, n + 1) =
                 [FunctionAt(o, h, n) EXCEPT !.parameters = Append(@, NewParameter)]
  <2> HIDE DEF more, s, t, N, T
  <2>1. [FunctionAt(o, h, n) EXCEPT !.parameters = Append(@, NewParameter)] =
          [name |-> N(n), type |-> T(n), parameters |-> Append(s, NewParameter)]
    BY <1>6
  <2> QED  BY <2>1, <1>3, <1>6, <1>8
<1> HIDE DEF s, t, N, T, P, Q
<1> QED  BY <1>10, <1>11

\* What an attribute adds to a function described before it.
LEMMA FunctionAttribute ==
  ASSUME NEW o, NEW n \in Nat, NEW h \in 1 .. n, o[n + 1].kind \in {"name", "type"}
  PROVE  LET P == ParametersAfter(o, h, n)
             c == Cardinality(P)
             f == FunctionAt(o, h, n)
             g == FunctionAt(o, h, n + 1)
             line == o[n + 1]
         IN  /\ Len(f.parameters) = c
             /\ Latest(o, n, h) => P = {} /\ g = [f EXCEPT ![line.kind] = Token(line)]
             /\ P # {} /\ Latest(o, n, Nth(P, c)) =>
                  ~Latest(o, n, h) /\ g = [f EXCEPT !.parameters[c][line.kind] = Token(line)]
             /\ ~Latest(o, n, h) /\ ~(P # {} /\ Latest(o, n, Nth(P, c))) => g = f
<1> DEFINE P == ParametersAfter(o, h, n)
           c == Cardinality(P)
           L == o[n + 1]
           A(p) == ParameterAt(o, Nth(P, p), n)
           B(p) == ParameterAt(o, Nth(P, p), n + 1)
           s == [p \in 1 .. c |-> A(p)]
           t == [p \in 1 .. c |-> B(p)]
           N(m) == Attribute(o, h, "name", m)
           T(m) == Attribute(o, h, "type", m)
           f == FunctionAt(o, h, n)
           g == FunctionAt(o, h, n + 1)
<1>1. P \in SUBSET (h + 1 .. n) /\ P \in SUBSET Nat /\ IsFiniteSet(P) /\ c \in Nat
  BY ParametersAfterType, FS_CardinalityType
<1>2. ParametersAfter(o, h, n + 1) = P
  <2>1. ~Entry(o, n + 1, "formal_parameter")
    BY DEF Entry
  <2> QED  BY <2>1, ParametersAfterStep
<1>3. /\ f = [name |-> N(n), type |-> T(n), parameters |-> s]
      /\ g = [name |-> N(n + 1), type |-> T(n + 1), parameters |-> t]
  BY <1>2 DEF FunctionAt
<1>4. Len(s) = c
  BY <1>1
<1>5. /\ L.kind = "name" \/ L.kind = "type"
      /\ L.kind = "name" => N(n + 1) = (IF Latest(o, n, h) THEN Token(L) ELSE N(n)) /\ T(n + 1) = T(n)
      /\ L.kind = "type" => T(n + 1) = (IF Latest(o, n, h) THEN Token(L) ELSE T(n)) /\ N(n + 1) = N(n)
  BY AttributeStep DEF Latest
<1>6. \A i \in 1 .. n :
        ParameterAt(o, i, n + 1) = IF Latest(o, n, i)
                                   THEN [ParameterAt(o, i, n) EXCEPT ![L.kind] = Token(L)]
                                   ELSE ParameterAt(o, i, n)
  <2> SUFFICES ASSUME NEW i \in 1 .. n
               PROVE  ParameterAt(o, i, n + 1) = IF Latest(o, n, i)
                                                 THEN [ParameterAt(o, i, n) EXCEPT ![L.kind] = Token(L)]
                                                 ELSE ParameterAt(o, i, n)
    OBVIOUS
  <2>1. L.kind \in {"header", "name", "type"} /\ L.kind # "header"
    OBVIOUS
  <2>2. /\ ~Latest(o, n, i) => ParameterAt(o, i, n + 1) = ParameterAt(o, i, n)
        /\ Latest(o, n, i) =>
             ParameterAt(o, i, n + 1) = [ParameterAt(o, i, n) EXCEPT ![L.kind] = Token(L)]
    BY <2>1, ParameterStep
  <2> HIDE DEF L
  <2> QED  BY <2>2
<1>7. \A i \in P : i \in 1 .. n /\ i \in h + 1 .. n /\ o[i].kind = "header"
  BY <1>1 DEF ParametersAfter, Entry
<1>8. \A p \in 1 .. c : Nth(P, p) \in P
  <2> HIDE DEF P
  <2> QED  BY <1>1, NthIs
<1>9. \A p \in 1 .. c : B(p) = IF Latest(o, n, Nth(P, p)) THEN [A(p) EXCEPT ![L.kind] = Token(L)] ELSE A(p)
  <2> HIDE DEF P, L
  <2> QED  BY <1>6, <1>7, <1>8
<1>10. \A p \in 1 .. c : p # c => ~Latest(o, n, Nth(P, p))
  <2> SUFFICES ASSUME NEW p \in 1 .. c, p # c PROVE ~Latest(o, n, Nth(P, p))
    OBVIOUS
  <2>1. P # {}
    BY <1>8
  <2>2. c \in 1 .. c
    BY <1>1
  <2>3. Nth(P, p) < Nth(P, c)
    <3> HIDE DEF P
    <3> QED  BY <2>1, <1>1, NthLast
  <2>4. Nth(P, p) \in 1 .. n /\ Nth(P, c) \in 1 .. n /\ o[Nth(P, c)].kind = "header"
    <3> HIDE DEF P
    <3> QED  BY <2>2, <1>7, <1>8
  <2>5. Nth(P, c) \in Nth(P, p) + 1 .. n
    <3> HIDE DEF P, c
    <3> QED  BY <2>3, <2>4
  <2> HIDE DEF P, c
  <2> QED  BY <2>4, <2>5 DEF Latest
<1>11. P # {} => c \in 1 .. c
  <2> HIDE DEF P
  <2> QED  BY <1>1, NthLast
<1>12. Latest(o, n, h) => P = {}
  <2> HIDE DEF P
  <2> QED  BY <1>7 DEF Latest
<1>13. P = {} => c = 0
  <2> HIDE DEF P
  <2> QED  BY FS_EmptySet
<1>14. ~(P # {} /\ Latest(o, n, Nth(P, c))) => t = s
  <2> SUFFICES ASSUME ~(P # {} /\ Latest(o, n, Nth(P, c))) PROVE t = s
    OBVIOUS
  <2>1. \A p \in 1 .. c : ~Latest(o, n, Nth(P, p))
    <3> HIDE DEF P, c
    <3> QED  BY <1>8, <1>10
  <2>2. \A p \in 1 .. c : B(p) = A(p)
    <3> HIDE DEF A, B, c, P, L
    <3> QED  BY <2>1, <1>9
  <2> HIDE DEF A, B, c, P
  <2> QED  BY <2>2
<1>15. P # {} /\ Latest(o, n, Nth(P, c)) => t = [s EXCEPT ![c] = [@ EXCEPT ![L.kind] = Token(L)]]
  <2> SUFFICES ASSUME P # {}, Latest(o, n, Nth(P, c))
               PROVE  t = [s EXCEPT ![c] = [@ EXCEPT ![L.kind] = Token(L)]]
    OBVIOUS
  <2>1. \A p \in 1 .. c : B(p) = IF p = c THEN [A(p) EXCEPT ![L.kind] = Token(L)] ELSE A(p)
    <3> HIDE DEF A, B, c, P, L
    <3> QED  BY <1>9, <1>10
  <2> HIDE DEF A, B, c, P, L
  <2> QED  BY <2>1, <1>11
<1>16. [f EXCEPT !.parameters[c][L.kind] = Token(L)] =
         [name |-> N(n), type |-> T(n),
          parameters |-> [s EXCEPT ![c] = [@ EXCEPT ![L.kind] = Token(L)]]]
  <2> HIDE DEF s, N, T, f, L, c
  <2> QED  BY <1>3
<1>17. Latest(o, n, h) => g = [f EXCEPT ![L.kind] = Token(L)]
  <2>1. Latest(o, n, h) => t = s
    <3> HIDE DEF s, t, P, c
    <3> QED  BY <1>12, <1>14
  <2> HIDE DEF s, t, N, T, f, g, L
  <2>2. CASE L.kind = "name"
    BY <2>1, <2>2, <1>3, <1>5
  <2>3. CASE L.kind = "type"
    BY <2>1, <2>3, <1>3, <1>5
  <2> QED  BY <2>2, <2>3, <1>5
<1>18. ~Latest(o, n, h) => g = [name |-> N(n), type |-> T(n), parameters |-> t]
  <2> HIDE DEF s, t, N, T, f, g, L
  <2> QED  BY <1>3, <1>5
<1>19. P # {} /\ Latest(o, n, Nth(P, c)) =>
         ~Latest(o, n, h) /\ g = [f EXCEPT !.parameters[c][L.kind] = Token(L)]
  <2> HIDE DEF s, t, N, T, f, g, L, c, P
  <2> QED  BY <1>12, <1>15, <1>16, <1>18
<1>20. ~Latest(o, n, h) /\ ~(P # {} /\ Latest(o, n, Nth(P, c))) => g = f
  <2> HIDE DEF s, t, N, T, f, g, L, c, P
  <2> QED  BY <1>3, <1>14, <1>18
<1>21. Len(f.parameters) = c
  <2> HIDE DEF s, t, N, T, f, g, L, c, P
  <2> QED  BY <1>3, <1>4
<1> HIDE DEF s, t, N, T, f, g, L, c, P
<1>22. /\ Len(f.parameters) = c
       /\ Latest(o, n, h) => P = {} /\ g = [f EXCEPT ![L.kind] = Token(L)]
       /\ P # {} /\ Latest(o, n, Nth(P, c)) =>
            ~Latest(o, n, h) /\ g = [f EXCEPT !.parameters[c][L.kind] = Token(L)]
       /\ ~Latest(o, n, h) /\ ~(P # {} /\ Latest(o, n, Nth(P, c))) => g = f
  BY <1>12, <1>17, <1>19, <1>20, <1>21
<1> QED  BY <1>22 DEF f, g, L, c, P

\* The functions described in the first n lines of o.
FunctionsIn(o, n) ==
  [k \in 1 .. Cardinality(Subprograms(o, n)) |-> FunctionAt(o, Nth(Subprograms(o, n), k), n)]

\* The line of the last of them.
LastSubprogram(o, n) == Nth(Subprograms(o, n), Cardinality(Subprograms(o, n)))

LEMMA LastSubprogramIs ==
  ASSUME NEW o, NEW n \in Nat
  PROVE  LET S == Subprograms(o, n)
             c == Cardinality(S)
             last == LastSubprogram(o, n)
         IN  /\ c \in Nat /\ Len(FunctionsIn(o, n)) = c
             /\ S = {} <=> c = 0
             /\ \A k \in 1 .. c : Nth(S, k) \in S /\ Nth(S, k) \in 1 .. n
             /\ S # {} => /\ last \in S /\ last \in 1 .. n /\ last = Nth(S, c) /\ c \in 1 .. c
                          /\ \A j \in last + 1 .. n : ~Entry(o, j, "subprogram")
                          /\ \A k \in 1 .. c : k # c => last \in Nth(S, k) + 1 .. n
<1> DEFINE S == Subprograms(o, n)
           c == Cardinality(S)
           last == LastSubprogram(o, n)
<1>1. S \in SUBSET (1 .. n) /\ S \in SUBSET Nat /\ IsFiniteSet(S) /\ c \in Nat
  BY SubprogramsType, FS_CardinalityType
<1>2. Len(FunctionsIn(o, n)) = c
  BY <1>1 DEF FunctionsIn
<1>3. S = {} <=> c = 0
  BY <1>1, FS_EmptySet
<1>4. \A k \in 1 .. c : Nth(S, k) \in S
  <2> HIDE DEF S
  <2> QED  BY <1>1, NthIs
<1>5. \A j \in 1 .. n : Entry(o, j, "subprogram") => j \in S
  BY DEF Subprograms
<1>6. last = Nth(S, c)
  BY DEF LastSubprogram
<1>7. S # {} => /\ c \in 1 .. c
                /\ \A i \in S : i <= last
                /\ \A k \in 1 .. c : k # c => Nth(S, k) < last
  <2> HIDE DEF S, last
  <2> QED  BY <1>1, <1>6, NthLast
<1>8. \A i \in S : i \in 1 .. n
  BY <1>1
<1> HIDE DEF S, c, last
<1>9. S # {} => /\ last \in S /\ last \in 1 .. n /\ last = Nth(S, c) /\ c \in 1 .. c
                /\ \A j \in last + 1 .. n : ~Entry(o, j, "subprogram")
                /\ \A k \in 1 .. c : k # c => last \in Nth(S, k) + 1 .. n
  <2> SUFFICES ASSUME S # {}
               PROVE  /\ last \in S /\ last \in 1 .. n /\ last = Nth(S, c) /\ c \in 1 .. c
                      /\ \A j \in last + 1 .. n : ~Entry(o, j, "subprogram")
                      /\ \A k \in 1 .. c : k # c => last \in Nth(S, k) + 1 .. n
    OBVIOUS
  <2>1. last \in S /\ last \in 1 .. n /\ last = Nth(S, c) /\ c \in 1 .. c
    BY <1>4, <1>6, <1>7, <1>8
  <2>2. \A j \in last + 1 .. n : ~Entry(o, j, "subprogram")
    <3> SUFFICES ASSUME NEW j \in last + 1 .. n, Entry(o, j, "subprogram") PROVE FALSE
      OBVIOUS
    <3>1. j \in 1 .. n /\ ~(j <= last)
      BY <2>1
    <3> QED  BY <3>1, <1>5, <1>7
  <2>3. \A k \in 1 .. c : k # c => last \in Nth(S, k) + 1 .. n
    <3> SUFFICES ASSUME NEW k \in 1 .. c, k # c PROVE last \in Nth(S, k) + 1 .. n
      OBVIOUS
    <3>1. Nth(S, k) \in 1 .. n /\ Nth(S, k) < last
      BY <1>4, <1>7, <1>8
    <3> QED  BY <3>1, <2>1
  <2> QED  BY <2>1, <2>2, <2>3
<1>10. \A k \in 1 .. c : Nth(S, k) \in S /\ Nth(S, k) \in 1 .. n
  BY <1>4, <1>8
<1> QED  BY <1>1, <1>2, <1>3, <1>9, <1>10 DEF S, c, last

LEMMA DescribedIs ==
  ASSUME NEW o \in Outputs, NEW n \in 0 .. Len(o)
  PROVE  DescribedBy[o][n] = FunctionsIn(o, n)
BY DEF DescribedBy, FunctionsIn

\* What a header adds to the functions described before it.
LEMMA HeaderDescribed ==
  ASSUME NEW o, NEW n \in Nat, o[n + 1].kind = "header",
         Entry(o, n + 1, "formal_parameter") => Subprograms(o, n) # {}
  PROVE  LET F == FunctionsIn(o, n)
             G == FunctionsIn(o, n + 1)
         IN  /\ Entry(o, n + 1, "subprogram") => G = Append(F, NewFunction)
             /\ Entry(o, n + 1, "formal_parameter") =>
                  G = [F EXCEPT ![Len(F)].parameters = Append(@, NewParameter)]
             /\ ~Entry(o, n + 1, "subprogram") /\ ~Entry(o, n + 1, "formal_parameter") => G = F
<1> DEFINE S == Subprograms(o, n)
           c == Cardinality(S)
           F == FunctionsIn(o, n)
           G == FunctionsIn(o, n + 1)
           last == LastSubprogram(o, n)
           added(k) == \A j \in Nth(S, k) + 1 .. n + 1 : ~Entry(o, j, "subprogram")
<1>1. /\ c \in Nat /\ Len(F) = c
      /\ \A k \in 1 .. c : Nth(S, k) \in S /\ Nth(S, k) \in 1 .. n
      /\ S # {} => /\ last \in S /\ last \in 1 .. n /\ last = Nth(S, c) /\ c \in 1 .. c
                   /\ \A j \in last + 1 .. n : ~Entry(o, j, "subprogram")
                   /\ \A k \in 1 .. c : k # c => last \in Nth(S, k) + 1 .. n
  BY LastSubprogramIs
<1>2. F = [k \in 1 .. c |-> FunctionAt(o, Nth(S, k), n)]
  BY DEF FunctionsIn
<1>3. \A k \in 1 .. c :
        /\ ~(Entry(o, n + 1, "formal_parameter") /\ added(k)) =>
             FunctionAt(o, Nth(S, k), n + 1) = FunctionAt(o, Nth(S, k), n)
        /\ Entry(o, n + 1, "formal_parameter") /\ added(k) =>
             FunctionAt(o, Nth(S, k), n + 1) =
               [FunctionAt(o, Nth(S, k), n) EXCEPT !.parameters = Append(@, NewParameter)]
  <2> SUFFICES ASSUME NEW k \in 1 .. c
               PROVE  /\ ~(Entry(o, n + 1, "formal_parameter") /\ added(k)) =>
                           FunctionAt(o, Nth(S, k), n + 1) = FunctionAt(o, Nth(S, k), n)
                      /\ Entry(o, n + 1, "formal_parameter") /\ added(k) =>
                           FunctionAt(o, Nth(S, k), n + 1) =
                             [FunctionAt(o, Nth(S, k), n) EXCEPT !.parameters = Append(@, NewParameter)]
    OBVIOUS
  <2>1. Nth(S, k) \in 1 .. n
    BY <1>1
  <2> DEFINE h == Nth(S, k)
  <2> HIDE DEF h
  <2>2. /\ ~(Entry(o, n + 1, "formal_parameter") /\ \A j \in h + 1 .. n + 1 : ~Entry(o, j, "subprogram")) =>
             FunctionAt(o, h, n + 1) = FunctionAt(o, h, n)
        /\ Entry(o, n + 1, "formal_parameter") /\ (\A j \in h + 1 .. n + 1 : ~Entry(o, j, "subprogram")) =>
             FunctionAt(o, h, n + 1) = [FunctionAt(o, h, n) EXCEPT !.parameters = Append(@, NewParameter)]
    <3>1. h \in 1 .. n
      BY <2>1 DEF h
    <3> QED  BY <3>1, FunctionHeader
  <2> QED  BY <2>2 DEF h
<1>4. ASSUME Entry(o, n + 1, "subprogram") PROVE G = Append(F, NewFunction)
  <2> DEFINE T == S \cup {n + 1}
             X == {G[k] : k \in 1 .. c + 1}
  <2>1. Subprograms(o, n + 1) = T
    BY <1>4, SubprogramsStep
  <2>2. Cardinality(T) = c + 1 /\ (\A k \in 1 .. c : Nth(T, k) = Nth(S, k)) /\ Nth(T, c + 1) = n + 1
    <3>1. S \in SUBSET (1 .. n) /\ S \in SUBSET Nat /\ IsFiniteSet(S)
      BY SubprogramsType
    <3>2. n + 1 \in Nat /\ \A i \in S : i < n + 1
      BY <3>1
    <3> HIDE DEF S
    <3> QED  BY <3>1, <3>2, NthExtends
  <2>3. G = [k \in 1 .. c + 1 |-> FunctionAt(o, Nth(T, k), n + 1)]
    <3> HIDE DEF T
    <3> QED  BY <2>1, <2>2 DEF FunctionsIn
  <2>4. ~Entry(o, n + 1, "formal_parameter")
    BY <1>4 DEF Entry
  <2>5. FunctionAt(o, n + 1, n + 1) = NewFunction
    BY FunctionBegins
  <2>6. \A k \in 1 .. c : k \in 1 .. c + 1 /\ G[k] = F[k]
    <3>1. \A k \in 1 .. c : k \in 1 .. c + 1
      BY <1>1
    <3> HIDE DEF S, c, F, G, T
    <3> QED  BY <3>1, <2>2, <2>3, <2>4, <1>2, <1>3
  <2>7. c + 1 \in 1 .. c + 1 /\ G[c + 1] = NewFunction
    <3>1. c + 1 \in 1 .. c + 1
      BY <1>1
    <3> HIDE DEF S, c, F, G, T
    <3> QED  BY <3>1, <2>2, <2>3, <2>5
  <2>8. G \in [1 .. c + 1 -> X] /\ F \in [1 .. c -> X]
    <3> HIDE DEF S, c, F, G, T
    <3>1. G = [k \in 1 .. c + 1 |-> G[k]] /\ F = [k \in 1 .. c |-> F[k]]
      BY <1>2, <2>3
    <3>2. \A k \in 1 .. c : F[k] \in X
      BY <2>6
    <3> QED  BY <3>1, <3>2
  <2> HIDE DEF S, c, F, G, T, X
  <2> QED  BY <1>1, <2>6, <2>7, <2>8, AppendIs
<1>5. ASSUME ~Entry(o, n + 1, "subprogram")
      PROVE  G = [k \in 1 .. c |-> FunctionAt(o, Nth(S, k), n + 1)]
  <2>1. Subprograms(o, n + 1) = S
    BY <1>5, SubprogramsStep
  <2> HIDE DEF S
  <2> QED  BY <2>1 DEF FunctionsIn
<1>6. ASSUME Entry(o, n + 1, "formal_parameter")
      PROVE  G = [F EXCEPT ![Len(F)].parameters = Append(@, NewParameter)]
  <2>1. ~Entry(o, n + 1, "subprogram")
    BY <1>6 DEF Entry
  <2>2. S # {}
    BY <1>6
  <2>3. added(c)
    <3>1. \A j \in last + 1 .. n + 1 : j \in last + 1 .. n \/ j = n + 1
      BY <1>1, <2>2
    <3>2. last = Nth(S, c) /\ \A j \in last + 1 .. n : ~Entry(o, j, "subprogram")
      BY <1>1, <2>2
    <3> HIDE DEF S, c, last
    <3> QED  BY <3>1, <3>2, <2>1
  <2>4. \A k \in 1 .. c : k # c => ~added(k)
    <3> SUFFICES ASSUME NEW k \in 1 .. c, k # c PROVE ~added(k)
      OBVIOUS
    <3>1. last \in Nth(S, k) + 1 .. n /\ Nth(S, k) \in 1 .. n /\ last \in S
      BY <1>1, <2>2
    <3>2. Entry(o, last, "subprogram")
      <4> HIDE DEF last
      <4> QED  BY <3>1 DEF Subprograms
    <3>3. last \in Nth(S, k) + 1 .. n + 1
      <4> HIDE DEF S, last
      <4> QED  BY <3>1
    <3> HIDE DEF S, last, c
    <3> QED  BY <3>2, <3>3
  <2>5. \A k \in 1 .. c :
          G[k] = IF k = c THEN [F[k] EXCEPT !.parameters = Append(@, NewParameter)] ELSE F[k]
    <3> HIDE DEF S, c, F, G, added
    <3> QED  BY <1>2, <1>3, <1>5, <1>6, <2>1, <2>3, <2>4
  <2> HIDE DEF S, c, F, G, added
  <2> QED  BY <1>1, <1>2, <1>5, <2>1, <2>2, <2>5
<1>7. ASSUME ~Entry(o, n + 1, "subprogram"), ~Entry(o, n + 1, "formal_parameter") PROVE G = F
  <2> HIDE DEF S, c, F, G, added
  <2> QED  BY <1>2, <1>3, <1>5, <1>7
<1> HIDE DEF S, c, F, G, added
<1> QED  BY <1>4, <1>6, <1>7 DEF F, G

\* The line of the last parameter described.
LastParameter(o, n) ==
  LET P == ParametersAfter(o, LastSubprogram(o, n), n) IN Nth(P, Cardinality(P))

\* Is the entry that the line n belongs to a function, or a parameter?
OfFunction(o, n) == Subprograms(o, n) # {} /\ Latest(o, n, LastSubprogram(o, n))
OfParameter(o, n) ==
  /\ Subprograms(o, n) # {}
  /\ ParametersAfter(o, LastSubprogram(o, n), n) # {}
  /\ Latest(o, n, LastParameter(o, n))

LEMMA EntryIs ==
  ASSUME NEW o, NEW n \in Nat,
         \A h \in 1 .. n : Entry(o, h, "formal_parameter") => \E j \in 1 .. h : Entry(o, j, "subprogram")
  PROVE  /\ OfFunction(o, n) <=> \E h \in 1 .. n : Entry(o, h, "subprogram") /\ Latest(o, n, h)
         /\ OfParameter(o, n) <=> \E h \in 1 .. n : Entry(o, h, "formal_parameter") /\ Latest(o, n, h)
<1> DEFINE S == Subprograms(o, n)
           last == LastSubprogram(o, n)
           P == ParametersAfter(o, last, n)
           q == LastParameter(o, n)
<1>1. \A h \in 1 .. n : h \in S <=> Entry(o, h, "subprogram")
  BY DEF Subprograms
<1>2. S # {} => last \in S /\ last \in 1 .. n /\ \A j \in last + 1 .. n : ~Entry(o, j, "subprogram")
  BY LastSubprogramIs
<1>3. \A h \in S : h \in 1 .. n
  BY DEF Subprograms
<1>4. ASSUME S # {}
      PROVE  /\ \A h \in P : h \in last + 1 .. n /\ h \in 1 .. n /\ Entry(o, h, "formal_parameter")
             /\ \A h \in last + 1 .. n : Entry(o, h, "formal_parameter") => h \in P
             /\ P # {} => q \in P /\ \A h \in P : h <= q
  <2>1. last \in Nat /\ last \in 1 .. n /\ \A j \in last + 1 .. n : ~Entry(o, j, "subprogram")
    BY <1>2, <1>4
  <2> HIDE DEF last, S
  <2>2. P \in SUBSET (last + 1 .. n) /\ P \in SUBSET Nat /\ IsFiniteSet(P)
    BY <2>1, ParametersAfterType
  <2>3. \A h \in P : Entry(o, h, "formal_parameter")
    BY DEF ParametersAfter
  <2>4. \A h \in last + 1 .. n : Entry(o, h, "formal_parameter") => h \in P
    BY <2>1 DEF ParametersAfter
  <2>5. q = Nth(P, Cardinality(P))
    BY DEF LastParameter, last
  <2> HIDE DEF P, q
  <2>6. \A h \in P : h \in last + 1 .. n /\ h \in 1 .. n
    BY <2>1, <2>2
  <2>7. ASSUME P # {} PROVE q \in P /\ \A h \in P : h <= q
    <3>1. /\ Cardinality(P) \in Nat /\ Cardinality(P) > 0
          /\ \A h \in P : h <= Nth(P, Cardinality(P))
      BY <2>2, <2>7, NthLast
    <3>2. Cardinality(P) \in 1 .. Cardinality(P)
      BY <3>1
    <3> QED  BY <3>1, <3>2, <2>2, <2>5, NthIs
  <2> QED  BY <2>3, <2>4, <2>6, <2>7
<1>5. ASSUME NEW h \in 1 .. n, Entry(o, h, "subprogram"), Latest(o, n, h) PROVE OfFunction(o, n)
  <2>1. S # {} /\ h \in S
    BY <1>1, <1>5
  <2>2. last \in 1 .. n /\ Entry(o, last, "subprogram")
    BY <1>1, <1>2, <2>1
  <2>3. ~(h < last)
    <3> SUFFICES ASSUME h < last PROVE FALSE
      OBVIOUS
    <3>1. last \in h + 1 .. n
      BY <2>2
    <3> QED  BY <3>1, <2>2, <1>5 DEF Latest, Entry
  <2>4. ~(last < h)
    <3> SUFFICES ASSUME last < h PROVE FALSE
      OBVIOUS
    <3>1. h \in last + 1 .. n
      BY <2>2
    <3> QED  BY <3>1, <2>1, <1>2, <1>5
  <2>5. h = last
    BY <2>2, <2>3, <2>4
  <2> QED  BY <2>1, <2>5, <1>5 DEF OfFunction
<1>6. ASSUME OfFunction(o, n) PROVE \E h \in 1 .. n : Entry(o, h, "subprogram") /\ Latest(o, n, h)
  BY <1>1, <1>2, <1>6 DEF OfFunction
<1>7. ASSUME NEW h \in 1 .. n, Entry(o, h, "formal_parameter"), Latest(o, n, h) PROVE OfParameter(o, n)
  <2>1. PICK j \in 1 .. h : Entry(o, j, "subprogram")
    BY <1>7
  <2>2. S # {}
    BY <2>1, <1>1
  <2>3. last \in 1 .. n /\ Entry(o, last, "subprogram")
    BY <1>1, <1>2, <2>2
  <2>4. h # last
    BY <2>3, <1>7 DEF Entry
  <2>5. ~(h < last)
    <3> SUFFICES ASSUME h < last PROVE FALSE
      OBVIOUS
    <3>1. last \in h + 1 .. n
      BY <2>3
    <3> QED  BY <3>1, <2>3, <1>7 DEF Latest, Entry
  <2>6. h \in last + 1 .. n
    BY <2>3, <2>4, <2>5
  <2>7. h \in P /\ q \in P /\ h <= q /\ q \in 1 .. n /\ Entry(o, q, "formal_parameter")
    BY <1>4, <1>7, <2>2, <2>6
  <2>8. ~(h < q)
    <3> SUFFICES ASSUME h < q PROVE FALSE
      OBVIOUS
    <3>1. q \in h + 1 .. n
      BY <2>7
    <3> QED  BY <3>1, <2>7, <1>7 DEF Latest, Entry
  <2>9. h = q
    BY <2>7, <2>8
  <2> QED  BY <2>2, <2>7, <2>9, <1>7 DEF OfParameter
<1>8. ASSUME OfParameter(o, n)
      PROVE  \E h \in 1 .. n : Entry(o, h, "formal_parameter") /\ Latest(o, n, h)
  <2>1. S # {} /\ P # {} /\ Latest(o, n, q)
    BY <1>8 DEF OfParameter
  <2>2. q \in P /\ q \in 1 .. n /\ Entry(o, q, "formal_parameter")
    BY <1>4, <2>1
  <2> QED  BY <2>1, <2>2
<1> QED  BY <1>5, <1>6, <1>7, <1>8

\* SetAttribute with the flags of an entry of a function or of a parameter.
Updated(f, line, of_function, of_parameter) ==
  LET last == Len(f.parameters)
      g == IF of_function THEN [f EXCEPT ![line.kind] = Token(line)] ELSE f
  IN  IF of_parameter THEN [g EXCEPT !.parameters[last][line.kind] = Token(line)] ELSE g

\* What an attribute adds to the functions described before it.
LEMMA AttributeDescribed ==
  ASSUME NEW o, NEW n \in Nat, o[n + 1].kind \in {"name", "type"}
  PROVE  LET F == FunctionsIn(o, n)
             G == FunctionsIn(o, n + 1)
         IN  /\ F = << >> => G = F
             /\ F # << >> =>
                  G = [F EXCEPT ![Len(F)] = Updated(@, o[n + 1], OfFunction(o, n), OfParameter(o, n))]
<1> DEFINE S == Subprograms(o, n)
           c == Cardinality(S)
           F == FunctionsIn(o, n)
           G == FunctionsIn(o, n + 1)
           last == LastSubprogram(o, n)
           L == o[n + 1]
           P(h) == ParametersAfter(o, h, n)
           q(h) == Nth(P(h), Cardinality(P(h)))
           A(h) == FunctionAt(o, h, n)
           B(h) == FunctionAt(o, h, n + 1)
           ofParameter(h) == P(h) # {} /\ Latest(o, n, q(h))
<1>1. /\ c \in Nat /\ Len(F) = c /\ (S = {} <=> c = 0)
      /\ \A k \in 1 .. c : Nth(S, k) \in S /\ Nth(S, k) \in 1 .. n
      /\ S # {} => /\ last \in S /\ last \in 1 .. n /\ last = Nth(S, c) /\ c \in 1 .. c
                   /\ \A j \in last + 1 .. n : ~Entry(o, j, "subprogram")
                   /\ \A k \in 1 .. c : k # c => last \in Nth(S, k) + 1 .. n
  BY LastSubprogramIs
<1>2. F = [k \in 1 .. c |-> A(Nth(S, k))]
  BY DEF FunctionsIn
<1>3. G = [k \in 1 .. c |-> B(Nth(S, k))]
  <2>1. ~Entry(o, n + 1, "subprogram")
    BY DEF Entry
  <2>2. Subprograms(o, n + 1) = S
    BY <2>1, SubprogramsStep
  <2> HIDE DEF S
  <2> QED  BY <2>2 DEF FunctionsIn
<1>4. \A h \in 1 .. n :
        /\ Len(A(h).parameters) = Cardinality(P(h))
        /\ Latest(o, n, h) => P(h) = {} /\ B(h) = [A(h) EXCEPT ![L.kind] = Token(L)]
        /\ ofParameter(h) =>
             ~Latest(o, n, h) /\ B(h) = [A(h) EXCEPT !.parameters[Cardinality(P(h))][L.kind] = Token(L)]
        /\ ~Latest(o, n, h) /\ ~ofParameter(h) => B(h) = A(h)
  <2> SUFFICES ASSUME NEW h \in 1 .. n
        PROVE
        /\ Len(A(h).parameters) = Cardinality(P(h))
        /\ Latest(o, n, h) => P(h) = {} /\ B(h) = [A(h) EXCEPT ![L.kind] = Token(L)]
        /\ ofParameter(h) =>
             ~Latest(o, n, h) /\ B(h) = [A(h) EXCEPT !.parameters[Cardinality(P(h))][L.kind] = Token(L)]
        /\ ~Latest(o, n, h) /\ ~ofParameter(h) => B(h) = A(h)
    OBVIOUS
  <2> QED  BY FunctionAttribute
<1>5. \A h \in 1 .. n : B(h) = Updated(A(h), L, Latest(o, n, h), ofParameter(h))
  <2> SUFFICES ASSUME NEW h \in 1 .. n
               PROVE  B(h) = Updated(A(h), L, Latest(o, n, h), ofParameter(h))
    OBVIOUS
  <2> HIDE DEF A, B, L, q
  <2>1. CASE Latest(o, n, h)
    <3>1. ~ofParameter(h)
      BY <1>4, <2>1
    <3> HIDE DEF ofParameter
    <3> QED  BY <1>4, <2>1, <3>1 DEF Updated
  <2>2. CASE ofParameter(h)
    <3> HIDE DEF ofParameter, P
    <3> QED  BY <1>4, <2>2 DEF Updated
  <2>3. CASE ~Latest(o, n, h) /\ ~ofParameter(h)
    <3> HIDE DEF ofParameter, P
    <3> QED  BY <1>4, <2>3 DEF Updated
  <2> QED  BY <2>1, <2>2, <2>3
<1>6. \A k \in 1 .. c : k # c => B(Nth(S, k)) = A(Nth(S, k))
  <2> SUFFICES ASSUME NEW k \in 1 .. c, k # c PROVE B(Nth(S, k)) = A(Nth(S, k))
    OBVIOUS
  <2> DEFINE h == Nth(S, k)
  <2>1. S # {} /\ h \in 1 .. n /\ last \in h + 1 .. n /\ last \in S
    BY <1>1
  <2>2. Entry(o, last, "subprogram")
    BY <2>1 DEF Subprograms
  <2>3. ~Latest(o, n, h)
    BY <2>1, <2>2 DEF Latest, Entry
  <2>4. ~ofParameter(h)
    <3> SUFFICES ASSUME ofParameter(h) PROVE FALSE
      OBVIOUS
    <3> HIDE DEF h, last, S, c
    <3>1. P(h) \in SUBSET Nat /\ IsFiniteSet(P(h)) /\ P(h) # {}
      BY <2>1, ParametersAfterType
    <3>2. q(h) \in P(h)
      <4> DEFINE Q == P(h)
      <4> HIDE DEF Q
      <4>1. Q \in SUBSET Nat /\ IsFiniteSet(Q) /\ Q # {}
        BY <3>1 DEF Q
      <4>2. Cardinality(Q) \in Nat /\ Cardinality(Q) > 0
        BY <4>1, NthLast
      <4>3. Cardinality(Q) \in 1 .. Cardinality(Q)
        BY <4>2
      <4>4. Nth(Q, Cardinality(Q)) \in Q
        BY <4>1, <4>3, NthIs
      <4> QED  BY <4>4 DEF Q
    <3> HIDE DEF q
    <3>3. q(h) \in h + 1 .. n /\ \A j \in h + 1 .. q(h) : ~Entry(o, j, "subprogram")
      BY <3>2 DEF ParametersAfter
    <3>4. ~(last \in h + 1 .. q(h))
      BY <3>3, <2>2
    <3>5. last \in q(h) + 1 .. n
      BY <3>3, <3>4, <2>1
    <3> QED  BY <3>5, <2>2 DEF Latest, Entry
  <2> HIDE DEF A, B, h, ofParameter, L
  <2>5. B(h) = A(h)
    BY <1>4, <2>1, <2>3, <2>4
  <2> QED  BY <2>5 DEF h
<1>7. S # {} => (OfFunction(o, n) <=> Latest(o, n, last)) /\ (OfParameter(o, n) <=> ofParameter(last))
  BY DEF OfFunction, OfParameter, LastParameter
<1>8. F = << >> <=> S = {}
  <2> HIDE DEF S, F, A
  <2>1. S = {} => F = << >>
    BY <1>1, <1>2
  <2>2. F = << >> => c = 0
    BY <1>1
  <2> QED  BY <2>1, <2>2, <1>1
<1>9. ASSUME S = {} PROVE G = F
  <2> HIDE DEF S, F, G, A, B, c
  <2> QED  BY <1>1, <1>2, <1>3, <1>9
<1>10. ASSUME S # {}
       PROVE  G = [F EXCEPT ![Len(F)] = Updated(@, L, OfFunction(o, n), OfParameter(o, n))]
  <2>1. Updated(A(last), L, Latest(o, n, last), ofParameter(last)) =
          Updated(A(last), L, OfFunction(o, n), OfParameter(o, n))
    <3> HIDE DEF S, ofParameter, last, A, L
    <3> QED  BY <1>7, <1>10 DEF Updated
  <2>2. \A k \in 1 .. c : G[k] = IF k = c THEN Updated(F[k], L, OfFunction(o, n), OfParameter(o, n))
                                 ELSE F[k]
    <3> HIDE DEF S, ofParameter, A, B, L, c, F, G, last
    <3>1. B(last) = Updated(A(last), L, OfFunction(o, n), OfParameter(o, n)) /\ last = Nth(S, c)
      BY <1>1, <1>5, <1>10, <2>1
    <3> QED  BY <3>1, <1>2, <1>3, <1>6
  <2>3. c \in 1 .. c /\ Len(F) = c
    BY <1>1, <1>10
  <2> HIDE DEF S, A, B, L, c, F, G
  <2> QED  BY <2>2, <2>3, <1>2, <1>3
<1> HIDE DEF S, F, G, L, c
<1>11. /\ F = << >> => G = F
       /\ F # << >> => G = [F EXCEPT ![Len(F)] = Updated(@, L, OfFunction(o, n), OfParameter(o, n))]
  BY <1>8, <1>9, <1>10
<1> QED  BY <1>11 DEF F, G, L

\* Of the first n lines of o the last header is one of this tag.
CurrentIn(o, n, tag) == \E h \in 1 .. n : Entry(o, h, tag) /\ Latest(o, n, h)

LEMMA CurrentStep ==
  ASSUME NEW o, NEW n \in Nat, NEW tag
  PROVE  /\ o[n + 1].kind = "header" => (CurrentIn(o, n + 1, tag) <=> o[n + 1].tag = tag)
         /\ o[n + 1].kind # "header" => (CurrentIn(o, n + 1, tag) <=> CurrentIn(o, n, tag))
<1>1. \A h \in 1 .. n : h \in 1 .. n + 1 /\ n + 1 \in h + 1 .. n + 1
  OBVIOUS
<1>2. n + 1 \in 1 .. n + 1 /\ \A h \in 1 .. n + 1 : h \in 1 .. n \/ h = n + 1
  OBVIOUS
<1>3. Latest(o, n + 1, n + 1)
  BY DEF Latest
<1>4. \A h \in 1 .. n : Latest(o, n + 1, h) <=> Latest(o, n, h) /\ o[n + 1].kind # "header"
  <2>1. \A h \in 1 .. n : \A j : j \in h + 1 .. n + 1 <=> j \in h + 1 .. n \/ j = n + 1
    OBVIOUS
  <2> QED  BY <2>1 DEF Latest
<1>5. ASSUME o[n + 1].kind = "header"
      PROVE  CurrentIn(o, n + 1, tag) <=> o[n + 1].tag = tag
  BY <1>2, <1>3, <1>4, <1>5 DEF CurrentIn, Entry
<1>6. ASSUME o[n + 1].kind # "header"
      PROVE  CurrentIn(o, n + 1, tag) <=> CurrentIn(o, n, tag)
  BY <1>1, <1>2, <1>4, <1>6 DEF CurrentIn, Entry
<1> QED  BY <1>5, <1>6

LEMMA ReadLineKeepsReader ==
  ASSUME Reader, ReadLine
  PROVE  Reader'
<1>o. PICK o \in Outputs : o = output
  BY DEF Reader
<1>n. PICK n \in 0 .. Len(o) : n = position
  BY <1>o DEF Reader
<1> DEFINE line == o[n + 1]
           F == FunctionsIn(o, n)
           G == FunctionsIn(o, n + 1)
<1>1. /\ output' = o /\ position' = n + 1
      /\ line.kind = "header" => ReadHeader(line)
      /\ line.kind # "header" => ReadAttribute(line)
  BY <1>o, <1>n DEF ReadLine
<1>2. /\ n \in Nat /\ n + 1 \in 1 .. Len(o) /\ n + 1 \in 0 .. Len(o) /\ Len(o) \in Nat
      /\ \A i \in 1 .. n : i \in 1 .. Len(o)
  <2>1. n < Len(o) /\ Len(o) \in Nat
    BY <1>o, <1>n, OutputsAssumption DEF ReadLine
  <2> QED  BY <2>1
<1>3. /\ line.kind \in {"header", "name", "type"}
      /\ Entry(o, n + 1, "formal_parameter") => \E j \in 1 .. n + 1 : Entry(o, j, "subprogram")
      /\ \A h \in 1 .. n : Entry(o, h, "formal_parameter") => \E j \in 1 .. h : Entry(o, j, "subprogram")
  BY <1>2, OutputsAssumption
<1>4. /\ get_function \in BOOLEAN /\ get_function <=> CurrentIn(o, n, "subprogram")
      /\ get_parameter \in BOOLEAN /\ get_parameter <=> CurrentIn(o, n, "formal_parameter")
      /\ ptr_types \in Seq(Offsets(o))
      /\ TypesUpTo(o, n) \subseteq Known(ptr_types)
      /\ AllScanned(o) => Known(ptr_types) \subseteq TypesUpTo(o, n)
  BY <1>o, <1>n DEF Reader, Current, CurrentIn, Latest
<1>5. functions = F
  BY <1>o, <1>n, DescribedIs DEF Reader, FunctionsRead, Described
<1>6. (FunctionsRead)' <=> functions' = G
  <2>1. DescribedBy[o][n + 1] = G
    BY <1>2, DescribedIs
  <2>2. (FunctionsRead)' <=> functions' = DescribedBy[output'][position']
    BY DEF FunctionsRead, Described, DescribedBy, FunctionAt, ParameterAt, Attribute,
           ParametersAfter, Subprograms, Nth, Entry, Token
  <2> HIDE DEF F, G
  <2> QED  BY <2>1, <2>2, <1>1
<1>7. functions' = G
  <2>1. CASE line.kind = "header"
    <3>1. Entry(o, n + 1, "formal_parameter") => Subprograms(o, n) # {}
      <4> SUFFICES ASSUME Entry(o, n + 1, "formal_parameter") PROVE Subprograms(o, n) # {}
        OBVIOUS
      <4>1. PICK j \in 1 .. n + 1 : Entry(o, j, "subprogram")
        BY <1>3
      <4>2. j # n + 1
        BY <4>1 DEF Entry
      <4>3. j \in 1 .. n
        BY <4>2, <1>2
      <4> QED  BY <4>1, <4>3 DEF Subprograms
    <3>2. /\ Entry(o, n + 1, "subprogram") => G = Append(F, NewFunction)
          /\ Entry(o, n + 1, "formal_parameter") =>
               G = [F EXCEPT ![Len(F)].parameters = Append(@, NewParameter)]
          /\ ~Entry(o, n + 1, "subprogram") /\ ~Entry(o, n + 1, "formal_parameter") => G = F
      BY <2>1, <3>1, <1>2, HeaderDescribed
    <3>3. functions' = Extended(line)
      BY <1>1, <2>1 DEF ReadHeader
    <3>4. \A tag : Entry(o, n + 1, tag) <=> line.tag = tag
      BY <2>1 DEF Entry
    <3> HIDE DEF F, G, line
    <3>5. CASE line.tag = "subprogram"
      BY <3>2, <3>3, <3>4, <3>5, <1>5 DEF Extended
    <3>6. CASE line.tag = "formal_parameter"
      BY <3>2, <3>3, <3>4, <3>6, <1>5 DEF Extended
    <3>7. CASE line.tag \notin {"subprogram", "formal_parameter"}
      BY <3>2, <3>3, <3>4, <3>7, <1>5 DEF Extended
    <3> QED  BY <3>5, <3>6, <3>7
  <2>2. CASE line.kind # "header"
    <3>1. line.kind \in {"name", "type"}
      BY <2>2, <1>3
    <3>2. /\ F = << >> => G = F
          /\ F # << >> =>
               G = [F EXCEPT ![Len(F)] = Updated(@, line, OfFunction(o, n), OfParameter(o, n))]
      BY <3>1, <1>2, AttributeDescribed
    <3>3. /\ OfFunction(o, n) <=> CurrentIn(o, n, "subprogram")
          /\ OfParameter(o, n) <=> CurrentIn(o, n, "formal_parameter")
      BY <1>2, <1>3, EntryIs DEF CurrentIn
    <3>4. functions' = IF functions = << >> THEN functions
                       ELSE [functions EXCEPT ![Len(functions)] = SetAttribute(@, line)]
      BY <1>1, <2>2 DEF ReadAttribute
    <3> HIDE DEF F, G, line
    <3>5. \A f : SetAttribute(f, line) = Updated(f, line, OfFunction(o, n), OfParameter(o, n))
      BY <3>3, <1>4 DEF SetAttribute, Updated
    <3> QED  BY <3>2, <3>4, <3>5, <1>5
  <2> QED  BY <2>1, <2>2
<1>8. /\ get_function' \in BOOLEAN /\ get_function' <=> CurrentIn(o, n + 1, "subprogram")
      /\ get_parameter' \in BOOLEAN /\ get_parameter' <=> CurrentIn(o, n + 1, "formal_parameter")
  <2>1. CASE line.kind = "header"
    <3>1. /\ get_function' \in BOOLEAN /\ get_function' <=> line.tag = "subprogram"
          /\ get_parameter' \in BOOLEAN /\ get_parameter' <=> line.tag = "formal_parameter"
      BY <1>1, <2>1 DEF ReadHeader
    <3> QED  BY <2>1, <3>1, <1>2, CurrentStep
  <2>2. CASE line.kind # "header"
    <3>1. get_function' = get_function /\ get_parameter' = get_parameter
      BY <1>1, <2>2 DEF ReadAttribute
    <3> QED  BY <2>2, <3>1, <1>2, <1>4, CurrentStep
  <2> QED  BY <2>1, <2>2
<1>9. /\ ptr_types' \in Seq(Offsets(o))
      /\ TypesUpTo(o, n + 1) \subseteq Known(ptr_types')
      /\ AllScanned(o) => Known(ptr_types') \subseteq TypesUpTo(o, n + 1)
  <2> DEFINE c == Len(ptr_types)
  <2>1. c \in Nat
    BY <1>4, LenProperties
  <2>2. \A j : j \in 1 .. n + 1 <=> j \in 1 .. n \/ j = n + 1
    BY <1>2
  <2>3. IsPointer(o, n + 1) <=> line.kind = "header" /\ line.tag \in PointerTag
    BY DEF IsPointer, Entry
  <2>4. CASE line.kind = "header" /\ line.tag \in PointerTag
    <3>1. PICK type \in Scanned(line) : ptr_types' = Append(ptr_types, type)
      BY <1>1, <2>4 DEF ReadHeader
    <3>2. type \in Offsets(o)
      BY <1>2, <2>3, <2>4 DEF Scanned, Offsets
    <3>3. IsPointer(o, n + 1) /\ n + 1 \in Pointers(o)
      BY <1>2, <2>3, <2>4 DEF Pointers, IsPointer
    <3>4. Known(ptr_types') = Known(ptr_types) \cup {type}
      <4>1. /\ Len(ptr_types') = c + 1
            /\ ptr_types'[c + 1] = type /\ \A i \in 1 .. c : ptr_types'[i] = ptr_types[i]
        BY <3>1, <3>2, <1>4, AppendProperties
      <4>2. \A i : i \in 1 .. c + 1 <=> i \in 1 .. c \/ i = c + 1
        BY <2>1
      <4>3. Known(ptr_types') = {ptr_types'[i] : i \in 1 .. c + 1}
        BY <4>1 DEF Known
      <4>4. Known(ptr_types) = {ptr_types[i] : i \in 1 .. c}
        BY DEF Known
      <4> HIDE DEF c
      <4> QED  BY <4>1, <4>2, <4>3, <4>4
    <3>5. ptr_types' \in Seq(Offsets(o))
      BY <3>1, <3>2, <1>4, AppendProperties
    <3>6. line.depth = 1 => type = line.offset /\ TypesUpTo(o, n + 1) = TypesUpTo(o, n) \cup {line.offset}
      BY <2>2, <3>3 DEF Scanned, TypesUpTo
    <3>7. line.depth # 1 => ~AllScanned(o) /\ TypesUpTo(o, n + 1) = TypesUpTo(o, n)
      BY <2>2, <3>3 DEF AllScanned, TypesUpTo
    <3> HIDE DEF line
    <3> QED  BY <3>4, <3>5, <3>6, <3>7, <1>4
  <2>5. CASE ~(line.kind = "header" /\ line.tag \in PointerTag)
    <3>1. ptr_types' = ptr_types
      BY <1>1, <2>5 DEF ReadHeader, ReadAttribute
    <3>2. TypesUpTo(o, n + 1) = TypesUpTo(o, n)
      BY <2>2, <2>3, <2>5 DEF TypesUpTo
    <3> QED  BY <3>1, <3>2, <1>4
  <2> QED  BY <2>4, <2>5
<1> HIDE DEF line, F, G
<1>10. \A tag : Current(tag)' <=> CurrentIn(o, n + 1, tag)
  BY <1>1 DEF Current, CurrentIn, Latest, Entry
<1>11. /\ Offsets(output)' = Offsets(o) /\ (AllScanned(output)' <=> AllScanned(o))
       /\ TypesUpTo(output, position)' = TypesUpTo(o, n + 1) /\ Known(ptr_types)' = Known(ptr_types')
  BY <1>1 DEF Offsets, AllScanned, Pointers, TypesUpTo, IsPointer, Entry, Known
<1> QED  BY <1>1, <1>2, <1>6, <1>7, <1>8, <1>9, <1>10, <1>11 DEF Reader

-----------------------------------------------------------------------------
(* The images *)

LEMMA InspectionUnchanged ==
  ASSUME functions' = functions, ptr_types' = ptr_types
  PROVE  \A r : inspect_ptr_args(r)' = inspect_ptr_args(r)
BY DEF inspect_ptr_args, FoundFor, is_ptr_type

LEMMA LoaderUnchanged ==
  ASSUME Loader, UNCHANGED << readerVars, loadVars >>
  PROVE  Loader'
<1>1. /\ output' = output /\ position' = position /\ functions' = functions /\ ptr_types' = ptr_types
      /\ inspected' = inspected /\ replaced' = replaced /\ loaded' = loaded
  BY DEF readerVars, loadVars
<1>2. \A r : inspect_ptr_args(r)' = inspect_ptr_args(r)
  BY <1>1, InspectionUnchanged
<1>3. \A img : ReplacedIn(img)' = ReplacedIn(img)
  BY DEF ReplacedIn
<1> QED  BY <1>1, <1>2, <1>3 DEF Loader

LEMMA BeginImageLoadKeepsLoader ==
  ASSUME Loader, NEW img, BeginImageLoad(img)
  PROVE  Loader'
<1>1. /\ output' = output /\ position' = position /\ functions' = functions /\ ptr_types' = ptr_types
      /\ inspected' = inspected /\ replaced' = replaced /\ loaded' = loaded
  BY DEF BeginImageLoad, readerVars
<1>2. \A r : inspect_ptr_args(r)' = inspect_ptr_args(r)
  BY <1>1, InspectionUnchanged
<1>3. \A i : ReplacedIn(i)' = ReplacedIn(i)
  BY DEF ReplacedIn
<1> QED  BY <1>1, <1>2, <1>3 DEF Loader

LEMMA ReadDebugKeepsLoader ==
  ASSUME Reader, Loader, ReadDebug
  PROVE  Loader'
<1>1. /\ position < Len(output) /\ output \in Outputs
      /\ inspected' = inspected /\ replaced' = replaced /\ loaded' = loaded
  BY DEF Reader, ReadDebug, ReadLine, loadVars
<1>2. position \in Nat /\ Len(output) \in Nat
  BY <1>1, OutputsAssumption DEF Reader
<1>3. position # Len(output)
  BY <1>1, <1>2
<1>4. DOMAIN inspected = {}
  BY <1>3 DEF Loader
<1> QED  BY <1>1, <1>4 DEF Loader, ReplacedIn

LEMMA OpenRoutineKeepsLoader ==
  ASSUME Loader, NEW rtn \in Routine, OpenRoutine(rtn)
  PROVE  Loader'
<1>1. /\ output' = output /\ position' = position /\ functions' = functions /\ ptr_types' = ptr_types
      /\ replaced' = replaced /\ loaded' = loaded /\ position = Len(output)
      /\ inspected' = IF rtn \in Excluded THEN inspected
                      ELSE [r \in DOMAIN inspected \cup {rtn} |->
                              IF r = rtn THEN inspect_ptr_args(rtn) ELSE inspected[r]]
  BY DEF OpenRoutine, readerVars
<1>2. \A r : inspect_ptr_args(r)' = inspect_ptr_args(r)
  BY <1>1, InspectionUnchanged
<1>3. \A r \in DOMAIN inspected' : inspected'[r] = inspect_ptr_args(r)
  <2>1. CASE rtn \in Excluded
    BY <1>1, <2>1 DEF Loader
  <2>2. CASE rtn \notin Excluded
    BY <1>1, <2>2 DEF Loader
  <2> QED  BY <2>1, <2>2
<1>4. \A img : ReplacedIn(img)' = ReplacedIn(img)
  BY DEF ReplacedIn
<1> QED  BY <1>1, <1>2, <1>3, <1>4 DEF Loader

LEMMA EndImageLoadKeepsLoader ==
  ASSUME Loader, EndImageLoad
  PROVE  Loader'
<1>1. /\ output' = output /\ position' = position /\ functions' = functions /\ ptr_types' = ptr_types
      /\ inspected' = inspected
      /\ replaced' = replaced \cup ReplacedIn(loading) /\ loaded' = loaded \cup {loading}
  BY DEF EndImageLoad, readerVars
<1>2. \A r : inspect_ptr_args(r)' = inspect_ptr_args(r)
  BY <1>1, InspectionUnchanged
<1>3. replaced' = UNION {ReplacedIn(img) : img \in loaded'}
  BY <1>1 DEF Loader
<1>4. \A img : ReplacedIn(img)' = ReplacedIn(img)
  BY DEF ReplacedIn
<1> QED  BY <1>1, <1>2, <1>3, <1>4 DEF Loader

-----------------------------------------------------------------------------
(* The invariant *)

LEMMA ReaderUnchanged ==
  ASSUME Reader, UNCHANGED readerVars
  PROVE  Reader'
<1>1. /\ output' = output /\ position' = position /\ functions' = functions /\ ptr_types' = ptr_types
      /\ get_function' = get_function /\ get_parameter' = get_parameter
  BY DEF readerVars
<1>2. DescribedBy' = DescribedBy
  BY DEF DescribedBy, FunctionAt, ParameterAt, Attribute, ParametersAfter, Subprograms, Nth, Entry, Token
<1>3. \A tag : Current(tag)' <=> Current(tag)
  BY <1>1 DEF Current, Entry
<1>4. (FunctionsRead)' <=> FunctionsRead
  BY <1>1, <1>2 DEF FunctionsRead, Described
<1>5. /\ Offsets(output)' = Offsets(output) /\ (AllScanned(output)' <=> AllScanned(output))
      /\ TypesUpTo(output, position)' = TypesUpTo(output, position)
      /\ Known(ptr_types)' = Known(ptr_types)
  BY <1>1 DEF Offsets, AllScanned, Pointers, TypesUpTo, IsPointer, Entry, Known
<1> QED  BY <1>1, <1>3, <1>4, <1>5 DEF Reader

LEMMA RegistryUnchanged ==
  ASSUME Heap, Registry, UNCHANGED << heap, datastructs >>
  PROVE  Heap' /\ Registry'
<1>1. \A i : NumberOf(i)' = NumberOf(i) /\ (Followed(i)' <=> Followed(i))
  BY DEF NumberOf, Followed
<1>2. Heap'
  BY DEF Heap
<1>3. Registry'
  BY <1>1 DEF Registry
<1> QED  BY <1>2, <1>3

LEMMA ObjectsUnchanged ==
  ASSUME Heap, Registry, FunctionArguments, UNCHANGED objectVars
  PROVE  Heap' /\ Registry' /\ FunctionArguments'
<1>1. /\ heap' = heap /\ datastructs' = datastructs
      /\ g_fnargs' = g_fnargs /\ passed' = passed
  BY DEF objectVars
<1>2. Heap' /\ Registry'
  BY <1>1, RegistryUnchanged
<1>3. Failed' = Failed
  BY <1>1 DEF Failed, NumberOf, Followed
<1> QED  BY <1>1, <1>2, <1>3 DEF FunctionArguments, ArgumentsMapped

LEMMA InitEstablishes == ASSUME Init PROVE IInv
<1>1. Reader
  <2>1. /\ output \in Outputs /\ position = 0 /\ get_function = FALSE /\ get_parameter = FALSE
        /\ functions = << >> /\ ptr_types = << >>
    BY DEF Init, ReaderInit
  <2>2. Len(output) \in Nat
    BY <2>1, OutputsAssumption
  <2>3. functions = Described
    <3>1. DescribedBy[output][0] = FunctionsIn(output, 0)
      BY <2>1, <2>2, DescribedIs
    <3>2. Subprograms(output, 0) = {} /\ Cardinality({}) = 0
      BY FS_EmptySet DEF Subprograms
    <3>3. [k \in 1 .. 0 |-> FunctionAt(output, Nth({}, k), 0)] = << >>
      OBVIOUS
    <3>4. FunctionsIn(output, 0) = [k \in 1 .. 0 |-> FunctionAt(output, Nth({}, k), 0)]
      BY <3>2 DEF FunctionsIn
    <3> QED  BY <2>1, <3>1, <3>3, <3>4 DEF Described
  <2>4. ~Current("subprogram") /\ ~Current("formal_parameter")
    BY <2>1 DEF Current
  <2>5. TypesUpTo(output, position) = {} /\ Known(ptr_types) = {}
    BY <2>1 DEF TypesUpTo, Known
  <2> QED  BY <2>1, <2>2, <2>3, <2>4, <2>5 DEF Reader, FunctionsRead
<1>2. Loader
  <2>1. DOMAIN inspected = {} /\ loaded = {} /\ replaced = {}
    BY DEF Init
  <2> QED  BY <2>1 DEF Loader
<1>3. heap = << >> /\ datastructs = << NewDatastruct(0, 0) >> /\ g_fnargs = {} /\ passed = {}
  BY DEF Init
<1>4. Heap
  BY <1>3 DEF Heap
<1>5. Registry
  <2>1. NumberOf(0) = 0
    <3>1. {j \in 1 .. 0 : Followed(j)} = {}
      OBVIOUS
    <3> QED  BY <3>1, FS_EmptySet DEF NumberOf
  <2>2. NewDatastruct(0, 0) = [address |-> 0, nbytes |-> 0, is_freed |-> FALSE]
    BY DEF NewDatastruct
  <2>3. datastructs \in Seq([address : Nat, nbytes : Nat, is_freed : BOOLEAN])
        /\ Len(datastructs) = 1 /\ datastructs[1].nbytes = 0
    <3> DEFINE ds == [address |-> 0, nbytes |-> 0, is_freed |-> FALSE]
    <3>1. ds \in [address : Nat, nbytes : Nat, is_freed : BOOLEAN] /\ ds.nbytes = 0
      OBVIOUS
    <3>2. datastructs = << ds >>
      BY <1>3, <2>2
    <3> HIDE DEF ds
    <3> QED  BY <3>1, <3>2
  <2>4. Len(heap) = 0 /\ DOMAIN heap = {}
    BY <1>3
  <2> QED  BY <2>1, <2>3, <2>4 DEF Registry
<1>6. FunctionArguments
  BY <1>3 DEF FunctionArguments, ArgumentsMapped
<1> QED  BY <1>1, <1>2, <1>4, <1>5, <1>6 DEF IInv

LEMMA NextKeeps == ASSUME IInv, Next PROVE IInv'
<1> USE DEF IInv
<1>1. ASSUME NEW img \in Image, BeginImageLoad(img) PROVE IInv'
  <2>1. UNCHANGED << readerVars, objectVars, accessVars >>
    BY <1>1 DEF BeginImageLoad
  <2> QED  BY <1>1, <2>1, ReaderUnchanged, BeginImageLoadKeepsLoader, ObjectsUnchanged
<1>2. ASSUME ReadDebug PROVE IInv'
  <2>1. ReadLine /\ UNCHANGED << loadVars, objectVars, accessVars >>
    BY <1>2 DEF ReadDebug
  <2> QED  BY <1>2, <2>1, ReadLineKeepsReader, ReadDebugKeepsLoader, ObjectsUnchanged
<1>3. ASSUME NEW rtn \in Routine, OpenRoutine(rtn) PROVE IInv'
  <2>1. UNCHANGED << readerVars, objectVars, accessVars >>
    BY <1>3 DEF OpenRoutine
  <2> QED  BY <1>3, <2>1, ReaderUnchanged, OpenRoutineKeepsLoader, ObjectsUnchanged
<1>4. ASSUME EndImageLoad PROVE IInv'
  <2>1. UNCHANGED << readerVars, objectVars, accessVars >>
    BY <1>4 DEF EndImageLoad
  <2> QED  BY <1>4, <2>1, ReaderUnchanged, EndImageLoadKeepsLoader, ObjectsUnchanged
<1>5. ASSUME NEW address \in Address \cup {Null}, NEW nbytes \in Size, NEW source \in BOOLEAN,
             Malloc(address, nbytes, source)
      PROVE  IInv'
  <2>1. UNCHANGED << readerVars, loadVars, accessVars >>
    BY <1>5 DEF Malloc
  <2> QED  BY <1>5, <2>1, ReaderUnchanged, LoaderUnchanged, MallocKeepsObjects
<1>6. ASSUME NEW address \in Address \cup {Null}, Free(address) PROVE IInv'
  <2>1. UNCHANGED << readerVars, loadVars, accessVars >>
    BY <1>6 DEF Free
  <2> QED  BY <1>6, <2>1, ReaderUnchanged, LoaderUnchanged, FreeKeepsObjects
<1>7. ASSUME NEW rtn \in DOMAIN inspected, NEW args \in [Arguments(rtn) -> Pointer],
             EnterRoutine(rtn, args)
      PROVE  IInv'
  <2>1. UNCHANGED << readerVars, loadVars, accessVars >> /\ UNCHANGED << heap, datastructs >>
    BY <1>7 DEF EnterRoutine
  <2> QED  BY <1>7, <2>1, ReaderUnchanged, LoaderUnchanged, RegistryUnchanged,
              EnterRoutineKeepsArguments
<1>8. ASSUME NEW ins \in DOMAIN Ins, Instruction(ins) PROVE IInv'
  <2>1. UNCHANGED << readerVars, loadVars, objectVars >>
    BY <1>8 DEF Instruction
  <2> QED  BY <1>8, <2>1, ReaderUnchanged, LoaderUnchanged, ObjectsUnchanged
<1>9. ASSUME NEW ins \in DOMAIN Ins, NEW predicate \in BOOLEAN, Execute(ins, predicate) PROVE IInv'
  <2>1. UNCHANGED << readerVars, loadVars, objectVars >>
    BY <1>9 DEF Execute
  <2> QED  BY <1>9, <2>1, ReaderUnchanged, LoaderUnchanged, ObjectsUnchanged
<1>10. ASSUME Flush \/ StartProfile \/ StopProfile PROVE IInv'
  <2>1. UNCHANGED << readerVars, loadVars, objectVars >>
    BY <1>10 DEF Flush, StartProfile, StopProfile
  <2> QED  BY <1>10, <2>1, ReaderUnchanged, LoaderUnchanged, ObjectsUnchanged
<1> QED  BY <1>1, <1>2, <1>3, <1>4, <1>5, <1>6, <1>7, <1>8, <1>9, <1>10 DEF Next

LEMMA StutterKeeps == ASSUME IInv, UNCHANGED vars PROVE IInv'
<1>1. UNCHANGED << readerVars, loadVars >> /\ UNCHANGED objectVars /\ UNCHANGED accessVars
  BY DEF vars
<1> QED  BY <1>1, ReaderUnchanged, LoaderUnchanged, ObjectsUnchanged DEF IInv

\* Each image, output and call keeps the reader, the instrumentation, the
\* registry and the argument map in step.
THEOREM Invariance == Spec => []IInv
<1>1. Init => IInv
  BY InitEstablishes
<1>2. IInv /\ [Next]_vars => IInv'
  BY NextKeeps, StutterKeeps
<1> QED  BY <1>1, <1>2, PTL DEF Spec

\* read_debug: after each line the functions known are those described so far.
THEOREM FunctionsHold == Spec => []FunctionsRead
<1>1. IInv => FunctionsRead
  BY DEF IInv, Reader
<1> QED  BY <1>1, Invariance, PTL

LEMMA InspectsPointers == ASSUME Reader, Loader PROVE InspectsPointerArguments
<1> SUFFICES ASSUME NEW rtn \in DOMAIN inspected
             PROVE  LET named == {k \in DOMAIN Described :
                                    Undecorated[Described[k].name] = Undecorated[BeforeDot[rtn]]}
                    IN  \A k \in named : named = {k} =>
                          /\ CallsForTypes(Described[k], PointerTypes(output)) \subseteq inspected[rtn]
                          /\ (\A i \in Pointers(output) : output[i].depth = 1) =>
                                inspected[rtn] = CallsForTypes(Described[k], PointerTypes(output))
  BY DEF InspectsPointerArguments
<1> DEFINE named == {k \in DOMAIN Described :
                       Undecorated[Described[k].name] = Undecorated[BeforeDot[rtn]]}
<1> SUFFICES ASSUME NEW k \in named, named = {k}
             PROVE  /\ CallsForTypes(Described[k], PointerTypes(output)) \subseteq inspected[rtn]
                    /\ AllScanned(output) =>
                         inspected[rtn] = CallsForTypes(Described[k], PointerTypes(output))
  BY DEF AllScanned
<1> DEFINE f == Described[k]
<1>1. functions = Described /\ position = Len(output) /\ output \in Outputs /\ position \in 0 .. Len(output)
  BY DEF Reader, Loader, FunctionsRead
<1>2. inspected[rtn] = inspect_ptr_args(rtn)
  BY DEF Loader
<1>3. FoundFor(rtn) = {k}
  BY <1>1 DEF FoundFor
<1>4. (CHOOSE i \in FoundFor(rtn) : \A j \in FoundFor(rtn) : i <= j) = k
  <2>1. DOMAIN Described \subseteq Nat
    <3>1. Described = FunctionsIn(output, position)
      BY <1>1, DescribedIs DEF Described
    <3> QED  BY <3>1 DEF FunctionsIn
  <2>2. k \in Nat /\ k <= k
    BY <2>1
  <2> HIDE DEF named
  <2> QED  BY <1>3, <2>2
<1>5. /\ PointerTypes(output) \subseteq Known(ptr_types)
      /\ AllScanned(output) => Known(ptr_types) = PointerTypes(output)
  <2>1. PointerTypes(output) = TypesUpTo(output, position)
    BY <1>1 DEF PointerTypes, Pointers, TypesUpTo, IsPointer
  <2> QED  BY <2>1 DEF Reader
<1>6. \A type : is_ptr_type(type) <=> type \in Known(ptr_types)
  <2>1. DOMAIN ptr_types = 1 .. Len(ptr_types)
    BY LenProperties DEF Reader
  <2> QED  BY <2>1 DEF is_ptr_type, Known
<1>7. inspect_ptr_args(rtn) = CallsForTypes(f, Known(ptr_types))
  <2>1. inspect_ptr_args(rtn) =
          {[arg |-> p, fn |-> f.name, var |-> f.parameters[p].name] :
             p \in {q \in DOMAIN f.parameters : is_ptr_type(f.parameters[q].type)}}
    <3> HIDE DEF named
    <3> QED  BY <1>1, <1>3, <1>4 DEF inspect_ptr_args
  <2>2. {q \in DOMAIN f.parameters : is_ptr_type(f.parameters[q].type)} =
          {q \in DOMAIN f.parameters : f.parameters[q].type \in Known(ptr_types)}
    <3> HIDE DEF f
    <3> QED  BY <1>6
  <2> HIDE DEF f
  <2> QED  BY <2>1, <2>2 DEF CallsForTypes
<1>8. CallsForTypes(f, PointerTypes(output)) \subseteq CallsForTypes(f, Known(ptr_types))
  <2> HIDE DEF f
  <2> QED  BY <1>5 DEF CallsForTypes
<1> HIDE DEF f
<1> QED  BY <1>2, <1>5, <1>7, <1>8 DEF f

\* inspect_ptr_args: every argument whose type is a pointer at depth 1 gets its
\* call of Inspector, and no other does if all pointer types are at depth 1.
THEOREM PointersHold == Spec => []InspectsPointerArguments
<1>1. IInv => InspectsPointerArguments
  BY InspectsPointers DEF IInv
<1> QED  BY <1>1, Invariance, PTL

\* Inspector: the argument map holds what was passed, and only failed
\* allocations beyond it.
THEOREM ArgumentsHold == Spec => []ArgumentsMapped
<1>1. IInv => ArgumentsMapped
  BY DEF IInv, FunctionArguments
<1> QED  BY <1>1, Invariance, PTL
=============================================================================
