--------------------------- MODULE RegionsProofs ---------------------------
(***************************************************************************)
(* For every set of regions, buckets and objects and all bounds: a         *)
(* region's vectors stay aligned with the caches, and its numbers are      *)
(* those of RegionCount.                                                   *)
(***************************************************************************)
EXTENDS Regions, SumProofs, SequenceTheorems

Cache == [ds_nums : SUBSET Nat, count : Counts]
RegionState ==
  [thread_count : 0 .. Modulus - 1, buckets : Seq(Counts), buckets_entry : Seq(Counts)]

Drift == -MaxSurplus .. MaxDepth

\* A region with depth entries more than exits, and what on_region_entry left
\* in it.
Fits(r, depth, cs) ==
  /\ r \in RegionState
  /\ Len(r.buckets) = Len(cs)
  /\ Len(r.buckets_entry) = Len(cs)
  /\ Signed(r.thread_count) = depth /\ depth \in Drift
  /\ depth > 0 => \A i \in 1 .. Len(cs), c \in Counter :
                    r.buckets_entry[i][c] <= cs[i].count[c]

RegionsFit ==
  \A p \in DOMAIN regions : Fits(regions[p], Depth(p), cachesims)

IInv == TypeOK /\ RegionsFit

-----------------------------------------------------------------------------
(* Sequences *)

\* A function on an initial segment of the numbers is a sequence.
LEMMA SeqOf ==
  ASSUME NEW S, NEW n \in Nat, NEW f \in [1 .. n -> S]
  PROVE  f \in Seq(S) /\ Len(f) = n
<1>1. f \in Seq(S)
  BY SeqDef
<1> QED  BY <1>1, LenProperties

\* What the constructor and register_datastruct put into a region.
LEMMA ZerosFacts ==
  ASSUME NEW n \in Nat
  PROVE  /\ Zeros(n) \in Seq(Counts) /\ Len(Zeros(n)) = n
         /\ \A i \in 1 .. n : Zeros(n)[i] = Zero
         /\ Zero \in Counts
<1>1. Zero \in Counts
  BY DEF Zero, Counts
<1>2. Zeros(n) \in [1 .. n -> Counts] /\ \A i \in 1 .. n : Zeros(n)[i] = Zero
  BY <1>1 DEF Zeros
<1> QED  BY <1>1, <1>2, SeqOf

\* The caches that combine adds.
LEMMA PairsType ==
  ASSUME NEW k \in Nat, NEW S \in SUBSET Nat, IsFiniteSet(S)
  PROVE  Pairs(k, S) \in Seq(SUBSET Nat)
<1>1. Cardinality(S) \in Nat
  BY FS_CardinalityType
<1>2. Pairs(k, S) \in [1 .. Cardinality(S) -> SUBSET Nat]
  BY DEF Pairs
<1> QED  BY <1>1, <1>2, SeqOf

\* register_datastruct adds a number of caches.
LEMMA AddedCachesType ==
  ASSUME NEW ds \in Seq([address : Nat, nbytes : Nat, is_freed : BOOLEAN]), Len(ds) > 0
  PROVE  AddedCaches(ds) \in Seq(SUBSET Nat) /\ Len(AddedCaches(ds)) > 0
<1> DEFINE k == Len(ds) - 1
           S == Large(ds, 1 .. k - 1)
<1>1. k \in Nat
  OBVIOUS
<1>2. IsFiniteSet(S) /\ S \subseteq Nat
  <2>1. S \subseteq 1 .. k - 1
    BY DEF Large
  <2>2. IsFiniteSet(1 .. k - 1)
    BY <1>1, FS_Interval
  <2> QED  BY <2>1, <2>2, <1>1, FS_Subset
<1>5. Combine(ds) \in Seq(SUBSET Nat)
  BY <1>1, <1>2, PairsType DEF Combine
<1>6. << IF k > NoDatastruct THEN {k} ELSE {} >> \in Seq(SUBSET Nat)
  BY <1>1
<1> QED  BY <1>5, <1>6, ConcatProperties DEF AddedCaches

\* What the action of the allocation functions does to the caches: those there
\* are keep their counters, the new ones start with zero.
LEMMA CachesAdded ==
  ASSUME TypeOK, NEW nbytes \in Size, RegisterDatastruct(nbytes)
  PROVE  /\ datastructs' \in Seq([address : Nat, nbytes : Nat, is_freed : BOOLEAN])
         /\ Len(AddedCaches(datastructs')) \in Nat \ {0}
         /\ cachesims' \in Seq(Cache)
         /\ Len(cachesims') = Len(cachesims) + Len(AddedCaches(datastructs'))
         /\ \A i \in 1 .. Len(cachesims) : cachesims'[i] = cachesims[i]
         /\ \A i \in Len(cachesims) + 1 .. Len(cachesims') : cachesims'[i].count = Zero
<1> DEFINE added == AddedCaches(datastructs')
           new == [i \in 1 .. Len(added) |-> [ds_nums |-> added[i], count |-> Zero]]
<1>1. NewDatastruct(0, nbytes) \in [address : Nat, nbytes : Nat, is_freed : BOOLEAN]
  BY RegionAssumption DEF NewDatastruct
<1>2. /\ datastructs' \in Seq([address : Nat, nbytes : Nat, is_freed : BOOLEAN])
      /\ Len(datastructs') = Len(datastructs) + 1
      /\ Len(datastructs) \in Nat
  BY <1>1 DEF TypeOK, RegisterDatastruct
<1>3. added \in Seq(SUBSET Nat) /\ Len(added) \in Nat \ {0}
  BY <1>2, AddedCachesType
<1>4. new \in [1 .. Len(added) -> Cache] /\ \A i \in 1 .. Len(added) : new[i].count = Zero
  <2>1. \A i \in 1 .. Len(added) : added[i] \in SUBSET Nat
    BY <1>3
  <2>2. Zero \in Counts
    BY DEF Zero, Counts
  <2> HIDE DEF added
  <2> QED  BY <2>1, <2>2 DEF Cache
<1>5. new \in Seq(Cache) /\ Len(new) = Len(added)
  BY <1>3, <1>4, SeqOf
<1>6. cachesims \in Seq(Cache)
  BY DEF TypeOK, Cache
<1>7. cachesims' = cachesims \o new
  BY DEF RegisterDatastruct
<1> HIDE DEF new, added
<1>8. /\ cachesims \o new \in Seq(Cache)
      /\ Len(cachesims \o new) = Len(cachesims) + Len(new)
      /\ \A i \in 1 .. Len(cachesims) + Len(new) :
           (cachesims \o new)[i] = IF i <= Len(cachesims) THEN cachesims[i]
                                   ELSE new[i - Len(cachesims)]
  BY <1>5, <1>6, ConcatProperties
<1>9. Len(cachesims) \in Nat /\ Len(new) \in Nat
  BY <1>5, <1>6
<1>10. \A i \in Len(cachesims) + 1 .. Len(cachesims') : cachesims'[i].count = Zero
  <2>1. SUFFICES ASSUME NEW i \in Len(cachesims) + 1 .. Len(cachesims')
                 PROVE  cachesims'[i].count = Zero
    OBVIOUS
  <2>2. i - Len(cachesims) \in 1 .. Len(added)
    BY <1>5, <1>7, <1>8, <1>9
  <2>3. cachesims'[i] = new[i - Len(cachesims)]
    BY <1>7, <1>8, <1>9, <2>2
  <2> QED  BY <1>4, <2>2, <2>3
<1>11. \A i \in 1 .. Len(cachesims) : cachesims'[i] = cachesims[i]
  BY <1>7, <1>8, <1>9
<1> QED  BY <1>2, <1>3, <1>5, <1>7, <1>8, <1>10, <1>11 DEF added

\* The snapshot of on_region_entry.
LEMMA SnapshotFacts ==
  ASSUME TypeOK
  PROVE  /\ Len(cachesims) \in Nat
         /\ Snapshot \in Seq(Counts) /\ Len(Snapshot) = Len(cachesims)
         /\ \A i \in 1 .. Len(cachesims) :
              Snapshot[i] = cachesims[i].count /\ cachesims[i].count \in Counts
<1>1. Len(cachesims) \in Nat /\ \A i \in 1 .. Len(cachesims) : cachesims[i].count \in Counts
  <2>1. cachesims \in Seq(Cache)
    BY DEF TypeOK, Cache
  <2>2. \A i \in 1 .. Len(cachesims) : cachesims[i] \in Cache
    BY <2>1, ElementOfSeq
  <2> QED  BY <2>1, <2>2 DEF Cache
<1>2. Snapshot \in [1 .. Len(cachesims) -> Counts]
  BY <1>1 DEF Snapshot
<1>3. \A i \in 1 .. Len(cachesims) : Snapshot[i] = cachesims[i].count
  BY DEF Snapshot
<1> QED  BY <1>1, <1>2, <1>3, SeqOf

\* thread_count_ represents the signed number, and 1 and 0 are where
\* on_region_entry and on_region_exit look at the caches.
LEMMA CountFacts ==
  ASSUME NEW n \in 0 .. Modulus - 1, NEW d \in Drift, Signed(n) = d
  PROVE  /\ d < MaxDepth =>
              /\ Incr(n) \in 0 .. Modulus - 1 /\ Signed(Incr(n)) = d + 1 /\ d + 1 \in Drift
              /\ d = 0 => ~ (Incr(n) > 1)
              /\ d > 0 => Incr(n) > 1
         /\ d > -MaxSurplus =>
              /\ Decr(n) \in 0 .. Modulus - 1 /\ Signed(Decr(n)) = d - 1 /\ d - 1 \in Drift
              /\ Decr(n) > 0 <=> d # 1
BY RegionAssumption DEF Drift, Signed, Incr, Decr

\* The constructor of a region.
LEMMA NewRegionFits ==
  ASSUME TypeOK
  PROVE  Fits(NewRegion, 0, cachesims)
<1>1. Len(cachesims) \in Nat
  BY DEF TypeOK
<1> DEFINE z == Zeros(Len(cachesims))
<1>2. z \in Seq(Counts) /\ Len(z) = Len(cachesims)
  BY <1>1, ZerosFacts
<1>3. 0 \in 0 .. Modulus - 1 /\ Signed(0) = 0 /\ 0 \in Drift
  BY RegionAssumption DEF Signed, Drift
<1>4. NewRegion = [thread_count |-> 0, buckets |-> z, buckets_entry |-> z]
  BY DEF NewRegion
<1> HIDE DEF z
<1>5. NewRegion \in RegionState
  BY <1>2, <1>3, <1>4 DEF RegionState
<1> QED  BY <1>2, <1>3, <1>4, <1>5 DEF Fits

\* on_region_entry: one entry more, and a snapshot when the region is entered.
LEMMA EntryFits ==
  ASSUME TypeOK, NEW d \in Drift, d < MaxDepth, NEW r, Fits(r, d, cachesims)
  PROVE  /\ Fits(OnRegionEntry(r), d + 1, cachesims)
         /\ OnRegionEntry(r).buckets = r.buckets
         /\ d = 0 => OnRegionEntry(r).buckets_entry = Snapshot
         /\ d > 0 => OnRegionEntry(r).buckets_entry = r.buckets_entry
<1> DEFINE A == 0 .. Modulus - 1
           B == Seq(Counts)
           n == Incr(r.thread_count)
<1>1. r \in RegionState /\ r.thread_count \in A /\ Signed(r.thread_count) = d
  BY DEF Fits, RegionState
<1>2. /\ n \in A /\ Signed(n) = d + 1 /\ d + 1 \in Drift
      /\ d = 0 => ~ (n > 1)
      /\ d > 0 => n > 1
  BY <1>1, CountFacts
<1>3. RegionState = [thread_count : A, buckets : B, buckets_entry : B] /\ Snapshot \in B
  BY SnapshotFacts DEF RegionState
<1>4. OnRegionEntry(r) = IF n > 1 THEN [r EXCEPT !.thread_count = n]
                         ELSE [r EXCEPT !.thread_count = n, !.buckets_entry = Snapshot]
  BY <1>1 DEF OnRegionEntry, RegionState
<1> HIDE DEF A, B, n
<1>5. CASE n > 1
  <2>1. /\ OnRegionEntry(r) \in RegionState
        /\ OnRegionEntry(r).thread_count = n
        /\ OnRegionEntry(r).buckets = r.buckets
        /\ OnRegionEntry(r).buckets_entry = r.buckets_entry
    BY <1>1, <1>2, <1>3, <1>4, <1>5
  <2>2. d # 0 /\ (d + 1 > 0 => d > 0)
    BY <1>2, <1>5 DEF Drift
  <2> QED  BY <1>2, <2>1, <2>2 DEF Fits
<1>6. CASE ~ (n > 1)
  <2>1. /\ OnRegionEntry(r) \in RegionState
        /\ OnRegionEntry(r).thread_count = n
        /\ OnRegionEntry(r).buckets = r.buckets
        /\ OnRegionEntry(r).buckets_entry = Snapshot
    BY <1>1, <1>2, <1>3, <1>4, <1>6
  <2>2. \A i \in 1 .. Len(cachesims), c \in Counter : Snapshot[i][c] <= cachesims[i].count[c]
    BY SnapshotFacts DEF Counts
  <2> QED  BY <1>2, <1>6, <2>1, <2>2, SnapshotFacts DEF Fits
<1> QED  BY <1>5, <1>6

\* on_region_exit: one entry less, and the counting when it was the last.
LEMMA ExitFits ==
  ASSUME TypeOK, NEW d \in Drift, d > -MaxSurplus, NEW r, Fits(r, d, cachesims)
  PROVE  /\ Fits(OnRegionExit(r), d - 1, cachesims)
         /\ OnRegionExit(r).buckets = IF d = 1 THEN AddSub(r) ELSE r.buckets
         /\ OnRegionExit(r).buckets_entry = r.buckets_entry
<1> DEFINE A == 0 .. Modulus - 1
           B == Seq(Counts)
           n == Decr(r.thread_count)
<1>1. r \in RegionState /\ r.thread_count \in A /\ Signed(r.thread_count) = d
  BY DEF Fits, RegionState
<1>2. /\ n \in A /\ Signed(n) = d - 1 /\ d - 1 \in Drift
      /\ n > 0 <=> d # 1
  BY <1>1, CountFacts
<1>3. RegionState = [thread_count : A, buckets : B, buckets_entry : B]
  BY DEF RegionState
<1>4. OnRegionExit(r) = IF n > 0 THEN [r EXCEPT !.thread_count = n]
                        ELSE [r EXCEPT !.thread_count = n, !.buckets = AddSub(r)]
  BY <1>1 DEF OnRegionExit, RegionState
<1> HIDE DEF A, B, n
<1>5. CASE d = 1
  <2>1. ~ (n > 0)
    BY <1>2, <1>5
  <2>2. AddSub(r) \in [1 .. Len(cachesims) -> Counts]
    <3>1. \A i \in 1 .. Len(cachesims), c \in Counter :
            /\ r.buckets[i][c] \in Nat /\ r.buckets_entry[i][c] \in Nat
            /\ cachesims[i].count[c] \in Nat
            /\ r.buckets_entry[i][c] <= cachesims[i].count[c]
      <4>1. r.buckets \in Seq(Counts) /\ r.buckets_entry \in Seq(Counts)
        BY <1>1 DEF RegionState
      <4>2. Len(r.buckets) = Len(cachesims) /\ Len(r.buckets_entry) = Len(cachesims)
        BY DEF Fits
      <4>3. \A i \in 1 .. Len(cachesims) : r.buckets[i] \in Counts /\ r.buckets_entry[i] \in Counts
        BY <4>1, <4>2, ElementOfSeq
      <4>4. \A i \in 1 .. Len(cachesims), c \in Counter :
              r.buckets_entry[i][c] <= cachesims[i].count[c]
        BY <1>5 DEF Fits
      <4> QED  BY <4>3, <4>4, SnapshotFacts DEF Counts
    <3>2. \A i \in 1 .. Len(cachesims), c \in Counter :
            r.buckets[i][c] + cachesims[i].count[c] - r.buckets_entry[i][c] \in Nat
      <4>1. \A a, b, e \in Nat : e <= b => a + b - e \in Nat
        OBVIOUS
      <4> QED  BY <3>1, <4>1
    <3> QED  BY <3>2 DEF AddSub, Counts
  <2>3. AddSub(r) \in Seq(Counts) /\ Len(AddSub(r)) = Len(cachesims)
    BY <2>2, SnapshotFacts, SeqOf
  <2>4. /\ OnRegionExit(r) \in RegionState
        /\ OnRegionExit(r).thread_count = n
        /\ OnRegionExit(r).buckets = AddSub(r)
        /\ OnRegionExit(r).buckets_entry = r.buckets_entry
    <3>1. AddSub(r) \in B
      BY <2>3 DEF B
    <3> QED  BY <1>1, <1>2, <1>3, <1>4, <2>1, <3>1
  <2> QED  BY <1>2, <1>5, <2>3, <2>4 DEF Fits
<1>6. CASE d # 1
  <2>1. /\ OnRegionExit(r) \in RegionState
        /\ OnRegionExit(r).thread_count = n
        /\ OnRegionExit(r).buckets = r.buckets
        /\ OnRegionExit(r).buckets_entry = r.buckets_entry
    BY <1>1, <1>2, <1>3, <1>4, <1>6
  <2>2. d - 1 > 0 => d > 0
    BY DEF Drift
  <2> QED  BY <1>2, <1>6, <2>1, <2>2 DEF Fits
<1> QED  BY <1>5, <1>6

-----------------------------------------------------------------------------
(* The invariant *)

\* The first cache is there before any region.
LEMMA InitFits == Init => IInv
<1> SUFFICES ASSUME Init PROVE IInv
  OBVIOUS
<1>1. Zero \in Counts
  BY ZerosFacts
<1>2. datastructs \in Seq([address : Nat, nbytes : Nat, is_freed : BOOLEAN])
  BY DEF Init, NewDatastruct
<1>3. cachesims \in Seq([ds_nums : SUBSET Nat, count : Counts])
  BY <1>1 DEF Init
<1>4. DOMAIN regions = {}
  BY DEF Init
<1>5. /\ inside \in [Ptr -> 0 .. MaxDepth]
      /\ total \in [Row -> Nat] /\ skipped \in [Row -> Nat]
      /\ unpaired \in [missed : SUBSET Ptr, surplus : SUBSET Ptr]
  BY RegionAssumption DEF Init
<1> QED  BY <1>2, <1>3, <1>4, <1>5 DEF IInv, TypeOK, RegionsFit

\* The counters of the caches after an access.
LEMMA CountersGrow ==
  ASSUME TypeOK, NEW ds_num \in Nat, NEW bucket \in [1 .. Len(cachesims) -> Bucket],
         Access(ds_num, bucket)
  PROVE  /\ cachesims' \in Seq(Cache) /\ Len(cachesims') = Len(cachesims)
         /\ \E hit \in [1 .. Len(cachesims) -> Counter] : \A i \in 1 .. Len(cachesims) :
              /\ cachesims'[i].count \in Counts
              /\ \A c \in Counter : cachesims'[i].count[c] =
                   IF c = hit[i] THEN cachesims[i].count[c] + 1 ELSE cachesims[i].count[c]
<1> DEFINE hit == [i \in 1 .. Len(cachesims) |->
                     << PartitionFor(cachesims[i], ds_num), bucket[i] >>]
           next(i) == [cachesims[i] EXCEPT !.count[hit[i]] = @ + 1]
<1>1. cachesims \in Seq(Cache) /\ Len(cachesims) \in Nat
  BY DEF TypeOK, Cache
<1>2. \A i \in 1 .. Len(cachesims) : cachesims[i] \in Cache
  BY <1>1, ElementOfSeq
<1>3. hit \in [1 .. Len(cachesims) -> Counter]
  BY DEF Counter, PartitionFor
<1>4. cachesims' = [i \in 1 .. Len(cachesims) |-> next(i)]
  BY DEF Access
<1> HIDE DEF hit
<1>5. ASSUME NEW i \in 1 .. Len(cachesims)
      PROVE  /\ next(i) \in Cache
             /\ next(i).count \in Counts
             /\ \A c \in Counter : next(i).count[c] =
                  IF c = hit[i] THEN cachesims[i].count[c] + 1 ELSE cachesims[i].count[c]
  <2>1. SUFFICES ASSUME NEW k \in Cache, NEW h \in Counter
                 PROVE  LET n == [k EXCEPT !.count[h] = @ + 1]
                        IN  /\ n \in Cache /\ n.count \in Counts
                            /\ \A c \in Counter : n.count[c] =
                                 IF c = h THEN k.count[c] + 1 ELSE k.count[c]
    BY <1>2, <1>3, <1>5
  <2>2. k.count \in Counts /\ k.ds_nums \in SUBSET Nat
    BY DEF Cache
  <2>3. [k.count EXCEPT ![h] = @ + 1] \in Counts
    BY <2>2 DEF Counts
  <2> QED  BY <2>2, <2>3 DEF Cache, Counts
<1> HIDE DEF next
<1>6. cachesims' \in [1 .. Len(cachesims) -> Cache]
  BY <1>4, <1>5
<1>7. cachesims' \in Seq(Cache) /\ Len(cachesims') = Len(cachesims)
  BY <1>1, <1>6, SeqOf
<1>8. \A i \in 1 .. Len(cachesims) : cachesims'[i] = next(i)
  BY <1>4
<1>9. \A i \in 1 .. Len(cachesims) :
        /\ cachesims'[i].count \in Counts
        /\ \A c \in Counter : cachesims'[i].count[c] =
             IF c = hit[i] THEN cachesims[i].count[c] + 1 ELSE cachesims[i].count[c]
  BY <1>5, <1>8
<1> QED  BY <1>3, <1>7, <1>9

\* An access is added to some of the rows' numbers.
LEMMA CountingType ==
  ASSUME NEW history \in [Row -> Nat]
  PROVE  Counting(history) \in [Row -> Nat]
<1> DEFINE more(k) == IF Active(k) THEN 1 ELSE 0
<1>1. \A k \in Row : more(k) \in Nat
  OBVIOUS
<1> HIDE DEF more
<1>2. [k \in Row |-> history[k] + more(k)] \in [Row -> Nat]
  BY <1>1
<1> QED  BY <1>2 DEF Counting, more

\* An access leaves every region as its thread count calls for.
LEMMA AccessFits ==
  ASSUME IInv, NEW ds_num \in Nat, NEW bucket \in [1 .. Len(cachesims) -> Bucket],
         Access(ds_num, bucket)
  PROVE  IInv'
<1> USE DEF IInv
<1>1. TypeOK'
  <2>1. cachesims' \in Seq([ds_nums : SUBSET Nat, count : Counts])
    BY CountersGrow DEF Cache
  <2>2. total' \in [Row -> Nat]
    BY CountingType DEF Access, TypeOK
  <2> QED  BY <2>1, <2>2 DEF Access, TypeOK
<1>2. ASSUME NEW r, NEW d, Fits(r, d, cachesims)
      PROVE  Fits(r, d, cachesims')
  <2>1. \A i \in 1 .. Len(cachesims), c \in Counter :
          cachesims[i].count[c] <= cachesims'[i].count[c]
    <3>1. PICK hit \in [1 .. Len(cachesims) -> Counter] : \A i \in 1 .. Len(cachesims) :
              /\ cachesims'[i].count \in Counts
              /\ \A c \in Counter : cachesims'[i].count[c] =
                   IF c = hit[i] THEN cachesims[i].count[c] + 1 ELSE cachesims[i].count[c]
      BY CountersGrow
    <3>2. \A i \in 1 .. Len(cachesims), c \in Counter : cachesims[i].count[c] \in Nat
      BY SnapshotFacts DEF Counts
    <3> QED  BY <3>1, <3>2
  <2>2. Len(cachesims') = Len(cachesims)
    BY CountersGrow
  <2>3. ASSUME d > 0, NEW i \in 1 .. Len(cachesims), NEW c \in Counter
        PROVE  r.buckets_entry[i][c] <= cachesims'[i].count[c]
    <3>1. r.buckets_entry \in Seq(Counts) /\ Len(r.buckets_entry) = Len(cachesims)
      BY <1>2 DEF Fits, RegionState
    <3>2. r.buckets_entry[i] \in Counts
      BY <3>1, ElementOfSeq
    <3>3. cachesims[i].count \in Counts /\ cachesims'[i].count \in Counts
      BY SnapshotFacts, CountersGrow DEF Counts
    <3>4. r.buckets_entry[i][c] <= cachesims[i].count[c]
      BY <1>2, <2>3 DEF Fits
    <3> QED  BY <2>1, <3>2, <3>3, <3>4 DEF Counts
  <2> QED  BY <1>2, <2>2, <2>3 DEF Fits
<1>3. regions' = regions
  BY DEF Access
<1> QED  BY <1>1, <1>2, <1>3 DEF RegionsFit, Depth

\* Region::register_datastruct extends a region by what the caches are.
LEMMA RegisterFits ==
  ASSUME IInv, NEW nbytes \in Size, RegisterDatastruct(nbytes)
  PROVE  /\ IInv'
         /\ \A p \in DOMAIN regions : Depth(p)' = Depth(p)
         /\ \A p \in DOMAIN regions, i \in 1 .. Len(cachesims') :
              /\ regions'[p].buckets[i] =
                   IF i <= Len(cachesims) THEN regions[p].buckets[i] ELSE Zero
              /\ regions'[p].buckets_entry[i] =
                   IF i <= Len(cachesims) THEN regions[p].buckets_entry[i] ELSE Zero
<1> USE DEF IInv
<1> DEFINE n == Len(AddedCaches(datastructs'))
<1>0. Len(cachesims) \in Nat /\ n \in Nat /\ Len(cachesims') = Len(cachesims) + n
  BY CachesAdded, SnapshotFacts
<1>1. /\ DOMAIN regions' = DOMAIN regions
      /\ \A p \in DOMAIN regions : regions'[p] = Registered(regions[p], n)
  BY DEF RegisterDatastruct
<1> HIDE DEF n
<1>2. ASSUME NEW r \in RegionState, NEW d, Fits(r, d, cachesims)
      PROVE  /\ Fits(Registered(r, n), d, cachesims')
             /\ \A i \in 1 .. Len(cachesims') :
                  /\ Registered(r, n).buckets[i] =
                       IF i <= Len(cachesims) THEN r.buckets[i] ELSE Zero
                  /\ Registered(r, n).buckets_entry[i] =
                       IF i <= Len(cachesims) THEN r.buckets_entry[i] ELSE Zero
  <2> DEFINE q == Registered(r, n)
  <2>1. ASSUME NEW s \in Seq(Counts), Len(s) = Len(cachesims)
        PROVE  /\ s \o Zeros(n) \in Seq(Counts) /\ Len(s \o Zeros(n)) = Len(cachesims')
               /\ \A i \in 1 .. Len(cachesims') :
                    (s \o Zeros(n))[i] = IF i <= Len(cachesims) THEN s[i] ELSE Zero
    <3>1. Zeros(n) \in Seq(Counts) /\ Len(Zeros(n)) = n
      BY <1>0, ZerosFacts
    <3>2. /\ s \o Zeros(n) \in Seq(Counts) /\ Len(s \o Zeros(n)) = Len(s) + n
          /\ \A i \in 1 .. Len(s) + n :
               (s \o Zeros(n))[i] = IF i <= Len(s) THEN s[i] ELSE Zeros(n)[i - Len(s)]
      BY <3>1, ConcatProperties
    <3>3. \A i \in 1 .. Len(s) + n : i > Len(s) => Zeros(n)[i - Len(s)] = Zero
      BY <1>0, <2>1, ZerosFacts
    <3> QED  BY <1>0, <2>1, <3>2, <3>3
  <2>2. /\ r.buckets \in Seq(Counts) /\ Len(r.buckets) = Len(cachesims)
        /\ r.buckets_entry \in Seq(Counts) /\ Len(r.buckets_entry) = Len(cachesims)
    BY <1>2 DEF Fits, RegionState
  <2>3. /\ q \in RegionState /\ q.thread_count = r.thread_count
        /\ q.buckets = r.buckets \o Zeros(n) /\ q.buckets_entry = r.buckets_entry \o Zeros(n)
    <3> DEFINE A == 0 .. Modulus - 1
               B == Seq(Counts)
    <3>1. /\ RegionState = [thread_count : A, buckets : B, buckets_entry : B]
          /\ r.buckets \o Zeros(n) \in B /\ r.buckets_entry \o Zeros(n) \in B
      BY <2>1, <2>2 DEF RegionState
    <3> HIDE DEF A, B
    <3> QED  BY <1>2, <3>1 DEF Registered
  <2>4. \A i \in 1 .. Len(cachesims') :
          /\ q.buckets[i] = IF i <= Len(cachesims) THEN r.buckets[i] ELSE Zero
          /\ q.buckets_entry[i] = IF i <= Len(cachesims) THEN r.buckets_entry[i] ELSE Zero
    <3>1. \A i \in 1 .. Len(cachesims') :
            (r.buckets \o Zeros(n))[i] = IF i <= Len(cachesims) THEN r.buckets[i] ELSE Zero
      BY <2>1, <2>2
    <3>2. \A i \in 1 .. Len(cachesims') : (r.buckets_entry \o Zeros(n))[i] =
            IF i <= Len(cachesims) THEN r.buckets_entry[i] ELSE Zero
      BY <2>1, <2>2
    <3> HIDE DEF q
    <3> QED  BY <2>3, <3>1, <3>2
  <2> HIDE DEF q
  <2>5. ASSUME d > 0, NEW i \in 1 .. Len(cachesims'), NEW c \in Counter
        PROVE  q.buckets_entry[i][c] <= cachesims'[i].count[c]
    <3>1. CASE i <= Len(cachesims)
      <4>1. cachesims'[i] = cachesims[i] /\ q.buckets_entry[i] = r.buckets_entry[i]
        BY <1>0, <2>4, <3>1, CachesAdded
      <4> QED  BY <1>0, <1>2, <2>5, <3>1, <4>1 DEF Fits
    <3>2. CASE ~ (i <= Len(cachesims))
      <4>1. cachesims'[i].count = Zero /\ q.buckets_entry[i] = Zero
        BY <1>0, <2>4, <3>2, CachesAdded
      <4> QED  BY <4>1 DEF Zero
    <3> QED  BY <3>1, <3>2
  <2>6. Len(q.buckets) = Len(cachesims') /\ Len(q.buckets_entry) = Len(cachesims')
    BY <2>1, <2>2, <2>3
  <2>7. Signed(q.thread_count) = d /\ d \in Drift
    BY <1>2, <2>3 DEF Fits
  <2>8. Fits(q, d, cachesims')
    BY <2>3, <2>5, <2>6, <2>7 DEF Fits
  <2> QED  BY <2>4, <2>8 DEF q
<1>3. ASSUME NEW p \in DOMAIN regions PROVE Depth(p)' = Depth(p)
  <2>1. regions'[p].thread_count = regions[p].thread_count
    <3>1. regions[p] \in RegionState
      BY DEF RegionsFit, Fits
    <3> QED  BY <1>1, <3>1 DEF Registered, RegionState
  <2> QED  BY <1>1, <2>1 DEF Depth
<1>4. DOMAIN regions \subseteq Ptr
  BY DEF TypeOK
<1>5. \A p \in DOMAIN regions : regions[p] \in RegionState /\ Fits(regions[p], Depth(p), cachesims)
  BY DEF RegionsFit, Fits
<1>6. RegionsFit'
  <2>1. \A p \in DOMAIN regions : Fits(regions'[p], Depth(p)', cachesims')
    BY <1>1, <1>2, <1>3, <1>5
  <2> QED  BY <1>1, <2>1 DEF RegionsFit
<1>7. TypeOK'
  <2>1. \A p \in DOMAIN regions' : regions'[p] \in RegionState
    BY <1>1, <1>4, <1>6 DEF RegionsFit, Fits
  <2>2. cachesims' \in Seq([ds_nums : SUBSET Nat, count : Counts])
    BY CachesAdded DEF Cache
  <2>3. datastructs' \in Seq([address : Nat, nbytes : Nat, is_freed : BOOLEAN])
    BY CachesAdded
  <2>4. DOMAIN regions' \subseteq Ptr
    BY <1>1, <1>4
  <2>5. UNCHANGED << inside, total, skipped, unpaired >>
    BY DEF RegisterDatastruct
  <2> QED  BY <2>1, <2>2, <2>3, <2>4, <2>5 DEF TypeOK, RegionState
<1> QED  BY <1>1, <1>2, <1>3, <1>4, <1>5, <1>6, <1>7

\* An entry of one region leaves the others as they are.
LEMMA StartFits ==
  ASSUME IInv, NEW p \in Ptr, StartRegion(p)
  PROVE  IInv' /\ Depth(p)' = Depth(p) + 1
<1> USE DEF IInv
<1> DEFINE r == IF p \in DOMAIN regions THEN regions[p] ELSE NewRegion
<1>1. Fits(r, Depth(p), cachesims) /\ Depth(p) \in Drift /\ Depth(p) < MaxDepth
  BY NewRegionFits DEF RegionsFit, Depth, StartRegion, Fits
<1>2. /\ DOMAIN regions' = DOMAIN regions \cup {p}
      /\ regions'[p] = OnRegionEntry(r)
      /\ \A q \in DOMAIN regions \ {p} : regions'[q] = regions[q]
      /\ UNCHANGED << datastructs, cachesims, total, skipped, unpaired >>
  BY DEF StartRegion
<1> HIDE DEF r
<1>3. Fits(regions'[p], Depth(p) + 1, cachesims) /\ Depth(p)' = Depth(p) + 1
  BY <1>1, <1>2, EntryFits DEF Depth, Fits
<1>4. RegionsFit'
  BY <1>2, <1>3 DEF RegionsFit, Depth
<1>5. inside' \in [Ptr -> 0 .. MaxDepth]
  BY RegionAssumption DEF StartRegion, TypeOK
<1>6. DOMAIN regions' \subseteq Ptr /\ \A q \in DOMAIN regions' : regions'[q] \in RegionState
  BY <1>2, <1>4 DEF RegionsFit, Fits, TypeOK
<1>7. TypeOK'
  BY <1>2, <1>5, <1>6 DEF TypeOK, RegionState
<1> QED  BY <1>3, <1>4, <1>7

\* An exit of one region leaves the others as they are, and all when the
\* pointer is not known.
LEMMA StopFits ==
  ASSUME IInv, NEW p \in Ptr, CallStopRegion(p)
  PROVE  /\ RegionsFit'
         /\ DOMAIN regions' \subseteq Ptr /\ \A q \in DOMAIN regions' : regions'[q] \in RegionState
         /\ p \in DOMAIN regions => Depth(p)' = Depth(p) - 1
<1> USE DEF IInv
<1>1. /\ DOMAIN regions' = DOMAIN regions
      /\ \A q \in DOMAIN regions :
           regions'[q] = IF q = p THEN OnRegionExit(regions[q]) ELSE regions[q]
      /\ cachesims' = cachesims /\ Depth(p) > -MaxSurplus
  BY DEF CallStopRegion
<1>2. ASSUME p \in DOMAIN regions
      PROVE  Fits(regions'[p], Depth(p) - 1, cachesims) /\ Depth(p)' = Depth(p) - 1
  <2>1. Fits(regions[p], Depth(p), cachesims) /\ Depth(p) \in Drift
    BY <1>2 DEF RegionsFit, Fits
  <2> QED  BY <1>1, <1>2, <2>1, ExitFits DEF Depth, Fits
<1>3. RegionsFit'
  BY <1>1, <1>2 DEF RegionsFit, Depth
<1>4. DOMAIN regions' \subseteq Ptr /\ \A q \in DOMAIN regions' : regions'[q] \in RegionState
  BY <1>1, <1>3 DEF RegionsFit, Fits, TypeOK
<1> QED  BY <1>2, <1>3, <1>4

\* Ends of activations, marked or not, and marks without an end.
LEMMA EndFits ==
  ASSUME IInv, NEW p \in Ptr, StopRegion(p) \/ MissedStop(p) \/ SurplusStop(p)
  PROVE  IInv'
<1> USE DEF IInv
<1>1. inside' \in [Ptr -> 0 .. MaxDepth]
  <2>1. CASE SurplusStop(p)
    BY <2>1 DEF SurplusStop, TypeOK
  <2>2. CASE inside[p] > 0 /\ inside' = [inside EXCEPT ![p] = @ - 1]
    BY <2>2, RegionAssumption DEF TypeOK
  <2> QED  BY <2>1, <2>2 DEF StopRegion, MissedStop
<1>2. unpaired' \in [missed : SUBSET Ptr, surplus : SUBSET Ptr]
  <2>1. unpaired \in [missed : SUBSET Ptr, surplus : SUBSET Ptr]
    BY DEF TypeOK
  <2> DEFINE S == SUBSET Ptr
  <2>2. \A x \in S : x \cup {p} \in S
    OBVIOUS
  <2> HIDE DEF S
  <2>3. unpaired \in [missed : S, surplus : S]
    BY <2>1 DEF S
  <2>4. unpaired' \in [missed : S, surplus : S]
    BY <2>2, <2>3 DEF StopRegion, MissedStop, SurplusStop
  <2> QED  BY <2>4 DEF S
<1>3. /\ RegionsFit'
      /\ DOMAIN regions' \subseteq Ptr /\ \A q \in DOMAIN regions' : regions'[q] \in RegionState
  <2>1. CASE CallStopRegion(p)
    BY <2>1, StopFits
  <2>2. CASE UNCHANGED << regions, cachesims >>
    BY <2>2 DEF RegionsFit, Depth, TypeOK, RegionState
  <2> QED  BY <2>1, <2>2 DEF StopRegion, MissedStop, SurplusStop
<1>4. UNCHANGED << datastructs, cachesims, total, skipped >>
  BY DEF StopRegion, MissedStop, SurplusStop, CallStopRegion
<1>5. TypeOK'
  BY <1>1, <1>2, <1>3, <1>4 DEF TypeOK, RegionState
<1> QED  BY <1>3, <1>5

\* What neither changes the caches nor the regions.
LEMMA UnchangedFits ==
  ASSUME IInv, UNCHANGED << datastructs, cachesims, regions, inside, unpaired >>,
         total' \in [Row -> Nat], skipped' \in [Row -> Nat]
  PROVE  IInv'
BY DEF IInv, TypeOK, RegionsFit, Depth

\* All that the actions of Next may be given.
LEMMA ObjectNumbers ==
  ASSUME TypeOK
  PROVE  0 .. Len(datastructs) - 1 \subseteq Nat
BY DEF TypeOK

\* No step breaks the invariant.
LEMMA NextFits == IInv /\ [Next]_vars => IInv'
<1> SUFFICES ASSUME IInv, [Next]_vars PROVE IInv'
  OBVIOUS
<1>1. ASSUME NEW ds_num \in 0 .. Len(datastructs) - 1,
             NEW bucket \in [1 .. Len(cachesims) -> Bucket], Access(ds_num, bucket)
      PROVE  IInv'
  <2>1. ds_num \in Nat
    BY ObjectNumbers DEF IInv
  <2> QED  BY <1>1, <2>1, AccessFits
<1>2. ASSUME NEW nbytes \in Size, RegisterDatastruct(nbytes) PROVE IInv'
  BY <1>2, RegisterFits
<1>3. ASSUME NEW p \in Ptr, StartRegion(p) PROVE IInv'
  BY <1>3, StartFits
<1>4. ASSUME NEW p \in Ptr, StopRegion(p) \/ MissedStop(p) \/ SurplusStop(p) PROVE IInv'
  BY <1>4, EndFits
<1>5. CASE Exit
  BY <1>5, UnchangedFits DEF Exit, IInv, TypeOK
<1>6. CASE UNCHANGED vars
  BY <1>6, UnchangedFits DEF vars, IInv, TypeOK
<1>7. CASE SkippedAccess
  BY <1>7, UnchangedFits, CountingType DEF SkippedAccess, IInv, TypeOK
<1> QED  BY <1>1, <1>2, <1>3, <1>4, <1>5, <1>6, <1>7 DEF Next

\* However entries, exits, registrations and accesses follow one another, each
\* region has the vectors its thread count calls for.
THEOREM Invariance == Spec => []IInv
BY InitFits, NextFits, PTL DEF Spec

\* Type correctness of Regions.
THEOREM TypeCorrect == Spec => []TypeOK
BY Invariance, PTL DEF IInv

\* A region has one vector of sums and one of snapshots for every cache.
THEOREM AlignmentHolds == Spec => []RegionsAligned
<1>1. IInv => RegionsAligned
  BY DEF IInv, TypeOK, RegionsFit, RegionsAligned, Fits
<1> QED  BY <1>1, Invariance, PTL

-----------------------------------------------------------------------------
(* Refinement *)

DuringOf(r, cs) ==
  [i \in 1 .. Len(cs) |->
     [c \in Counter |->
        r.buckets[i][c] +
          (IF Signed(r.thread_count) <= 0 THEN 0 ELSE cs[i].count[c] - r.buckets_entry[i][c])]]

\* The values under the refinement mapping.
LEMMA MappedFacts ==
  ASSUME IInv
  PROVE  /\ \A p \in Ptr : Depth(p) \in Int
         /\ \A p \in Ptr : p \notin DOMAIN regions => Depth(p) = 0
         /\ \A p \in Ptr : During(p) = IF p \in DOMAIN regions THEN DuringOf(regions[p], cachesims)
                                       ELSE Zeros(Len(cachesims))
<1>1. \A p \in Ptr : Depth(p) \in Int
  BY RegionAssumption DEF IInv, RegionsFit, Fits, Depth, Drift
<1>2. \A p \in Ptr : p \notin DOMAIN regions => Depth(p) = 0
  BY DEF Depth
<1> QED  BY <1>1, <1>2 DEF During, DuringOf, Depth

\* The elements of a region that fits are numbers.
LEMMA NumbersFit ==
  ASSUME TypeOK, NEW r, NEW d, Fits(r, d, cachesims),
         NEW i \in 1 .. Len(cachesims), NEW c \in Counter
  PROVE  /\ r.buckets[i][c] \in Nat /\ r.buckets_entry[i][c] \in Nat
         /\ cachesims[i].count[c] \in Nat
<1>1. /\ r.buckets \in Seq(Counts) /\ Len(r.buckets) = Len(cachesims)
      /\ r.buckets_entry \in Seq(Counts) /\ Len(r.buckets_entry) = Len(cachesims)
  BY DEF Fits, RegionState
<1>2. r.buckets[i] \in Counts /\ r.buckets_entry[i] \in Counts
  BY <1>1, ElementOfSeq
<1> QED  BY <1>2, SnapshotFacts DEF Counts

\* Entering changes nothing of what has been counted.
LEMMA EntryDuring ==
  ASSUME TypeOK, NEW d \in Drift, d < MaxDepth, NEW r, Fits(r, d, cachesims)
  PROVE  DuringOf(OnRegionEntry(r), cachesims) = DuringOf(r, cachesims)
<1> DEFINE q == OnRegionEntry(r)
<1>1. /\ q.buckets = r.buckets /\ Signed(r.thread_count) = d /\ Signed(q.thread_count) = d + 1
      /\ d = 0 => q.buckets_entry = Snapshot
      /\ d > 0 => q.buckets_entry = r.buckets_entry
  BY EntryFits DEF Fits
<1> HIDE DEF q
<1>2. ASSUME NEW i \in 1 .. Len(cachesims), NEW c \in Counter
      PROVE  (IF Signed(q.thread_count) <= 0 THEN 0 ELSE cachesims[i].count[c] - q.buckets_entry[i][c])
             = (IF Signed(r.thread_count) <= 0 THEN 0 ELSE cachesims[i].count[c] - r.buckets_entry[i][c])
  <2>1. cachesims[i].count[c] \in Nat /\ Snapshot[i] = cachesims[i].count
    BY SnapshotFacts DEF Counts
  <2>2. CASE d = 0
    BY <1>1, <2>1, <2>2
  <2>3. CASE d > 0
    <3>1. ~ (d <= 0) /\ ~ (d + 1 <= 0)
      BY <2>3 DEF Drift
    <3> QED  BY <1>1, <2>3, <3>1
  <2>4. CASE d < 0
    <3>1. d <= 0 /\ d + 1 <= 0
      BY <2>4 DEF Drift
    <3> QED  BY <1>1, <3>1
  <2> QED  BY <2>2, <2>3, <2>4 DEF Drift
<1> QED  BY <1>1, <1>2 DEF DuringOf, q

\* Neither does leaving: the last thread only moves the difference.
LEMMA ExitDuring ==
  ASSUME TypeOK, NEW d \in Drift, d > -MaxSurplus, NEW r, Fits(r, d, cachesims)
  PROVE  DuringOf(OnRegionExit(r), cachesims) = DuringOf(r, cachesims)
<1> DEFINE q == OnRegionExit(r)
<1>1. /\ q.buckets_entry = r.buckets_entry
      /\ Signed(r.thread_count) = d /\ Signed(q.thread_count) = d - 1
      /\ q.buckets = IF d = 1 THEN AddSub(r) ELSE r.buckets
  BY ExitFits DEF Fits
<1> HIDE DEF q
<1>2. CASE d = 1
  <2>1. ASSUME NEW i \in 1 .. Len(cachesims), NEW c \in Counter
        PROVE  q.buckets[i][c] + 0
               = r.buckets[i][c] + (cachesims[i].count[c] - r.buckets_entry[i][c])
    <3>1. q.buckets[i][c] = r.buckets[i][c] + cachesims[i].count[c] - r.buckets_entry[i][c]
      BY <1>1, <1>2 DEF AddSub
    <3> QED  BY <3>1, NumbersFit
  <2> QED  BY <1>1, <1>2, <2>1 DEF DuringOf, q
<1>3. CASE d # 1
  <2>1. q.buckets = r.buckets /\ (Signed(q.thread_count) <= 0 <=> Signed(r.thread_count) <= 0)
    BY <1>1, <1>3 DEF Drift
  <2> QED  BY <1>1, <2>1 DEF DuringOf, q
<1> QED  BY <1>2, <1>3

\* An access is counted for the regions that threads are in, and for no other.
LEMMA AccessCounts ==
  ASSUME IInv, NEW ds_num \in Nat, NEW bucket \in [1 .. Len(cachesims) -> Bucket],
         Access(ds_num, bucket)
  PROVE  \E hit \in [1 .. Len(cachesims) -> Counter] : Abstract!Count(hit)
<1> USE DEF IInv
<1>1. PICK hit \in [1 .. Len(cachesims) -> Counter] : \A i \in 1 .. Len(cachesims) :
        /\ cachesims'[i].count \in Counts
        /\ \A c \in Counter : cachesims'[i].count[c] =
             IF c = hit[i] THEN cachesims[i].count[c] + 1 ELSE cachesims[i].count[c]
  BY CountersGrow
<1>2. Len(cachesims') = Len(cachesims) /\ regions' = regions
  BY CountersGrow DEF Access
<1>3. IInv'
  BY AccessFits
<1>4. ASSUME NEW p \in Ptr
      PROVE  During(p)' = IF Depth(p) <= 0 THEN During(p)
                          ELSE [i \in 1 .. Len(cachesims) |->
                                  [During(p)[i] EXCEPT ![hit[i]] = @ + 1]]
  <2>1. /\ During(p) = IF p \in DOMAIN regions THEN DuringOf(regions[p], cachesims)
                       ELSE Zeros(Len(cachesims))
        /\ During(p)' = IF p \in DOMAIN regions THEN DuringOf(regions[p], cachesims')
                        ELSE Zeros(Len(cachesims))
    BY <1>2, <1>3, MappedFacts DEF During, DuringOf, Depth
  <2>2. CASE p \notin DOMAIN regions
    BY <2>1, <2>2, MappedFacts
  <2>3. CASE p \in DOMAIN regions
    <3> DEFINE r == regions[p]
    <3>1. Fits(r, Depth(p), cachesims) /\ Signed(r.thread_count) = Depth(p)
      BY <2>3 DEF RegionsFit, Fits
    <3> HIDE DEF r
    <3>2. CASE Depth(p) <= 0
      <4>1. DuringOf(r, cachesims') = DuringOf(r, cachesims)
        BY <1>2, <3>1, <3>2 DEF DuringOf
      <4> QED  BY <2>1, <2>3, <3>2, <4>1 DEF r
    <3>3. CASE ~ (Depth(p) <= 0)
      <4>1. ASSUME NEW i \in 1 .. Len(cachesims), NEW c \in Counter
            PROVE  r.buckets[i][c] + (cachesims'[i].count[c] - r.buckets_entry[i][c])
                   = IF c = hit[i]
                     THEN r.buckets[i][c] + (cachesims[i].count[c] - r.buckets_entry[i][c]) + 1
                     ELSE r.buckets[i][c] + (cachesims[i].count[c] - r.buckets_entry[i][c])
          <5>1. \A b, k, e \in Nat : \A new : \A hits \in BOOLEAN :
                  new = (IF hits THEN k + 1 ELSE k) =>
                    b + (new - e) = IF hits THEN b + (k - e) + 1 ELSE b + (k - e)
            OBVIOUS
          <5>2. /\ r.buckets[i][c] \in Nat /\ r.buckets_entry[i][c] \in Nat
                /\ cachesims[i].count[c] \in Nat
            BY <3>1, NumbersFit
          <5>3. cachesims'[i].count[c] =
                  IF c = hit[i] THEN cachesims[i].count[c] + 1 ELSE cachesims[i].count[c]
            BY <1>1
          <5> DEFINE b == r.buckets[i][c]
                     k == cachesims[i].count[c]
                     e == r.buckets_entry[i][c]
                     new == cachesims'[i].count[c]
          <5> HIDE DEF b, k, e, new
          <5>4. /\ b \in Nat /\ k \in Nat /\ e \in Nat
                /\ new = IF c = hit[i] THEN k + 1 ELSE k
            BY <5>2, <5>3 DEF b, k, e, new
          <5>5. b + (new - e) = IF c = hit[i] THEN b + (k - e) + 1 ELSE b + (k - e)
            BY <5>1, <5>4
          <5> QED  BY <5>5 DEF b, k, e, new
      <4>2. DuringOf(r, cachesims') =
              [i \in 1 .. Len(cachesims) |-> [c \in Counter |->
                 IF c = hit[i]
                 THEN r.buckets[i][c] + (cachesims[i].count[c] - r.buckets_entry[i][c]) + 1
                 ELSE r.buckets[i][c] + (cachesims[i].count[c] - r.buckets_entry[i][c])]]
        BY <1>2, <3>1, <3>3, <4>1 DEF DuringOf
      <4>3. DuringOf(r, cachesims) =
              [i \in 1 .. Len(cachesims) |-> [c \in Counter |->
                 r.buckets[i][c] + (cachesims[i].count[c] - r.buckets_entry[i][c])]]
        BY <3>1, <3>3 DEF DuringOf
      <4>4. DuringOf(r, cachesims') =
              [i \in 1 .. Len(cachesims) |-> [DuringOf(r, cachesims)[i] EXCEPT ![hit[i]] = @ + 1]]
        BY <4>2, <4>3
      <4> QED  BY <2>1, <2>3, <3>3, <4>4 DEF r
    <3> QED  BY <3>2, <3>3
  <2> QED  BY <2>2, <2>3
<1>5. [p \in Ptr |-> Depth(p)]' = [p \in Ptr |-> Depth(p)]
  BY <1>2 DEF Depth
<1>6. Abstract!Count(hit)
  <2>1. [p \in Ptr |-> During(p)]' =
          [p \in Ptr |-> IF [q \in Ptr |-> Depth(q)][p] <= 0 THEN [q \in Ptr |-> During(q)][p]
                         ELSE [i \in 1 .. Len(cachesims) |->
                                 [[q \in Ptr |-> During(q)][p][i] EXCEPT ![hit[i]] = @ + 1]]]
    BY <1>4
  <2> QED  BY <1>2, <1>5, <2>1 DEF Abstract!Count
<1> QED  BY <1>6

\* A registration gives every region zeros for the new caches.
LEMMA RegisterGrows ==
  ASSUME IInv, NEW nbytes \in Size, RegisterDatastruct(nbytes)
  PROVE  Abstract!Grow
<1> USE DEF IInv
<1>1. Len(cachesims) \in Nat /\ Len(cachesims') \in Nat /\ Len(cachesims') > Len(cachesims)
  BY CachesAdded, SnapshotFacts
<1>2. IInv'
  BY RegisterFits
<1>3. DOMAIN regions' = DOMAIN regions
  BY DEF RegisterDatastruct
<1>4. ASSUME NEW p \in Ptr
      PROVE  During(p)' = [i \in 1 .. Len(cachesims') |->
                             IF i <= Len(cachesims) THEN During(p)[i] ELSE Zero]
  <2>1. /\ During(p) = IF p \in DOMAIN regions THEN DuringOf(regions[p], cachesims)
                       ELSE Zeros(Len(cachesims))
        /\ During(p)' = IF p \in DOMAIN regions THEN DuringOf(regions'[p], cachesims')
                        ELSE Zeros(Len(cachesims'))
    BY <1>2, <1>3, MappedFacts DEF During, DuringOf, Depth
  <2>2. CASE p \notin DOMAIN regions
    BY <1>1, <2>1, <2>2 DEF Zeros
  <2>3. CASE p \in DOMAIN regions
    <3> DEFINE r == regions[p]
               q == regions'[p]
    <3>1. /\ \A i \in 1 .. Len(cachesims') :
               /\ q.buckets[i] = IF i <= Len(cachesims) THEN r.buckets[i] ELSE Zero
               /\ q.buckets_entry[i] = IF i <= Len(cachesims) THEN r.buckets_entry[i] ELSE Zero
          /\ Fits(r, Depth(p), cachesims) /\ Fits(q, Depth(p), cachesims')
      BY <1>2, <1>3, <2>3, RegisterFits DEF RegionsFit
    <3>2. Signed(q.thread_count) = Signed(r.thread_count)
      BY <3>1 DEF Fits
    <3> HIDE DEF r, q
    <3>3. ASSUME NEW i \in 1 .. Len(cachesims')
          PROVE  DuringOf(q, cachesims')[i] =
                   IF i <= Len(cachesims) THEN DuringOf(r, cachesims)[i] ELSE Zero
      <4>1. CASE i <= Len(cachesims)
        <5>1. /\ cachesims'[i] = cachesims[i] /\ q.buckets[i] = r.buckets[i]
              /\ q.buckets_entry[i] = r.buckets_entry[i] /\ i \in 1 .. Len(cachesims)
          BY <1>1, <3>1, <4>1, CachesAdded
        <5> QED  BY <3>2, <4>1, <5>1 DEF DuringOf
      <4>2. CASE ~ (i <= Len(cachesims))
        <5>1. /\ cachesims'[i].count = Zero /\ q.buckets[i] = Zero /\ q.buckets_entry[i] = Zero
          <6>1. i \in Len(cachesims) + 1 .. Len(cachesims')
            BY <1>1, <4>2
          <6> QED  BY <3>1, <4>2, <6>1, CachesAdded
        <5> QED  BY <4>2, <5>1 DEF DuringOf, Zero
      <4> QED  BY <4>1, <4>2
    <3>4. DuringOf(q, cachesims') =
            [i \in 1 .. Len(cachesims') |->
               IF i <= Len(cachesims) THEN DuringOf(r, cachesims)[i] ELSE Zero]
      <4>1. DuringOf(q, cachesims') = [i \in 1 .. Len(cachesims') |-> DuringOf(q, cachesims')[i]]
        BY DEF DuringOf
      <4> HIDE DEF DuringOf
      <4> QED  BY <3>3, <4>1
    <3> QED  BY <2>1, <2>3, <3>4 DEF r, q
  <2> QED  BY <2>2, <2>3
<1>5. [p \in Ptr |-> Depth(p)]' = [p \in Ptr |-> Depth(p)]
  BY <1>3, RegisterFits DEF Depth
<1>6. Abstract!Zero = Zero
  BY DEF Abstract!Zero, Zero
<1>7. [p \in Ptr |-> During(p)]' =
        [p \in Ptr |-> [i \in 1 .. Len(cachesims') |->
           IF i <= Len(cachesims) THEN [q \in Ptr |-> During(q)][p][i] ELSE Zero]]
  BY <1>4
<1> QED  BY <1>1, <1>3, <1>5, <1>6, <1>7 DEF Abstract!Grow

\* An entry is no counting.
LEMMA StartEnters ==
  ASSUME IInv, NEW p \in Ptr, StartRegion(p)
  PROVE  \A q \in Ptr : /\ During(q)' = During(q)
                        /\ Depth(q)' = IF q = p THEN Depth(p) + 1 ELSE Depth(q)
<1> USE DEF IInv
<1>1. cachesims' = cachesims /\ Depth(p) \in Drift /\ Depth(p) < MaxDepth
  BY NewRegionFits DEF StartRegion, RegionsFit, Fits, Depth
<1>2. \A q \in Ptr : During(q)' = During(q)
  <2>1. TAKE q \in Ptr
  <2>2. CASE q # p
    BY <2>2 DEF StartRegion, During, Depth
  <2>3. CASE q = p
    <3> DEFINE r == IF p \in DOMAIN regions THEN regions[p] ELSE NewRegion
    <3>1. Fits(r, Depth(p), cachesims)
      BY NewRegionFits DEF RegionsFit, Depth
    <3>2. p \in DOMAIN regions' /\ regions'[p] = OnRegionEntry(r)
      BY DEF StartRegion
    <3>3. During(p)' = DuringOf(OnRegionEntry(r), cachesims)
      BY <1>1, <3>2 DEF During, DuringOf, Depth
    <3>4. During(p) = DuringOf(r, cachesims)
      <4>1. CASE p \in DOMAIN regions
        BY <4>1 DEF During, DuringOf, Depth
      <4>2. CASE p \notin DOMAIN regions
        <5>1. Signed(0) = 0 /\ r = NewRegion
          BY <4>2, RegionAssumption DEF Signed
        <5> QED  BY <4>2, <5>1 DEF During, DuringOf, NewRegion, Zeros, Zero
      <4> QED  BY <4>1, <4>2
    <3> HIDE DEF r
    <3> QED  BY <1>1, <2>3, <3>1, <3>3, <3>4, EntryDuring
  <2> QED  BY <2>2, <2>3
<1>3. \A q \in Ptr : Depth(q)' = IF q = p THEN Depth(p) + 1 ELSE Depth(q)
  BY StartFits DEF StartRegion, Depth
<1> QED  BY <1>2, <1>3

\* Neither is an exit.
LEMMA StopLeaves ==
  ASSUME IInv, NEW p \in Ptr, CallStopRegion(p), p \in DOMAIN regions
  PROVE  \A q \in Ptr : /\ During(q)' = During(q)
                        /\ Depth(q)' = IF q = p THEN Depth(p) - 1 ELSE Depth(q)
<1> USE DEF IInv
<1>1. /\ cachesims' = cachesims /\ Depth(p) > -MaxSurplus
      /\ Fits(regions[p], Depth(p), cachesims) /\ Depth(p) \in Drift
  BY DEF CallStopRegion, RegionsFit, Fits
<1>2. \A q \in Ptr : During(q)' = During(q)
  <2>1. TAKE q \in Ptr
  <2>2. CASE q # p
    BY <2>2 DEF CallStopRegion, During, Depth
  <2>3. CASE q = p
    <3>1. p \in DOMAIN regions' /\ regions'[p] = OnRegionExit(regions[p])
      BY DEF CallStopRegion
    <3>2. During(p)' = DuringOf(OnRegionExit(regions[p]), cachesims)
      BY <1>1, <3>1 DEF During, DuringOf, Depth
    <3>3. During(p) = DuringOf(regions[p], cachesims)
      BY DEF During, DuringOf, Depth
    <3> QED  BY <1>1, <2>3, <3>2, <3>3, ExitDuring
  <2> QED  BY <2>2, <2>3
<1>3. \A q \in Ptr : Depth(q)' = IF q = p THEN Depth(p) - 1 ELSE Depth(q)
  BY StopFits DEF CallStopRegion, Depth
<1> QED  BY <1>2, <1>3

\* The regions implement RegionCount.
THEOREM RegionRefinement == Spec => ImplementsRegionCount
<1>1. Init => Abstract!Init
  <2> SUFFICES ASSUME Init PROVE Abstract!Init
    OBVIOUS
  <2>1. /\ Len(cachesims) = 1 /\ DOMAIN regions = {}
    BY DEF Init
  <2>2. \A p \in Ptr : Depth(p) = 0 /\ During(p) = [i \in 1 .. 1 |-> Abstract!Zero]
    BY <2>1 DEF Depth, During, Zeros, Zero, Abstract!Zero
  <2> QED  BY <2>1, <2>2 DEF Abstract!Init
<1>2. IInv /\ [Next]_vars => [Abstract!Next]_(Abstract!vars)
  <2> SUFFICES ASSUME IInv, [Next]_vars PROVE [Abstract!Next]_(Abstract!vars)
    OBVIOUS
  <2> USE DEF IInv
  <2>1. ASSUME NEW ds_num \in 0 .. Len(datastructs) - 1,
               NEW bucket \in [1 .. Len(cachesims) -> Bucket], Access(ds_num, bucket)
        PROVE  Abstract!Next
    BY <2>1, ObjectNumbers, AccessCounts DEF Abstract!Next
  <2>2. ASSUME NEW nbytes \in Size, RegisterDatastruct(nbytes) PROVE Abstract!Next
    BY <2>2, RegisterGrows DEF Abstract!Next
  <2>3. ASSUME NEW p \in Ptr, StartRegion(p) PROVE Abstract!Enter(p)
    <3>1. cachesims' = cachesims
      BY <2>3 DEF StartRegion
    <3> QED  BY <2>3, <3>1, StartEnters DEF Abstract!Enter
  <2>4. ASSUME NEW p \in Ptr, CallStopRegion(p), p \in DOMAIN regions PROVE Abstract!Leave(p)
    <3>1. cachesims' = cachesims
      BY <2>4 DEF CallStopRegion
    <3> QED  BY <2>4, <3>1, StopLeaves DEF Abstract!Leave
  <2>5. CASE UNCHANGED << cachesims, regions >>
    BY <2>5 DEF Abstract!vars, Depth, During
  <2>6. ASSUME NEW p \in Ptr, CallStopRegion(p), p \notin DOMAIN regions
        PROVE  UNCHANGED << cachesims, Depth(p), regions >>
    BY <2>6 DEF CallStopRegion, Depth
  <2> QED  BY <2>1, <2>2, <2>3, <2>4, <2>5, <2>6
             DEF Next, Abstract!Next, SkippedAccess, StopRegion, SurplusStop, MissedStop, Exit, vars
<1> QED  BY <1>1, <1>2, Invariance, PTL DEF Spec, ImplementsRegionCount, Abstract!Spec

-----------------------------------------------------------------------------
(* The numbers of the file and the accesses of the target. *)

\* Each cache that is added isolates something.
LEMMA AddedCachesIsolate ==
  ASSUME NEW ds \in Seq([address : Nat, nbytes : Nat, is_freed : BOOLEAN]), Len(ds) > 1
  PROVE  \A i \in 1 .. Len(AddedCaches(ds)) : AddedCaches(ds)[i] # {}
<1> DEFINE k == Len(ds) - 1
           S == Large(ds, 1 .. k - 1)
           I == (SUBSET Nat) \ {{}}
<1>1. k \in Nat /\ k > 0
  OBVIOUS
<1>2. IsFiniteSet(S) /\ S \subseteq Nat
  <2>1. S \subseteq 1 .. k - 1
    BY DEF Large
  <2>2. IsFiniteSet(1 .. k - 1)
    BY <1>1, FS_Interval
  <2> QED  BY <2>1, <2>2, <1>1, FS_Subset
<1>3. Pairs(k, S) \in Seq(I)
  <2>1. Cardinality(S) \in Nat
    BY <1>2, FS_CardinalityType
  <2>2. Pairs(k, S) \in [1 .. Cardinality(S) -> I]
    BY <1>1, <1>2 DEF Pairs
  <2> QED  BY <2>1, <2>2, SeqOf
<1>4. Combine(ds) \in Seq(I)
  BY <1>3 DEF Combine
<1>5. << IF k > NoDatastruct THEN {k} ELSE {} >> \in Seq(I)
  BY <1>1 DEF NoDatastruct
<1>6. AddedCaches(ds) \in Seq(I)
  BY <1>4, <1>5, ConcatProperties DEF AddedCaches
<1> HIDE DEF I
<1>7. \A i \in 1 .. Len(AddedCaches(ds)) : AddedCaches(ds)[i] \in I
  BY <1>6, ElementOfSeq
<1> QED  BY <1>7 DEF I

LEMMA CounterFinite == IsFiniteSet(Counter)
<1>1. IsFiniteSet(0 .. 1)
  <2>1. 0 .. 1 = {0} \cup {1}
    OBVIOUS
  <2>2. IsFiniteSet({0}) /\ IsFiniteSet({1})
    BY FS_Singleton
  <2>3. IsFiniteSet({0} \cup {1})
    BY <2>2, FS_Union
  <2> QED  BY <2>1, <2>3
<1>2. IsFiniteSet(Bucket)
  BY PtrAssumption
<1> QED  BY <1>1, <1>2, FS_Product DEF Counter

\* What has been counted for a region in the first cache, the one of data
\* object 0, and what of it is in the region's sums.
Counted(p) == CounterSum(During(p)[1])
Booked(p) == CounterSum(regions[p].buckets[1])

\* Only activations in progress are not in the sums.
LEMMA CountedFacts ==
  ASSUME IInv, Len(cachesims) > 0, NEW p \in Ptr
  PROVE  /\ During(p)[1] \in Counts /\ Counted(p) \in Nat
         /\ p \notin DOMAIN regions => Counted(p) = 0
         /\ p \in DOMAIN regions => /\ Booked(p) \in Nat /\ Booked(p) <= Counted(p)
                                    /\ Depth(p) <= 0 => Booked(p) = Counted(p)
<1> USE DEF IInv
<1>t. 1 \in 1 .. Len(cachesims) /\ IsFiniteSet(Counter)
  BY SnapshotFacts, CounterFinite
<1>1. CASE p \notin DOMAIN regions
  <2>1. During(p)[1] = Zero
    BY <1>t, <1>1 DEF During, Zeros
  <2>2. CounterSum(Zero) = 0 /\ Zero \in Counts
    BY <1>t, SumZero DEF CounterSum, Zero, Counts
  <2> QED  BY <1>1, <2>1, <2>2 DEF Counted
<1>2. CASE p \in DOMAIN regions
  <2> DEFINE r == regions[p]
             b == r.buckets[1]
             u == During(p)[1]
             k == cachesims[1].count
             e == r.buckets_entry[1]
  <2>1. Fits(r, Depth(p), cachesims)
    BY <1>2 DEF RegionsFit
  <2>2. u = [c \in Counter |-> b[c] + (IF Depth(p) <= 0 THEN 0 ELSE k[c] - e[c])]
    BY <1>t, <1>2 DEF During
  <2>3. \A c \in Counter : /\ b[c] \in Nat /\ e[c] \in Nat /\ k[c] \in Nat
                           /\ Depth(p) > 0 => e[c] <= k[c]
    BY <1>t, <2>1, NumbersFit DEF Fits
  <2>4. Depth(p) \in Int
    BY <1>2, MappedFacts
  <2> HIDE DEF r, b, u, k, e
  <2>5. \A c \in Counter : /\ b[c] \in Nat /\ u[c] \in Nat /\ b[c] <= u[c]
                           /\ Depth(p) <= 0 => u[c] = b[c]
    <3>1. SUFFICES ASSUME NEW c \in Counter
                   PROVE  /\ b[c] \in Nat /\ u[c] \in Nat /\ b[c] <= u[c]
                          /\ Depth(p) <= 0 => u[c] = b[c]
      OBVIOUS
    <3>2. u[c] = b[c] + (IF Depth(p) <= 0 THEN 0 ELSE k[c] - e[c])
      BY <2>2
    <3>3. CASE Depth(p) <= 0
      BY <2>3, <3>2, <3>3
    <3>4. CASE ~ (Depth(p) <= 0)
      <4>1. e[c] <= k[c]
        BY <2>3, <2>4, <3>4
      <4> QED  BY <2>3, <3>2, <3>4, <4>1
    <3> QED  BY <3>3, <3>4
  <2>6. u \in Counts
    BY <2>2, <2>5 DEF Counts
  <2>7. SumOf(b, Counter) \in Nat /\ SumOf(u, Counter) \in Nat
    BY <1>t, <2>5, SumType
  <2>8. SumOf(b, Counter) <= SumOf(u, Counter)
    BY <1>t, <2>5, SumMonotone
  <2>9. Depth(p) <= 0 => SumOf(b, Counter) = SumOf(u, Counter)
    BY <1>t, <2>5, SumSame
  <2> QED  BY <1>2, <2>6, <2>7, <2>8, <2>9 DEF Counted, Booked, CounterSum, r, b, u
<1> QED  BY <1>1, <1>2

\* What a region has counted, against the accesses made and looked at while it
\* had an activation.  A missed exit keeps the region entered for good, so that
\* nothing is added to its sums any more; an exit too many lets it count less.
LedgerOf(p) ==
  /\ p \notin unpaired.missed => Depth(p) <= inside[p] /\ Counted(p) <= Looked(p)
  /\ p \notin unpaired.surplus => inside[p] <= Depth(p)
  /\ p \in unpaired.missed \ unpaired.surplus => inside[p] < Depth(p)
  /\ p \notin unpaired.missed \cup unpaired.surplus => Counted(p) = Looked(p)
  /\ p \in DOMAIN regions /\ p \notin unpaired.missed \cap unpaired.surplus
       => Booked(p) <= Looked(p)

\* Only the first cache isolates nothing, and the file has the rows that Exit
\* found.
FileInv ==
  /\ Len(datastructs) > 0 /\ Len(cachesims) > 0
  /\ \A i \in 1 .. Len(cachesims) : cachesims[i].ds_nums = {} <=> i = 1
  /\ ~Running => csv = Rows

\* Every access that is looked at is counted by the cache of data object 0.
MainLedger == CounterSum(cachesims[1].count) = Looked(Main)

LedgerInv == IInv /\ FileInv /\ MainLedger /\ \A p \in Ptr : LedgerOf(p)

LEMMA LookedFacts ==
  ASSUME TypeOK
  PROVE  \A k \in Row : total[k] \in Nat /\ skipped[k] \in Nat /\ Looked(k) \in Int
BY DEF TypeOK, Looked

LEMMA InitLedger == Init => LedgerInv
<1> SUFFICES ASSUME Init PROVE LedgerInv
  OBVIOUS
<1>1. IInv
  BY InitFits
<1>2. FileInv
  BY DEF Init, FileInv, Running
<1>3. ASSUME NEW p \in Ptr PROVE LedgerOf(p)
  <2>1. p \notin DOMAIN regions /\ Depth(p) = 0 /\ inside[p] = 0 /\ Looked(p) = 0
    BY DEF Init, Depth, Looked, Row
  <2>2. p \notin unpaired.missed
    BY DEF Init
  <2>3. Counted(p) = 0
    BY <1>1, <1>2, <2>1, CountedFacts DEF FileInv
  <2> QED  BY <2>1, <2>2, <2>3 DEF LedgerOf
<1>4. MainLedger
  <2>1. cachesims[1].count = Zero /\ Looked(Main) = 0
    BY DEF Init, Looked, Row
  <2>2. CounterSum(Zero) = 0
    BY CounterFinite, SumZero DEF CounterSum, Zero
  <2> QED  BY <2>1, <2>2 DEF MainLedger
<1> QED  BY <1>1, <1>2, <1>3, <1>4 DEF LedgerInv

\* The vectors only grow, by caches that isolate something.
LEMMA NextFile ==
  ASSUME LedgerInv, [Next]_vars
  PROVE  FileInv'
<1> USE DEF LedgerInv, IInv
<1>t. Len(cachesims) \in Nat /\ Len(datastructs) \in Nat
  BY SnapshotFacts DEF TypeOK
<1>1. ASSUME NEW ds_num \in 0 .. Len(datastructs) - 1,
             NEW bucket \in [1 .. Len(cachesims) -> Bucket], Access(ds_num, bucket)
      PROVE  FileInv'
  <2>1. /\ cachesims' = [i \in 1 .. Len(cachesims) |->
             [cachesims[i] EXCEPT
                !.count[<< PartitionFor(cachesims[i], ds_num), bucket[i] >>] = @ + 1]]
        /\ datastructs' = datastructs /\ csv' = csv /\ Running
    BY <1>1 DEF Access
  <2>2. Len(cachesims') = Len(cachesims)
    BY <1>1, ObjectNumbers, CountersGrow
  <2>3. \A i \in 1 .. Len(cachesims) : cachesims'[i].ds_nums = cachesims[i].ds_nums
    <3>1. \A i \in 1 .. Len(cachesims) : cachesims[i] \in Cache
      BY ElementOfSeq DEF TypeOK, Cache
    <3> QED  BY <2>1, <3>1 DEF Cache
  <2> QED  BY <2>1, <2>2, <2>3 DEF FileInv, Running
<1>2. ASSUME NEW nbytes \in Size, RegisterDatastruct(nbytes)
      PROVE  FileInv'
  <2> DEFINE added == AddedCaches(datastructs')
             new == [i \in 1 .. Len(added) |-> [ds_nums |-> added[i], count |-> Zero]]
  <2>1. /\ datastructs' = Append(datastructs, NewDatastruct(0, nbytes))
        /\ cachesims' = cachesims \o new /\ csv' = csv /\ Running
    BY <1>2 DEF RegisterDatastruct
  <2>2. /\ datastructs' \in Seq([address : Nat, nbytes : Nat, is_freed : BOOLEAN])
        /\ Len(datastructs') = Len(datastructs) + 1
        /\ Len(cachesims') = Len(cachesims) + Len(added) /\ Len(added) \in Nat
        /\ \A i \in 1 .. Len(cachesims) : cachesims'[i] = cachesims[i]
    <3>1. Len(datastructs') = Len(datastructs) + 1
      BY <2>1 DEF TypeOK
    <3> QED  BY <1>2, <3>1, CachesAdded
  <2>3. \A i \in 1 .. Len(added) : added[i] # {}
    <3>1. Len(datastructs') > 1
      BY <1>t, <2>2 DEF FileInv
    <3> QED  BY <2>2, <3>1, AddedCachesIsolate
  <2>4. ASSUME NEW i \in Len(cachesims) + 1 .. Len(cachesims')
        PROVE  cachesims'[i].ds_nums # {}
    <3>1. cachesims \in Seq(Cache) /\ new \in Seq(Cache) /\ Len(new) = Len(added)
      <4>1. added \in Seq(SUBSET Nat)
        BY <1>t, <2>2, AddedCachesType
      <4>2. \A j \in 1 .. Len(added) : added[j] \in SUBSET Nat
        BY <4>1, ElementOfSeq
      <4> HIDE DEF added
      <4>3. new \in [1 .. Len(added) -> Cache]
        BY <4>2, ZerosFacts DEF Cache
      <4> HIDE DEF new
      <4>4. Len(added) \in Nat
        BY <2>2 DEF added
      <4>5. new \in Seq(Cache) /\ Len(new) = Len(added)
        BY <4>3, <4>4, SeqOf
      <4>6. cachesims \in Seq(Cache)
        BY DEF TypeOK, Cache
      <4> QED  BY <4>5, <4>6 DEF new, added
    <3>2. i - Len(cachesims) \in 1 .. Len(added)
      BY <1>t, <2>2
    <3> HIDE DEF added
    <3>3. new[i - Len(cachesims)].ds_nums # {}
      BY <2>3, <3>2
    <3> HIDE DEF new
    <3>4. cachesims'[i] = new[i - Len(cachesims)]
      BY <1>t, <2>1, <2>2, <3>1, <3>2, ConcatProperties
    <3> QED  BY <3>3, <3>4
  <2> HIDE DEF added, new
  <2>5. \A i \in 1 .. Len(cachesims') : cachesims'[i].ds_nums = {} <=> i = 1
    <3>1. SUFFICES ASSUME NEW i \in 1 .. Len(cachesims')
                   PROVE  cachesims'[i].ds_nums = {} <=> i = 1
      OBVIOUS
    <3>2. CASE i \in 1 .. Len(cachesims)
      BY <2>2, <3>2 DEF FileInv
    <3>3. CASE i \notin 1 .. Len(cachesims)
      <4>1. i \in Len(cachesims) + 1 .. Len(cachesims') /\ i # 1
        BY <1>t, <2>2, <3>3 DEF FileInv
      <4> QED  BY <2>4, <4>1
    <3> QED  BY <3>2, <3>3
  <2> QED  BY <1>t, <2>1, <2>2, <2>5 DEF FileInv, Running
<1>3. CASE UNCHANGED << datastructs, cachesims >> /\ Running /\ csv' = csv
  BY <1>3 DEF FileInv, Running
<1>4. CASE Exit
  BY <1>4 DEF Exit, FileInv, Running, Rows, Snapshot
<1>5. CASE UNCHANGED vars
  BY <1>5 DEF vars, FileInv, Running, Rows, Snapshot
<1>6. ASSUME NEW p \in Ptr, StartRegion(p) \/ StopRegion(p) \/ MissedStop(p) \/ SurplusStop(p)
      PROVE  UNCHANGED << datastructs, cachesims >> /\ Running /\ csv' = csv
  BY <1>6 DEF StartRegion, StopRegion, MissedStop, SurplusStop, CallStopRegion
<1>7. CASE SkippedAccess
  BY <1>3, <1>7 DEF SkippedAccess
<1> QED  BY <1>1, <1>2, <1>3, <1>4, <1>5, <1>6, <1>7 DEF Next

\* An access is counted once for a region that is entered, and once for one
\* that has an activation.
LEMMA AccessLedger ==
  ASSUME LedgerInv, NEW ds_num \in Nat, NEW bucket \in [1 .. Len(cachesims) -> Bucket],
         Access(ds_num, bucket), NEW p \in Ptr
  PROVE  LedgerOf(p)'
<1> USE DEF LedgerInv
<1>1. PICK hit \in [1 .. Len(cachesims) -> Counter] : Abstract!Count(hit)
  BY AccessCounts
<1>2. During(p)' = IF Depth(p) <= 0 THEN During(p)
                   ELSE [i \in 1 .. Len(cachesims) |-> [During(p)[i] EXCEPT ![hit[i]] = @ + 1]]
  <2>1. [q \in Ptr |-> During(q)]' =
          [q \in Ptr |-> IF [r \in Ptr |-> Depth(r)][q] <= 0 THEN [r \in Ptr |-> During(r)][q]
                         ELSE [i \in 1 .. Len(cachesims) |->
                                 [[r \in Ptr |-> During(r)][q][i] EXCEPT ![hit[i]] = @ + 1]]]
    BY <1>1 DEF Abstract!Count
  <2>2. [q \in Ptr |-> During(q)'] =
          [q \in Ptr |-> IF Depth(q) <= 0 THEN During(q)
                         ELSE [i \in 1 .. Len(cachesims) |-> [During(q)[i] EXCEPT ![hit[i]] = @ + 1]]]
    BY <2>1
  <2>3. [q \in Ptr |-> During(q)'][p] =
          [q \in Ptr |-> IF Depth(q) <= 0 THEN During(q)
                         ELSE [i \in 1 .. Len(cachesims) |-> [During(q)[i] EXCEPT ![hit[i]] = @ + 1]]][p]
    BY <2>2
  <2> QED  BY <2>3
<1>t. 1 \in 1 .. Len(cachesims) /\ IsFiniteSet(Counter) /\ hit[1] \in Counter
  BY SnapshotFacts, CounterFinite DEF FileInv, IInv
<1>3. /\ During(p)[1] \in Counts /\ Counted(p) \in Nat
      /\ p \in DOMAIN regions => Booked(p) \in Nat
  BY CountedFacts DEF FileInv
<1>4. Counted(p)' = IF Depth(p) <= 0 THEN Counted(p) ELSE Counted(p) + 1
  <2>1. CASE Depth(p) <= 0
    BY <1>2, <2>1 DEF Counted
  <2>2. CASE ~ (Depth(p) <= 0)
    <3> DEFINE u == During(p)[1]
               w == During(p)'[1]
    <3>1. w = [u EXCEPT ![hit[1]] = @ + 1]
      BY <1>2, <1>t, <2>2
    <3>2. u \in Counts
      BY <1>3
    <3>3. Counted(p) = SumOf(u, Counter) /\ Counted(p)' = SumOf(w, Counter)
      BY DEF Counted, CounterSum
    <3> HIDE DEF u, w
    <3>4. \A c \in Counter : u[c] \in Nat /\ w[c] = IF c = hit[1] THEN u[c] + 1 ELSE u[c]
      BY <3>1, <3>2 DEF Counts
    <3>5. SumOf(w, Counter) = SumOf(u, Counter) + 1
      BY <1>t, <3>4, SumGrowsAt
    <3> QED  BY <2>2, <3>3, <3>5
  <2> QED  BY <2>1, <2>2
<1>5. /\ UNCHANGED << regions, inside, unpaired >>
      /\ Looked(p)' = Looked(p) + (IF inside[p] > 0 THEN 1 ELSE 0)
  <2>1. UNCHANGED << regions, inside, skipped, unpaired >>
    BY DEF Access
  <2>2. p \in Row /\ p # Main
    BY PtrAssumption DEF Row
  <2>3. total'[p] = total[p] + (IF inside[p] > 0 THEN 1 ELSE 0)
    BY <2>2 DEF Access, Counting, Active
  <2>4. total[p] \in Nat /\ skipped[p] \in Nat
    BY <2>2, LookedFacts DEF IInv
  <2> QED  BY <2>1, <2>3, <2>4 DEF Looked
<1>6. Depth(p)' = Depth(p) /\ (p \in DOMAIN regions => Booked(p)' = Booked(p))
  BY <1>5 DEF Depth, Booked, CounterSum, Counter
<1>7. Depth(p) \in Int /\ inside[p] \in Nat /\ Looked(p) \in Int
  BY MappedFacts, LookedFacts, RegionAssumption DEF IInv, TypeOK, Row
<1>8. LedgerOf(p)
  OBVIOUS
<1> HIDE DEF LedgerInv
<1> QED  BY <1>3, <1>4, <1>5, <1>6, <1>7, <1>8 DEF LedgerOf

\* A registration adds nothing to what the first cache has counted.
LEMMA RegisterLedger ==
  ASSUME LedgerInv, NEW nbytes \in Size, RegisterDatastruct(nbytes), NEW p \in Ptr
  PROVE  LedgerOf(p)'
<1> USE DEF LedgerInv
<1>t. Len(cachesims) \in Nat /\ 1 \in 1 .. Len(cachesims) /\ 1 \in 1 .. Len(cachesims')
  BY SnapshotFacts, CachesAdded DEF FileInv, IInv
<1>1. During(p)'[1] = During(p)[1]
  <2>1. [q \in Ptr |-> During(q)]' =
          [q \in Ptr |-> [i \in 1 .. Len(cachesims') |->
             IF i <= Len(cachesims) THEN [r \in Ptr |-> During(r)][q][i] ELSE Abstract!Zero]]
    BY RegisterGrows DEF Abstract!Grow
  <2>2. [q \in Ptr |-> During(q)']  =
          [q \in Ptr |-> [i \in 1 .. Len(cachesims') |->
             IF i <= Len(cachesims) THEN During(q)[i] ELSE Abstract!Zero]]
    BY <2>1
  <2>3. [q \in Ptr |-> During(q)'][p]  =
          [q \in Ptr |-> [i \in 1 .. Len(cachesims') |->
             IF i <= Len(cachesims) THEN During(q)[i] ELSE Abstract!Zero]][p]
    BY <2>2
  <2> QED  BY <1>t, <2>3
<1>2. Counted(p)' = Counted(p)
  BY <1>1 DEF Counted, CounterSum, Counter
<1>3. /\ DOMAIN regions' = DOMAIN regions /\ UNCHANGED << inside, unpaired >>
      /\ Looked(p)' = Looked(p)
  BY DEF RegisterDatastruct, Looked
<1>4. p \in DOMAIN regions => Booked(p)' = Booked(p) /\ Depth(p)' = Depth(p)
  BY <1>t, RegisterFits DEF Booked, CounterSum, Counter
<1>5. Depth(p)' = Depth(p)
  BY <1>3, <1>4 DEF Depth
<1>6. LedgerOf(p)
  OBVIOUS
<1> HIDE DEF LedgerInv
<1> QED  BY <1>2, <1>3, <1>4, <1>5, <1>6 DEF LedgerOf

\* An entry is one more on both sides.
LEMMA StartLedger ==
  ASSUME LedgerInv, NEW q \in Ptr, StartRegion(q), NEW p \in Ptr
  PROVE  LedgerOf(p)'
<1> USE DEF LedgerInv
<1>1. During(p)' = During(p) /\ Depth(p)' = IF p = q THEN Depth(p) + 1 ELSE Depth(p)
  BY StartEnters
<1>2. Counted(p)' = Counted(p)
  BY <1>1 DEF Counted, CounterSum, Counter
<1>3. /\ UNCHANGED << cachesims, unpaired >> /\ Looked(p)' = Looked(p)
      /\ inside'[p] = IF p = q THEN inside[p] + 1 ELSE inside[p]
  BY DEF StartRegion, IInv, TypeOK, Looked
<1>4. Depth(p) \in Int /\ inside[p] \in Nat /\ Looked(p) \in Int
  <2>1. inside[p] \in Nat
    BY RegionAssumption DEF IInv, TypeOK
  <2> QED  BY <2>1, MappedFacts, LookedFacts DEF IInv, Row
<1>5. ASSUME p \in DOMAIN regions', p \notin DOMAIN regions
      PROVE  Booked(p)' = 0 /\ Counted(p) = 0
  <2>1. p = q /\ regions'[p] = OnRegionEntry(NewRegion)
    BY <1>5 DEF StartRegion
  <2>2. Depth(p) = 0 /\ 0 \in Drift /\ 0 < MaxDepth
    BY <1>5, <2>1, RegionAssumption DEF Depth, Drift, StartRegion
  <2>3. Fits(NewRegion, 0, cachesims)
    BY NewRegionFits DEF IInv
  <2>4. regions'[p].buckets = NewRegion.buckets
    BY <2>1, <2>2, <2>3, EntryFits DEF IInv
  <2>5. 1 \in 1 .. Len(cachesims)
    BY SnapshotFacts DEF FileInv, IInv
  <2>6. NewRegion.buckets[1] = Zero
    BY <2>5 DEF NewRegion, Zeros
  <2>7. CounterSum(Zero) = 0
    BY CounterFinite, SumZero DEF CounterSum, Zero, Counts
  <2>8. Booked(p)' = CounterSum(regions'[p].buckets[1])
    BY DEF Booked, CounterSum, Counter
  <2> QED  BY <1>5, <2>4, <2>6, <2>7, <2>8, CountedFacts DEF FileInv
<1>6. ASSUME p \in DOMAIN regions
      PROVE  Booked(p)' = Booked(p) /\ Booked(p) \in Nat /\ Booked(p) <= Counted(p)
  <2>1. Booked(p) \in Nat /\ Booked(p) <= Counted(p)
    BY <1>6, CountedFacts DEF FileInv
  <2>2. CASE p # q
    BY <1>6, <2>1, <2>2 DEF StartRegion, Booked, CounterSum, Counter
  <2>3. CASE p = q
    <3>1. Fits(regions[p], Depth(p), cachesims) /\ Depth(p) \in Drift /\ Depth(p) < MaxDepth
      BY <1>6, <2>3 DEF IInv, RegionsFit, Fits, StartRegion
    <3>2. regions'[p] = OnRegionEntry(regions[p])
      BY <1>6, <2>3 DEF StartRegion
    <3>3. regions'[p].buckets = regions[p].buckets
      BY <3>1, <3>2, EntryFits DEF IInv
    <3> QED  BY <2>1, <3>3 DEF Booked, CounterSum, Counter
  <2> QED  BY <2>2, <2>3
<1>7. LedgerOf(p) /\ Counted(p) \in Nat
  BY CountedFacts DEF FileInv
<1>8. p \in DOMAIN regions' =>
        \/ p \in DOMAIN regions /\ Booked(p)' = Booked(p)
        \/ p \notin DOMAIN regions /\ Booked(p)' = 0 /\ Counted(p) = 0
  BY <1>5, <1>6
<1>9. \/ Depth(p)' = Depth(p) /\ inside'[p] = inside[p]
      \/ Depth(p)' = Depth(p) + 1 /\ inside'[p] = inside[p] + 1
  BY <1>1, <1>3
<1>10. unpaired' = unpaired /\ Looked(p)' = Looked(p)
  BY <1>3
<1>11. /\ p \notin unpaired.missed => Counted(p) <= Looked(p)
       /\ p \notin DOMAIN regions => Depth(p) = 0
  BY <1>7 DEF LedgerOf, Depth
<1>12. p \in unpaired.missed \ unpaired.surplus => p \in DOMAIN regions
  BY <1>4, <1>7, <1>11 DEF LedgerOf
<1> HIDE DEF LedgerInv
<1> QED  BY <1>2, <1>4, <1>7, <1>8, <1>9, <1>10, <1>11, <1>12 DEF LedgerOf

\* The mark of an end.
LEMMA StopCounts ==
  ASSUME LedgerInv, NEW q \in Ptr, CallStopRegion(q), NEW p \in Ptr
  PROVE  /\ Counted(p)' = Counted(p) /\ Looked(p)' = Looked(p)
         /\ Depth(p)' = IF p = q /\ p \in DOMAIN regions THEN Depth(p) - 1 ELSE Depth(p)
         /\ DOMAIN regions' = DOMAIN regions
         /\ p \in DOMAIN regions =>
              \/ Booked(p)' = Booked(p)
              \/ p = q /\ Depth(p) = 1 /\ Booked(p)' = Counted(p)
<1> USE DEF LedgerInv
<1>1. /\ Looked(p)' = Looked(p) /\ cachesims' = cachesims /\ DOMAIN regions' = DOMAIN regions
      /\ q \notin DOMAIN regions => regions' = regions
      /\ \A k \in DOMAIN regions :
           regions'[k] = IF k = q THEN OnRegionExit(regions[k]) ELSE regions[k]
  BY DEF CallStopRegion, Looked
<1>2. /\ During(p)' = During(p)
      /\ Depth(p)' = IF p = q /\ p \in DOMAIN regions THEN Depth(p) - 1 ELSE Depth(p)
  <2>1. CASE q \in DOMAIN regions
    BY <2>1, StopLeaves
  <2>2. CASE q \notin DOMAIN regions
    BY <1>1, <2>2 DEF During, Depth, Zeros, Zero, Counter
  <2> QED  BY <2>1, <2>2
<1>3. Counted(p)' = Counted(p)
  BY <1>2 DEF Counted, CounterSum, Counter
<1>4. ASSUME p \in DOMAIN regions
      PROVE  \/ Booked(p)' = Booked(p)
             \/ p = q /\ Depth(p) = 1 /\ Booked(p)' = Counted(p)
  <2>1. CASE p # q
    BY <1>1, <1>4, <2>1 DEF Booked, CounterSum, Counter
  <2>2. CASE p = q
    <3>1. Fits(regions[p], Depth(p), cachesims) /\ Depth(p) \in Drift /\ Depth(p) > -MaxSurplus
      BY <1>4, <2>2 DEF IInv, RegionsFit, Fits, CallStopRegion
    <3>2. regions'[p] = OnRegionExit(regions[p])
      BY <1>1, <1>4, <2>2
    <3>3. regions'[p].buckets = IF Depth(p) = 1 THEN AddSub(regions[p]) ELSE regions[p].buckets
      BY <3>1, <3>2, ExitFits DEF IInv
    <3>4. CASE Depth(p) # 1
      BY <3>3, <3>4 DEF Booked, CounterSum, Counter
    <3>5. CASE Depth(p) = 1
      <4>1. RegionsFit'
        BY StopFits
      <4>2. Depth(p)' = 0
        BY <1>2, <1>4, <2>2, <3>5
      <4>3. During(p)'[1] = [c \in Counter |-> regions'[p].buckets[1][c] + 0]
        <5>1. 1 \in 1 .. Len(cachesims)
          BY SnapshotFacts DEF FileInv, IInv
        <5> QED  BY <1>1, <1>4, <4>2, <5>1 DEF During
      <4>4. Counted(p)' = Booked(p)'
        <5> DEFINE b == regions'[p].buckets[1]
                   u == During(p)'[1]
        <5>1. \A c \in Counter : b[c] \in Nat
          <6>1. /\ regions'[p].buckets \in Seq(Counts)
                /\ Len(regions'[p].buckets) = Len(cachesims)
            BY <1>1, <1>4, <4>1 DEF RegionsFit, Fits, RegionState, Counts, Counter
          <6>2. 1 \in 1 .. Len(cachesims)
            BY SnapshotFacts DEF FileInv, IInv
          <6>3. b \in Counts
            BY <6>1, <6>2, ElementOfSeq
          <6> QED  BY <6>3 DEF Counts
        <5>2. u = [c \in Counter |-> b[c] + 0]
          BY <4>3
        <5>3. Counted(p)' = SumOf(u, Counter) /\ Booked(p)' = SumOf(b, Counter)
          BY DEF Counted, Booked, CounterSum, Counter
        <5> HIDE DEF b, u
        <5>4. \A c \in Counter : b[c] \in Nat /\ u[c] = b[c]
          BY <5>1, <5>2
        <5>5. SumOf(u, Counter) = SumOf(b, Counter)
          BY <5>4, CounterFinite, SumSame
        <5> QED  BY <5>3, <5>5
      <4> QED  BY <1>3, <2>2, <3>5, <4>4
    <3> QED  BY <3>4, <3>5
  <2> QED  BY <2>1, <2>2
<1> QED  BY <1>1, <1>2, <1>3, <1>4

\* A marked end, an end that is not marked, and a mark without an end.
LEMMA EndLedger ==
  ASSUME LedgerInv, NEW q \in Ptr, StopRegion(q) \/ MissedStop(q) \/ SurplusStop(q),
         NEW p \in Ptr
  PROVE  LedgerOf(p)'
<1>t. /\ LedgerOf(p) /\ Counted(p) \in Nat /\ IInv
      /\ p \in DOMAIN regions => Booked(p) \in Nat /\ Booked(p) <= Counted(p)
      /\ Depth(p) \in Int /\ inside[p] \in Nat /\ Looked(p) \in Int
      /\ inside \in [Ptr -> Int] /\ unpaired \in [missed : SUBSET Ptr, surplus : SUBSET Ptr]
  <2>1. IInv /\ Len(cachesims) > 0 /\ LedgerOf(p)
    BY DEF LedgerInv, FileInv
  <2>2. inside \in [Ptr -> Int] /\ inside[p] \in Nat /\ Looked(p) \in Int
    BY <2>1, LookedFacts, RegionAssumption DEF IInv, TypeOK, Row
  <2> QED  BY <2>1, <2>2, CountedFacts, MappedFacts DEF IInv, TypeOK
<1>1. CASE StopRegion(q)
  <2>1. CallStopRegion(q) /\ unpaired' = unpaired /\ inside[q] > 0
        /\ inside'[p] = IF p = q THEN inside[p] - 1 ELSE inside[p]
    BY <1>1, <1>t DEF StopRegion
  <2>2. /\ Counted(p)' = Counted(p) /\ Looked(p)' = Looked(p)
        /\ Depth(p)' = IF p = q /\ p \in DOMAIN regions THEN Depth(p) - 1 ELSE Depth(p)
        /\ DOMAIN regions' = DOMAIN regions
        /\ p \in DOMAIN regions =>
             \/ Booked(p)' = Booked(p)
             \/ p = q /\ Depth(p) = 1 /\ Booked(p)' = Counted(p)
    BY <2>1, StopCounts
  <2>3. p \notin DOMAIN regions => Depth(p) = 0
    BY DEF Depth
  <2> QED  BY <1>t, <2>1, <2>2, <2>3 DEF LedgerOf
<1>2. CASE MissedStop(q)
  <2>1. /\ UNCHANGED << cachesims, regions >> /\ Looked(p)' = Looked(p)
        /\ unpaired'.missed = unpaired.missed \cup {q} /\ unpaired'.surplus = unpaired.surplus
        /\ inside'[p] = IF p = q THEN inside[p] - 1 ELSE inside[p]
    BY <1>2, <1>t DEF MissedStop, Looked
  <2>2. Counted(p)' = Counted(p) /\ Depth(p)' = Depth(p) /\ Booked(p)' = Booked(p)
    BY <2>1 DEF Counted, Depth, Booked, During, CounterSum, Counter, Zeros, Zero
  <2> QED  BY <1>t, <2>1, <2>2 DEF LedgerOf
<1>3. CASE SurplusStop(q)
  <2>1. /\ CallStopRegion(q) /\ inside' = inside
        /\ unpaired'.missed = unpaired.missed /\ unpaired'.surplus = unpaired.surplus \cup {q}
    BY <1>3, <1>t DEF SurplusStop
  <2>2. /\ Counted(p)' = Counted(p) /\ Looked(p)' = Looked(p)
        /\ Depth(p)' = IF p = q /\ p \in DOMAIN regions THEN Depth(p) - 1 ELSE Depth(p)
        /\ DOMAIN regions' = DOMAIN regions
        /\ p \in DOMAIN regions =>
             \/ Booked(p)' = Booked(p)
             \/ p = q /\ Depth(p) = 1 /\ Booked(p)' = Counted(p)
    BY <2>1, StopCounts
  <2> QED  BY <1>t, <2>1, <2>2 DEF LedgerOf
<1> QED  BY <1>1, <1>2, <1>3

\* A skipped access is made and not looked at.
LEMMA SkippedLooked ==
  ASSUME TypeOK, SkippedAccess, NEW k \in Row
  PROVE  Looked(k)' = Looked(k)
<1> DEFINE more == IF Active(k) THEN 1 ELSE 0
<1>1. total'[k] = total[k] + more /\ skipped'[k] = skipped[k] + more
  BY DEF SkippedAccess, Counting
<1>2. total[k] \in Nat /\ skipped[k] \in Nat /\ more \in Nat
  BY LookedFacts
<1> HIDE DEF more
<1> QED  BY <1>1, <1>2 DEF Looked

\* The first cache counts each access that is looked at, and keeps its counters
\* otherwise.
LEMMA NextMain ==
  ASSUME LedgerInv, [Next]_vars
  PROVE  MainLedger'
<1> USE DEF LedgerInv, IInv
<1>t. Len(cachesims) \in Nat /\ 1 \in 1 .. Len(cachesims) /\ Main \in Row
  BY SnapshotFacts DEF FileInv, Row
<1>0. CASE cachesims'[1] = cachesims[1] /\ Looked(Main)' = Looked(Main)
  BY <1>0 DEF MainLedger, CounterSum, Counter
<1>1. ASSUME NEW ds_num \in 0 .. Len(datastructs) - 1,
             NEW bucket \in [1 .. Len(cachesims) -> Bucket], Access(ds_num, bucket)
      PROVE  MainLedger'
  <2>1. PICK hit \in [1 .. Len(cachesims) -> Counter] : \A i \in 1 .. Len(cachesims) :
          /\ cachesims'[i].count \in Counts
          /\ \A c \in Counter : cachesims'[i].count[c] =
               IF c = hit[i] THEN cachesims[i].count[c] + 1 ELSE cachesims[i].count[c]
    BY <1>1, ObjectNumbers, CountersGrow
  <2> DEFINE u == cachesims[1].count
             w == cachesims'[1].count
  <2>2. /\ u \in Counts /\ hit[1] \in Counter
        /\ \A c \in Counter : w[c] = IF c = hit[1] THEN u[c] + 1 ELSE u[c]
    BY <1>t, <2>1, SnapshotFacts
  <2>3. Looked(Main)' = Looked(Main) + 1
    <3>1. total'[Main] = total[Main] + 1 /\ skipped' = skipped
      BY <1>1, <1>t DEF Access, Counting, Active
    <3>2. total[Main] \in Nat /\ skipped[Main] \in Nat
      BY <1>t, LookedFacts
    <3> QED  BY <3>1, <3>2 DEF Looked
  <2>4. SumOf(u, Counter) = Looked(Main)
    BY DEF MainLedger, CounterSum
  <2>5. MainLedger' <=> SumOf(w, Counter) = Looked(Main)'
    BY DEF MainLedger, CounterSum, Counter
  <2> HIDE DEF u, w
  <2>6. SumOf(w, Counter) = SumOf(u, Counter) + 1
    <3>1. \A c \in Counter : u[c] \in Nat /\ w[c] = IF c = hit[1] THEN u[c] + 1 ELSE u[c]
      BY <2>2 DEF Counts
    <3> QED  BY <2>2, <3>1, CounterFinite, SumGrowsAt
  <2> QED  BY <2>3, <2>4, <2>5, <2>6
<1>2. ASSUME NEW nbytes \in Size, RegisterDatastruct(nbytes)
      PROVE  MainLedger'
  BY <1>0, <1>2, <1>t, CachesAdded DEF RegisterDatastruct, Looked
<1>3. ASSUME NEW p \in Ptr, StartRegion(p) \/ StopRegion(p) \/ MissedStop(p) \/ SurplusStop(p)
      PROVE  MainLedger'
  BY <1>0, <1>3 DEF StartRegion, StopRegion, MissedStop, SurplusStop, CallStopRegion, Looked
<1>4. CASE SkippedAccess
  <2>1. Looked(Main)' = Looked(Main)
    BY <1>4, <1>t, SkippedLooked
  <2> QED  BY <1>0, <1>4, <2>1 DEF SkippedAccess
<1>5. CASE Exit \/ UNCHANGED vars
  BY <1>0, <1>5 DEF Exit, vars, Looked
<1> QED  BY <1>1, <1>2, <1>3, <1>4, <1>5 DEF Next

\* The invariant holds in every reachable state.
THEOREM LedgerInvariance == Spec => []LedgerInv
<1>1. LedgerInv /\ [Next]_vars => LedgerInv'
  <2> SUFFICES ASSUME LedgerInv, [Next]_vars PROVE LedgerInv'
    OBVIOUS
  <2>1. IInv'
    BY NextFits DEF LedgerInv
  <2>2. FileInv'
    BY NextFile
  <2>3. ASSUME NEW p \in Ptr PROVE LedgerOf(p)'
    <3>1. ASSUME NEW ds_num \in 0 .. Len(datastructs) - 1,
                 NEW bucket \in [1 .. Len(cachesims) -> Bucket], Access(ds_num, bucket)
          PROVE  LedgerOf(p)'
      <4>1. ds_num \in Nat
        BY ObjectNumbers DEF LedgerInv, IInv
      <4> QED  BY <3>1, <4>1, AccessLedger
    <3>2. ASSUME NEW nbytes \in Size, RegisterDatastruct(nbytes) PROVE LedgerOf(p)'
      BY <3>2, RegisterLedger
    <3>3. ASSUME NEW q \in Ptr, StartRegion(q) PROVE LedgerOf(p)'
      BY <3>3, StartLedger
    <3>4. ASSUME NEW q \in Ptr, StopRegion(q) \/ MissedStop(q) \/ SurplusStop(q)
          PROVE  LedgerOf(p)'
      BY <3>4, EndLedger
    <3>5. CASE UNCHANGED << cachesims, regions, inside, unpaired >> /\ Looked(p)' = Looked(p)
      <4>1. Counted(p)' = Counted(p) /\ Depth(p)' = Depth(p) /\ Booked(p)' = Booked(p)
        BY <3>5 DEF Counted, Depth, Booked, During, CounterSum, Counter, Zeros, Zero
      <4> QED  BY <3>5, <4>1 DEF LedgerOf, LedgerInv
    <3>6. CASE SkippedAccess
      <4>1. Looked(p)' = Looked(p)
        BY <3>6, SkippedLooked DEF LedgerInv, IInv, Row
      <4> QED  BY <3>5, <3>6, <4>1 DEF SkippedAccess
    <3>7. CASE Exit \/ UNCHANGED vars
      BY <3>5, <3>7 DEF Exit, vars, Looked
    <3> QED  BY <3>1, <3>2, <3>3, <3>4, <3>6, <3>7 DEF Next
  <2>4. MainLedger'
    BY NextMain
  <2> QED  BY <2>1, <2>2, <2>3, <2>4 DEF LedgerInv
<1> QED  BY <1>1, InitLedger, PTL DEF Spec

\* No region has counted more accesses than were made in it and looked at,
\* unless both an exit was missed and another one was too many (region.cpp).
THEOREM NoOvercount == Spec => []NeverOvercounts
<1>1. LedgerInv => NeverOvercounts
  <2> SUFFICES ASSUME LedgerInv, NEW p \in DOMAIN regions,
                      p \notin unpaired.missed \cap unpaired.surplus
               PROVE  CounterSum(regions[p].buckets[1]) <= Looked(p)
    BY DEF NeverOvercounts
  <2>1. p \in Ptr
    BY DEF LedgerInv, IInv, TypeOK
  <2> QED  BY <2>1 DEF LedgerInv, LedgerOf, Booked
<1> QED  BY <1>1, LedgerInvariance, PTL

\* access_in_region (pincpt.py) is, for a region as for the whole run, the
\* number of accesses that were looked at, when the regions' entries and exits
\* are paired and all have been left; and 0 when no pair of objects is isolated.
THEOREM AccessesHold == Spec => []AccessInRegionExact
<1>1. ASSUME LedgerInv
      PROVE  AccessInRegionExact
  <2> SUFFICES ASSUME ~Running, NEW n \in Name,
                      \A p \in {k \in Row : NameIn(k) = n} \ {Main} :
                        inside[p] = 0 /\ p \notin unpaired.missed \cup unpaired.surplus
               PROVE  AccessInRegion(n) =
                        IF HasPair
                        THEN SumOf([k \in {r \in Row : NameIn(r) = n} |-> Looked(k)],
                                   {k \in Row : NameIn(k) = n})
                        ELSE 0
    BY DEF AccessInRegionExact
  <2> DEFINE of == {k \in Row : NameIn(k) = n}
             rows == {k \in DOMAIN csv : NameIn(k) = n}
             sum(k) == SumOf([i \in Unpartitioned |-> CounterSum(csv[k][i])], Unpartitioned)
             sums == [k \in rows |-> sum(k)]
             looked == [k \in of |-> Looked(k)]
  <2>t. IInv /\ Len(cachesims) \in Nat /\ Len(cachesims) > 0 /\ csv = Rows
    BY <1>1, SnapshotFacts DEF LedgerInv, FileInv, IInv
  <2>1. /\ rows = {k \in of : k = Main \/ k \in DOMAIN regions}
        /\ \A k \in rows : csv[k] = IF k = Main THEN Snapshot ELSE regions[k].buckets
    <3>1. DOMAIN regions \subseteq Ptr /\ Main \notin DOMAIN regions
      BY <2>t, PtrAssumption DEF IInv, TypeOK
    <3> QED  BY <2>t, <3>1 DEF Rows, Row
  <2>2. Unpartitioned = IF HasPair THEN {1} ELSE {}
    BY <1>1, <2>t DEF LedgerInv, FileInv, Unpartitioned
  <2>3. IsFiniteSet(of) /\ IsFiniteSet(rows) /\ rows \subseteq of
    <3>1. IsFiniteSet(Row)
      BY PtrAssumption, FS_Singleton, FS_Union DEF Row
    <3>2. IsFiniteSet(of)
      BY <3>1, FS_Subset
    <3>3. rows \subseteq of
      BY <2>1
    <3> HIDE DEF rows, of
    <3> QED  BY <3>2, <3>3, FS_Subset
  <2>4. AccessInRegion(n) = SumOf(sums, rows)
    BY DEF AccessInRegion
  <2>5. CASE ~HasPair
    <3>1. \A k \in rows : sums[k] = SumOf([i \in {} |-> CounterSum(csv[k][i])], {})
      BY <2>2, <2>5
    <3>2. \A f : SumOf(f, {}) = 0
      BY SumEmpty
    <3>3. \A k \in rows : sums[k] = 0
      BY <3>1, <3>2
    <3> HIDE DEF sums, rows
    <3>4. SumOf(sums, rows) = 0
      BY <2>3, <3>3, SumZero
    <3> QED  BY <2>4, <2>5, <3>4
  <2>6. CASE HasPair
    <3>1. \A k \in of : /\ looked[k] \in Nat
                        /\ k \in rows => CounterSum(csv[k][1]) = looked[k]
                        /\ k \notin rows => looked[k] = 0
      <4> SUFFICES ASSUME NEW k \in of
                   PROVE  /\ Looked(k) \in Nat
                          /\ k \in rows => CounterSum(csv[k][1]) = Looked(k)
                          /\ k \notin rows => Looked(k) = 0
        OBVIOUS
      <4>1. CASE k = Main
        <5>1. csv[Main][1] = cachesims[1].count /\ cachesims[1].count \in Counts
          BY <2>t, <2>1, <4>1, SnapshotFacts DEF IInv
        <5>2. CounterSum(cachesims[1].count) \in Nat
          BY <5>1, CounterFinite, SumType DEF CounterSum, Counts
        <5>3. CounterSum(cachesims[1].count) = Looked(Main)
          BY <1>1 DEF LedgerInv, MainLedger
        <5> QED  BY <2>1, <4>1, <5>1, <5>2, <5>3
      <4>2. CASE k # Main
        <5>1. k \in Ptr /\ k \in Row
          BY <4>2 DEF Row
        <5>2. LedgerOf(k) /\ Looked(k) \in Int
          BY <1>1, <5>1, LookedFacts DEF LedgerInv, IInv
        <5>3. Counted(k) = Looked(k) /\ Depth(k) <= 0
          BY <4>2, <5>2 DEF LedgerOf
        <5>4. /\ Looked(k) \in Nat
              /\ k \in DOMAIN regions => Booked(k) = Looked(k)
              /\ k \notin DOMAIN regions => Looked(k) = 0
          BY <2>t, <5>1, <5>3, CountedFacts
        <5> QED  BY <2>1, <4>2, <5>4 DEF Booked
      <4> QED  BY <4>1, <4>2
    <3>2. ASSUME NEW k \in rows PROVE sum(k) = looked[k]
      <4> DEFINE f == [i \in Unpartitioned |-> CounterSum(csv[k][i])]
      <4>1. f[1] = looked[k] /\ looked[k] \in Nat
        BY <2>2, <2>3, <2>6, <3>1, <3>2
      <4> HIDE DEF f
      <4>2. SumOf(f, {1}) = f[1]
        BY <4>1, SumSingleton
      <4> QED  BY <2>2, <2>6, <4>1, <4>2 DEF f
    <3>3. \A k \in rows : sums[k] = looked[k]
      BY <3>2
    <3> HIDE DEF sums, rows, of, looked
    <3>4. SumOf(sums, rows) = SumOf(looked, rows)
      BY <2>3, <3>1, <3>3, SumSame
    <3>5. SumOf(looked, of) = SumOf(looked, rows)
      BY <2>3, <3>1, SumDropsZeros
    <3> QED  BY <2>4, <2>6, <3>4, <3>5 DEF looked, of
  <2> QED  BY <2>5, <2>6
<1> QED  BY <1>1, LedgerInvariance, PTL
=============================================================================
