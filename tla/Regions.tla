------------------------------ MODULE Regions ------------------------------
(***************************************************************************)
(* Class Region (src/region.h, src/region.cpp) with the functions that     *)
(* call it (src/imgload.cpp) on what it reads and what changes under it:   *)
(* the counters of the caches and the vector of caches, which registered   *)
(* data objects extend.  Regions are found by a pointer to their name.     *)
(*                                                                         *)
(* Of a cache only the counters are kept.  An access increments one of     *)
(* them in every cache; which one is the matter of CacheSim.  Each action  *)
(* holds g_rwlock, for reading (Access) or for writing (all others).       *)
(***************************************************************************)
EXTENDS Datastructs, Sums, Integers

CONSTANTS
  Bucket,
  Ptr,          \* the pointers to names that the target and ImageLoad pass
  NameOf,       \* the name each pointer points to, as print_csv demangles it
  Modulus,      \* 2^w for the width w of thread_count_
  Size,         \* nbytes of the objects the target may allocate
  MaxDepth,     \* bound: activations of one region, and entries without an exit
  MaxSurplus,   \* bound: exits of one region without an entry
  MaxUnpaired,  \* bound: regions with missed exits, and with exits too many
  MaxObjects,   \* bound: data objects besides number 0
  MaxAccesses   \* bound: memory blocks accessed

ASSUME RegionAssumption ==
  /\ MaxDepth \in Nat /\ MaxSurplus \in Nat /\ MaxUnpaired \in Nat
  /\ Modulus \in Nat /\ MaxDepth + MaxSurplus < Modulus
  /\ Size \subseteq Nat
  /\ MaxObjects \in Nat /\ MaxAccesses \in Nat

VARIABLES
  datastructs,  \* Datastruct::datastructs
  cachesims,    \* g_cachesims
  regions,      \* g_regions
  csv,          \* the rows RD_print_csv wrote; nothing before Exit
  inside,       \* history: activations each region has in the target
  total,        \* history: accesses made while a region had an activation
  skipped,      \* history: those of them that RD_accessBlock did not look at
  unpaired      \* history: the regions with an exit missed, or one too many

vars == << datastructs, cachesims, regions, csv, inside, total, skipped, unpaired >>

Counter == (0 .. 1) \X Bucket
Zero == [c \in Counter |-> 0]
Zeros(n) == [i \in 1 .. n |-> Zero]

Main == "main"

ASSUME PtrAssumption == IsFiniteSet(Ptr) /\ IsFiniteSet(Bucket) /\ Main \notin Ptr

\* What rows of the file are about: a region, or the whole run.  A region may
\* have the name of the latter.
Row == Ptr \cup {Main}
NameIn(k) == IF k = Main THEN Main ELSE NameOf[k]
Name == {NameIn(k) : k \in Row}

\* Region::Region: zero for every cache there is.
NewRegion ==
  [thread_count  |-> 0,
   buckets       |-> Zeros(Len(cachesims)),
   buckets_entry |-> Zeros(Len(cachesims))]

\* thread_count_ is unsigned; as a signed number it is the entries minus the
\* exits.
Incr(n) == IF n = Modulus - 1 THEN 0 ELSE n + 1
Decr(n) == IF n = 0 THEN Modulus - 1 ELSE n - 1
Signed(n) == IF n > MaxDepth THEN n - Modulus ELSE n

Snapshot == [i \in 1 .. Len(cachesims) |-> cachesims[i].count]

\* A wrong on_region_entry: each thread takes a snapshot.
OnRegionEntryAlways(r) ==
  [r EXCEPT !.thread_count = Incr(@), !.buckets_entry = Snapshot]

\* on_region_entry: only the first thread takes the snapshot.
OnRegionEntry(r) ==
  IF Incr(r.thread_count) > 1
  THEN [r EXCEPT !.thread_count = Incr(@)]
  ELSE [r EXCEPT !.thread_count = Incr(@), !.buckets_entry = Snapshot]

\* A wrong add_sub: the operands are swapped.
AddSubSwapped(r) ==
  [i \in 1 .. Len(cachesims) |->
     [c \in Counter |-> r.buckets[i][c] + r.buckets_entry[i][c] - cachesims[i].count[c]]]

\* Bucket::add_sub for all counters of all caches.
AddSub(r) ==
  [i \in 1 .. Len(cachesims) |->
     [c \in Counter |-> r.buckets[i][c] + cachesims[i].count[c] - r.buckets_entry[i][c]]]

\* A wrong on_region_exit: an int wraps to a number below zero.
OnRegionExitSigned(r) ==
  IF Decr(r.thread_count) > 0 /\ r.thread_count > 0
  THEN [r EXCEPT !.thread_count = Decr(@)]
  ELSE [r EXCEPT !.thread_count = Decr(@), !.buckets = AddSub(r)]

\* on_region_exit: the last thread leaving the region does the counting.
OnRegionExit(r) ==
  IF Decr(r.thread_count) > 0
  THEN [r EXCEPT !.thread_count = Decr(@)]
  ELSE [r EXCEPT !.thread_count = Decr(@), !.buckets = AddSub(r)]

\* A wrong combine: the regions do not learn of the caches it adds.
RegisteredOnce(r, n) ==
  [r EXCEPT !.buckets = @ \o Zeros(1), !.buckets_entry = @ \o Zeros(1)]

\* Region::register_datastruct, for each of n caches.
Registered(r, n) ==
  [r EXCEPT !.buckets = @ \o Zeros(n), !.buckets_entry = @ \o Zeros(n)]

Init ==
  /\ datastructs = << NewDatastruct(0, 0) >>
  /\ cachesims = << [ds_nums |-> {}, count |-> Zero] >>
  /\ regions = << >>
  /\ csv = << >>
  /\ inside = [p \in Ptr |-> 0]
  /\ total = [k \in Row |-> 0]
  /\ skipped = [k \in Row |-> 0]
  /\ unpaired = [missed |-> {}, surplus |-> {}]

Running == csv = << >>

FewUnpaired ==
  Cardinality(unpaired.missed) + Cardinality(unpaired.surplus) <= MaxUnpaired

\* Entries of a region minus exits, as the region knows them.
Depth(p) == IF p \in DOMAIN regions THEN Signed(regions[p].thread_count) ELSE 0

-----------------------------------------------------------------------------
Active(k) == k = Main \/ inside[k] > 0
Counting(history) == [k \in Row |-> history[k] + (IF Active(k) THEN 1 ELSE 0)]

\* RD_accessBlock on a block of data object ds_num, in the order of the caches.
Access(ds_num, bucket) ==
  /\ Running /\ total[Main] < MaxAccesses
  /\ cachesims' = [i \in 1 .. Len(cachesims) |->
       [cachesims[i] EXCEPT !.count[<< PartitionFor(cachesims[i], ds_num), bucket[i] >>] = @ + 1]]
  /\ total' = Counting(total)
  /\ UNCHANGED << datastructs, regions, csv, inside, skipped, unpaired >>

\* RD_accessBlock on the block that its thread accessed before.
SkippedAccess ==
  /\ Running /\ 0 < total[Main] /\ total[Main] < MaxAccesses
  /\ total' = Counting(total)
  /\ skipped' = Counting(skipped)
  /\ UNCHANGED << datastructs, cachesims, regions, csv, inside, unpaired >>

\* handle_datastruct with register_datastruct and combine.
RegisterDatastruct(nbytes) ==
  /\ Running /\ nbytes > DatastructThreshold
  /\ Len(datastructs) <= MaxObjects
  /\ datastructs' = Append(datastructs, NewDatastruct(0, nbytes))
  /\ LET added == AddedCaches(datastructs')
     IN  /\ cachesims' = cachesims \o
              [i \in 1 .. Len(added) |-> [ds_nums |-> added[i], count |-> Zero]]
         /\ regions' = [p \in DOMAIN regions |-> Registered(regions[p], Len(added))]
  /\ UNCHANGED << csv, inside, total, skipped, unpaired >>

\* PINDIST_start_region_
StartRegion(p) ==
  /\ Running /\ inside[p] < MaxDepth /\ Depth(p) < MaxDepth
  /\ inside' = [inside EXCEPT ![p] = @ + 1]
  /\ regions' = [q \in DOMAIN regions \cup {p} |->
       IF q # p THEN regions[q]
       ELSE OnRegionEntry(IF p \in DOMAIN regions THEN regions[p] ELSE NewRegion)]
  /\ UNCHANGED << datastructs, cachesims, csv, total, skipped, unpaired >>

\* PINDIST_stop_region_: without assertions an unknown pointer changes nothing.
CallStopRegion(p) ==
  /\ Running /\ Depth(p) > -MaxSurplus
  /\ regions' = IF p \in DOMAIN regions THEN [regions EXCEPT ![p] = OnRegionExit(@)]
                                        ELSE regions
  /\ UNCHANGED << datastructs, cachesims, csv, total, skipped >>

\* An activation ends: its end is marked ...
StopRegion(p) ==
  /\ inside[p] > 0
  /\ inside' = [inside EXCEPT ![p] = @ - 1]
  /\ CallStopRegion(p)
  /\ UNCHANGED unpaired

\* ... or it is not: IPOINT_AFTER does not see every return, and a target may
\* pass another pointer to the name than it passed at the start.
MissedStop(p) ==
  /\ Running /\ inside[p] > 0
  /\ inside' = [inside EXCEPT ![p] = @ - 1]
  /\ unpaired' = [unpaired EXCEPT !.missed = @ \cup {p}]
  /\ FewUnpaired'
  /\ UNCHANGED << datastructs, cachesims, regions, csv, total, skipped >>

\* The target marks an end where no activation ends.
SurplusStop(p) ==
  /\ CallStopRegion(p)
  /\ unpaired' = [unpaired EXCEPT !.surplus = @ \cup {p}]
  /\ FewUnpaired'
  /\ UNCHANGED inside

\* A wrong RD_print_csv: the sums are those of the first region found.
RowsOfOne ==
  [k \in {Main} \cup DOMAIN regions |->
     IF k = Main THEN Snapshot ELSE regions[CHOOSE p \in DOMAIN regions : TRUE].buckets]

\* RD_print_csv and Region::print_csv: per cache the counters since the start,
\* and those of each region.
Rows ==
  [k \in {Main} \cup DOMAIN regions |-> IF k = Main THEN Snapshot ELSE regions[k].buckets]

Exit ==
  /\ Running
  /\ csv' = Rows
  /\ UNCHANGED << datastructs, cachesims, regions, inside, total, skipped, unpaired >>

Next ==
  \/ \E ds_num \in 0 .. Len(datastructs) - 1 :
       \E bucket \in [1 .. Len(cachesims) -> Bucket] : Access(ds_num, bucket)
  \/ SkippedAccess
  \/ \E nbytes \in Size : RegisterDatastruct(nbytes)
  \/ \E p \in Ptr : StartRegion(p) \/ StopRegion(p) \/ MissedStop(p) \/ SurplusStop(p)
  \/ Exit

Spec == Init /\ [][Next]_vars

-----------------------------------------------------------------------------
Counts == [Counter -> Nat]

TypeOK ==
  /\ datastructs \in Seq([address : Nat, nbytes : Nat, is_freed : BOOLEAN])
  /\ cachesims \in Seq([ds_nums : SUBSET Nat, count : Counts])
  /\ DOMAIN regions \subseteq Ptr
  /\ \A p \in DOMAIN regions : regions[p] \in
       [thread_count : 0 .. Modulus - 1, buckets : Seq(Counts), buckets_entry : Seq(Counts)]
  /\ inside \in [Ptr -> 0 .. MaxDepth]
  /\ total \in [Row -> Nat]
  /\ skipped \in [Row -> Nat]
  /\ unpaired \in [missed : SUBSET Ptr, surplus : SUBSET Ptr]

\* on_region_entry and on_region_exit index both vectors of a region with the
\* number of a cache: whenever regions are created and objects registered, each
\* has exactly one element per cache.
RegionsAligned ==
  \A p \in DOMAIN regions :
    /\ Len(regions[p].buckets) = Len(cachesims)
    /\ Len(regions[p].buckets_entry) = Len(cachesims)

\* The sums of a region, with what the activation in progress will add to them.
During(p) ==
  IF p \notin DOMAIN regions THEN Zeros(Len(cachesims))
  ELSE [i \in 1 .. Len(cachesims) |->
          [c \in Counter |->
             regions[p].buckets[i][c] +
               (IF Depth(p) <= 0 THEN 0
                ELSE cachesims[i].count[c] - regions[p].buckets_entry[i][c])]]

Abstract == INSTANCE RegionCount WITH
  caches <- Len(cachesims),
  depth <- [p \in Ptr |-> Depth(p)],
  during <- [p \in Ptr |-> During(p)]

\* A region's numbers are what the caches counted while it had more entries than
\* exits, however the activations of threads overlap, whatever is registered
\* meanwhile, and although an exit too many wraps thread_count_.
ImplementsRegionCount == Abstract!Spec

CounterSum(f) == SumOf(f, Counter)

\* df['data_object'] == NO_DATASTRUCT: a string, as the column is when the
\* file has a name that is no number, that of a pair.
HasPair == \E i \in 1 .. Len(cachesims) : Cardinality(cachesims[i].ds_nums) > 1
Unpartitioned == {i \in 1 .. Len(cachesims) : HasPair /\ cachesims[i].ds_nums = {}}

\* access_in_region of pincpt.py: the rows of data object 0 with the name n.
AccessInRegion(n) ==
  LET sum(k) == SumOf([i \in Unpartitioned |-> CounterSum(csv[k][i])], Unpartitioned)
      rows == {k \in DOMAIN csv : NameIn(k) = n}
  IN  SumOf([k \in rows |-> sum(k)], rows)

\* The accesses that RD_accessBlock looked at.
Looked(k) == total[k] - skipped[k]

\* What pincpt.py reads from the file for a name, its "total number of memory
\* accesses in each region", is the number of accesses made in the regions of
\* that name less those that RD_accessBlock skipped, if the entries and exits
\* are paired and all have been left.  A region named like the row of the whole
\* run is added to that row; in a run without a pair of large objects it finds
\* no row and says 0 (pincpt.py:11).
AccessInRegionExact ==
  ~Running =>
    \A n \in Name :
      LET of == {k \in Row : NameIn(k) = n}
      IN  (\A p \in of \ {Main} : inside[p] = 0 /\ p \notin unpaired.missed \cup unpaired.surplus)
            => AccessInRegion(n) = IF HasPair THEN SumOf([k \in of |-> Looked(k)], of) ELSE 0

\* Exits that are missed lose accesses of a region and never add any, and so do
\* exits too many: unless it has both, no region has counted more accesses than
\* were made in it and looked at.
NeverOvercounts ==
  \A p \in DOMAIN regions :
    p \notin unpaired.missed \cap unpaired.surplus =>
      CounterSum(regions[p].buckets[1]) <= Looked(p)
=============================================================================
