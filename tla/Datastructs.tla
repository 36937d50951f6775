---------------------------- MODULE Datastructs ----------------------------
(***************************************************************************)
(* Class Datastruct (src/datastructs.h, src/datastructs.cpp): the registry *)
(* of the target's data objects and the caches each of them adds.          *)
(*                                                                         *)
(* The vector is a sequence; data object k of the source is element k + 1. *)
(* Data object 0 stands for everything that is no registered data object.  *)
(***************************************************************************)
EXTENDS Naturals, Sequences, FiniteSets

CONSTANTS
  DatastructThreshold,  \* RD_DATASTRUCT_THRESHOLD
  CombineThreshold      \* RD_COMBINE_THRESHOLD

ASSUME ThresholdAssumption ==
  DatastructThreshold \in Nat /\ CombineThreshold \in Nat

NoDatastruct == 0

\* What the replaced allocation functions fill in.
NewDatastruct(address, nbytes) ==
  [address |-> address, nbytes |-> nbytes, is_freed |-> FALSE]

Contains(ds, addr) ==
  ~ds.is_freed /\ ds.address <= addr /\ addr < ds.address + ds.nbytes

\* datastruct_num: the first data object in the vector that contains addr.
DatastructNum(datastructs, addr) ==
  LET found == {i \in 1 .. Len(datastructs) : Contains(datastructs[i], addr)}
  IN  IF found = {} THEN NoDatastruct
      ELSE (CHOOSE i \in found : \A j \in found : i <= j) - 1

Large(datastructs, S) == {j \in S : datastructs[j + 1].nbytes >= CombineThreshold}

\* {k, j} for each j of a set of numbers, from the smallest j on.
Pairs(k, S) ==
  [i \in 1 .. Cardinality(S) |-> {k} \cup {j \in S : Cardinality({l \in S : l < j}) = i - 1}]

\* A wrong combine: the loop ends one data object too late.
CombineWithItself(datastructs) ==
  LET k == Len(datastructs) - 1
  IN  IF datastructs[k + 1].nbytes < CombineThreshold
      THEN << >>
      ELSE Pairs(k, Large(datastructs, 1 .. k))

\* combine: the pairs of the last data object with the earlier large ones, in
\* the order their caches are added; data object 0 is in no pair.
Combine(datastructs) ==
  LET k == Len(datastructs) - 1
  IN  IF datastructs[k + 1].nbytes < CombineThreshold
      THEN << >>
      ELSE Pairs(k, Large(datastructs, 1 .. k - 1))

\* A wrong register_datastruct: data object 0 is isolated as well.
AddedCachesFromZero(datastructs) ==
  << {Len(datastructs) - 1} >> \o Combine(datastructs)

\* The ds_nums_ of the caches that register_datastruct adds after the last
\* data object of the vector has been pushed.
AddedCaches(datastructs) ==
  LET k == Len(datastructs) - 1
  IN  << IF k > NoDatastruct THEN {k} ELSE {} >> \o Combine(datastructs)

\* contains() chooses the partition of a PartitionedCache.
PartitionFor(cs, ds_num) == IF ds_num \in cs.ds_nums THEN 0 ELSE 1
=============================================================================
