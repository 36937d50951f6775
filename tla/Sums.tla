-------------------------------- MODULE Sums --------------------------------
(***************************************************************************)
(* Sums of the values of a function, as pincpt.py adds up columns.         *)
(***************************************************************************)
EXTENDS FiniteSetsExt

SumOf(f, S) == MapThenSumSet(LAMBDA x : f[x], S)
=============================================================================
