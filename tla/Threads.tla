------------------------------ MODULE Threads ------------------------------
(* The threads of the target, which the locks are about. *)

CONSTANT Thread  \* the thread numbers below MAX_THREADS
=============================================================================
