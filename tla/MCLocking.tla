----------------------------- MODULE MCLocking -----------------------------
(* Locking with three threads. *)
EXTENDS Locking
=============================================================================
