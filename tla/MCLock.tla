------------------------------- MODULE MCLock -------------------------------
(* Three threads, the fewest with a queue behind the queue's second entry. *)
EXTENDS MCSLock, TLC

CONSTANTS t1, t2, t3

MCThread == {t1, t2, t3}
=============================================================================
