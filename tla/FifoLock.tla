------------------------------ MODULE FifoLock ------------------------------
(***************************************************************************)
(* What memAccess (src/pincpt.cpp) needs from its lock: one owner at a     *)
(* time, and the lock is granted in the order of the requests.             *)
(***************************************************************************)
EXTENDS Sequences, Naturals

CONSTANTS Thread, None

VARIABLES
  owner,    \* the thread that holds the lock, or None
  waiting   \* the threads that asked for it, in the order they asked

vars == << owner, waiting >>

Init == owner = None /\ waiting = << >>

\* A request that finds nobody before it is granted at once.
AcquireFree(t) ==
  /\ owner = None /\ waiting = << >>
  /\ owner' = t
  /\ UNCHANGED waiting

Request(t) ==
  /\ owner # t
  /\ \A i \in 1 .. Len(waiting) : waiting[i] # t
  /\ waiting' = Append(waiting, t)
  /\ UNCHANGED owner

Acquire(t) ==
  /\ owner = None
  /\ waiting # << >> /\ t = Head(waiting)
  /\ owner' = t
  /\ waiting' = Tail(waiting)

Release(t) ==
  /\ owner = t
  /\ owner' = None
  /\ UNCHANGED waiting

Next == \E t \in Thread : AcquireFree(t) \/ Request(t) \/ Acquire(t) \/ Release(t)

Spec == Init /\ [][Next]_vars
=============================================================================
