------------------------------ MODULE MCSLock ------------------------------
(***************************************************************************)
(* Class MCSLock (src/mcslock.h): the queue lock around every analysed     *)
(* memory access.  Each thread owns one qnode, _nodes[tid], so a qnode is  *)
(* named by its thread; one action is one operation on an atomic.  C11     *)
(* atomics without an order argument are sequentially consistent, so the   *)
(* interleavings of these actions are the executions.                      *)
(***************************************************************************)
EXTENDS Threads, Sequences, Naturals

CONSTANT NULL

ASSUME NullAssumption == NULL \notin Thread

VARIABLES
  tail,    \* _tail
  next,    \* _nodes[t].next
  wait,    \* _nodes[t].wait
  prev,    \* the local prev of lock()
  succ,    \* the local succ of unlock()
  op,      \* the operation each thread is about to do
  queue    \* history: the threads from the exchange of _tail to their release

lockVars == << tail, next, wait, prev, succ, op, queue >>

InLock   == {"store_next", "store_wait", "exchange", "link", "spin"}
InUnlock == {"load_next", "cas", "reload_next", "release"}
Operation == {"out", "in"} \cup InLock \cup InUnlock

\* Only the owner executes these.
Holds(t) == op[t] \in {"in"} \cup InUnlock

Proceed(t, l) == op' = [op EXCEPT ![t] = l]

LockInit ==
  /\ tail = NULL
  /\ next = [t \in Thread |-> NULL]
  /\ wait = [t \in Thread |-> FALSE]
  /\ prev = [t \in Thread |-> NULL]
  /\ succ = [t \in Thread |-> NULL]
  /\ op = [t \in Thread |-> "out"]
  /\ queue = << >>

-----------------------------------------------------------------------------
\* memAccess calls lock(tid).
CallLock(t) ==
  /\ op[t] = "out"
  /\ Proceed(t, "store_next")
  /\ UNCHANGED << tail, next, wait, prev, succ, queue >>

StoreNext(t) ==
  /\ op[t] = "store_next"
  /\ next' = [next EXCEPT ![t] = NULL]
  /\ Proceed(t, "store_wait")
  /\ UNCHANGED << tail, wait, prev, succ, queue >>

\* A wrong lock: p->wait is not set.
StoreWaitForgotten(t) ==
  /\ op[t] = "store_wait"
  /\ Proceed(t, "exchange")
  /\ UNCHANGED << tail, next, wait, prev, succ, queue >>

StoreWait(t) ==
  /\ op[t] = "store_wait"
  /\ wait' = [wait EXCEPT ![t] = TRUE]
  /\ Proceed(t, "exchange")
  /\ UNCHANGED << tail, next, prev, succ, queue >>

\* prev = atomic_exchange(&_tail, p)
Exchange(t) ==
  /\ op[t] = "exchange"
  /\ prev' = [prev EXCEPT ![t] = tail]
  /\ tail' = t
  /\ Proceed(t, IF tail = NULL THEN "in" ELSE "link")
  /\ queue' = Append(queue, t)
  /\ UNCHANGED << next, wait, succ >>

\* A wrong lock: the predecessor never learns its successor.
LinkForgotten(t) ==
  /\ op[t] = "link"
  /\ Proceed(t, "spin")
  /\ UNCHANGED << tail, next, wait, prev, succ, queue >>

\* prev->next = p
Link(t) ==
  /\ op[t] = "link"
  /\ next' = [next EXCEPT ![prev[t]] = t]
  /\ Proceed(t, "spin")
  /\ UNCHANGED << tail, wait, prev, succ, queue >>

\* A wrong lock: wait is not tested.
SpinNot(t) ==
  /\ op[t] = "spin"
  /\ Proceed(t, "in")
  /\ UNCHANGED << tail, next, wait, prev, succ, queue >>

\* The load that ends the spinning; a load that goes on spinning changes nothing.
Spin(t) ==
  /\ op[t] = "spin"
  /\ ~wait[t]
  /\ Proceed(t, "in")
  /\ UNCHANGED << tail, next, wait, prev, succ, queue >>

\* memAccess calls unlock(tid).
CallUnlock(t) ==
  /\ op[t] = "in"
  /\ Proceed(t, "load_next")
  /\ UNCHANGED << tail, next, wait, prev, succ, queue >>

\* succ = p->next
LoadNext(t) ==
  /\ op[t] = "load_next"
  /\ succ' = [succ EXCEPT ![t] = next[t]]
  /\ Proceed(t, IF next[t] = NULL THEN "cas" ELSE "release")
  /\ UNCHANGED << tail, next, wait, prev, queue >>

\* A wrong unlock: a plain store takes the queue from those who wait in it.
StoreTail(t) ==
  /\ op[t] = "cas"
  /\ tail' = NULL
  /\ queue' = Tail(queue)
  /\ Proceed(t, "out")
  /\ UNCHANGED << next, wait, prev, succ >>

\* A wrong unlock: it does not wait for the successor to link its qnode.
CompareExchangeOnly(t) ==
  /\ op[t] = "cas"
  /\ tail' = IF tail = t THEN NULL ELSE tail
  /\ queue' = Tail(queue)
  /\ Proceed(t, "out")
  /\ UNCHANGED << next, wait, prev, succ >>

\* atomic_compare_exchange_strong(&_tail, &old_p, NULL)
CompareExchange(t) ==
  /\ op[t] = "cas"
  /\ IF tail = t
     THEN /\ tail' = NULL
          /\ queue' = Tail(queue)
          /\ Proceed(t, "out")
     ELSE /\ Proceed(t, "reload_next")
          /\ UNCHANGED << tail, queue >>
  /\ UNCHANGED << next, wait, prev, succ >>

\* The load that finds the successor's qnode appended.
ReloadNext(t) ==
  /\ op[t] = "reload_next"
  /\ next[t] # NULL
  /\ succ' = [succ EXCEPT ![t] = next[t]]
  /\ Proceed(t, "release")
  /\ UNCHANGED << tail, next, wait, prev, queue >>

\* A wrong unlock: the successor is not woken.
ReleaseLockForgotten(t) ==
  /\ op[t] = "release"
  /\ queue' = Tail(queue)
  /\ Proceed(t, "out")
  /\ UNCHANGED << tail, next, wait, prev, succ >>

\* succ->wait = false
ReleaseLock(t) ==
  /\ op[t] = "release"
  /\ wait' = [wait EXCEPT ![succ[t]] = FALSE]
  /\ queue' = Tail(queue)
  /\ Proceed(t, "out")
  /\ UNCHANGED << tail, next, prev, succ >>

Lock(t) == StoreNext(t) \/ StoreWait(t) \/ Exchange(t) \/ Link(t) \/ Spin(t)

Unlock(t) == LoadNext(t) \/ CompareExchange(t) \/ ReloadNext(t) \/ ReleaseLock(t)

LockNext == \E t \in Thread : CallLock(t) \/ Lock(t) \/ CallUnlock(t) \/ Unlock(t)

LockSpec == LockInit /\ [][LockNext]_lockVars

\* The threads are preemptively scheduled, so each goes on with what it has
\* begun.  That a thread gets from lock() to unlock() is assumed here, as
\* memAccess takes g_rwlock in between (pincpt.cpp:211): Locking, which has both
\* locks, checks it (CallsEnd).  Nothing makes a thread access memory again.
Fairness == \A t \in Thread : WF_lockVars(Lock(t)) /\ WF_lockVars(CallUnlock(t) \/ Unlock(t))

LockFairSpec == LockSpec /\ Fairness

-----------------------------------------------------------------------------
LockTypeOK ==
  /\ tail \in Thread \cup {NULL}
  /\ next \in [Thread -> Thread \cup {NULL}]
  /\ wait \in [Thread -> BOOLEAN]
  /\ prev \in [Thread -> Thread \cup {NULL}]
  /\ succ \in [Thread -> Thread \cup {NULL}]
  /\ op \in [Thread -> Operation]
  /\ queue \in Seq(Thread)

\* assert(threads == 1) of memAccess: no two threads are between lock() and
\* the store or exchange that ends unlock().
MutualExclusion == \A t, u \in Thread : Holds(t) /\ Holds(u) => t = u

\* A thread's only qnode is not initialised again while a successor can still
\* write its next or has yet to be woken through it: "need to keep p".
NodeNotReused ==
  \A t, u \in Thread :
    op[t] \in {"out", "store_next", "store_wait", "exchange"} =>
      ~ (op[u] = "link" /\ prev[u] = t)

\* Nobody is woken twice or too early: wait is false in a spinning thread's
\* qnode only when the lock is free for it.
WakeIsGrant ==
  \A t, u \in Thread : op[t] \in {"link", "spin"} /\ ~wait[t] => ~Holds(u)

\* What the queue, and the pointers that represent it, look like between any
\* two operations: the inductive invariant behind the properties above.
QueueMembers ==
  /\ \A i, j \in 1 .. Len(queue) : queue[i] = queue[j] => i = j
  /\ \A t \in Thread :
       (op[t] \in {"link", "spin"} \/ Holds(t)) <=> \E i \in 1 .. Len(queue) : queue[i] = t

TailIsLast == tail = IF queue = << >> THEN NULL ELSE queue[Len(queue)]

\* Each qnode's next is its successor, or will be once the successor has
\* executed Link.
Chained ==
  \A i \in 1 .. Len(queue) :
    IF i = Len(queue) THEN next[queue[i]] = NULL
    ELSE IF op[queue[i + 1]] = "link"
    THEN prev[queue[i + 1]] = queue[i] /\ next[queue[i]] = NULL
    ELSE next[queue[i]] = queue[i + 1]

OthersWait ==
  \A i \in 2 .. Len(queue) : op[queue[i]] \in {"link", "spin"} /\ wait[queue[i]]

HeadReady ==
  queue # << >> =>
    LET h == queue[1]
    IN  /\ op[h] # "link"
        /\ op[h] = "spin" => ~wait[h]
        /\ op[h] = "reload_next" => Len(queue) > 1
        /\ op[h] = "release" => Len(queue) > 1 /\ succ[h] = next[h] /\ next[h] # NULL

NodeReady ==
  \A t \in Thread :
    /\ op[t] \in {"store_wait", "exchange"} => next[t] = NULL
    /\ op[t] = "exchange" => wait[t]

QueueInv ==
  /\ LockTypeOK
  /\ QueueMembers
  /\ TailIsLast
  /\ Chained
  /\ OthersWait
  /\ HeadReady
  /\ NodeReady

\* The lock is granted in the order of the exchanges.
Owner == IF \E t \in Thread : Holds(t) THEN CHOOSE t \in Thread : Holds(t) ELSE NULL
Waiting == IF Owner = NULL THEN queue ELSE Tail(queue)

Fifo == INSTANCE FifoLock WITH owner <- Owner, waiting <- Waiting, None <- NULL

\* The pointers between the qnodes implement the queue: at every instant at
\* most one owner, and each owner is the one that has waited longest.
ImplementsFifoLock == Fifo!Spec

\* Every thread that calls lock() gets it.
NoStarvation == \A t \in Thread : op[t] \in InLock ~> op[t] = "in"

\* Every unlock() ends, also when it has to wait for a successor that is in
\* the queue but has not appended its qnode yet.
UnlockEnds == \A t \in Thread : op[t] \in InUnlock ~> op[t] = "out"
=============================================================================
