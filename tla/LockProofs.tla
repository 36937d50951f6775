----------------------------- MODULE LockProofs -----------------------------
(***************************************************************************)
(* Theorems about MCSLock, for any set of threads, and about Locking, for  *)
(* any finite set of them.  QueueInv says how the qnodes represent the     *)
(* queue: mutual exclusion, the two properties of the qnodes and the       *)
(* refinement of FifoLock, the lock that Locking uses, follow from it.     *)
(* IInv says of each lock of Locking which locations its holder is in; the *)
(* locks are taken in one order (mcslock, g_rwlock, client lock,           *)
(* thread_mutex), so the call that holds the last lock of that order that  *)
(* is held can go on.                                                      *)
(***************************************************************************)
EXTENDS MCSLock, Locking, FiniteSetTheorems, SequenceTheorems, TLAPS

-----------------------------------------------------------------------------
(* MCSLock *)

\* The elements of the queue are threads and its length is a number.
LEMMA QueueType ==
  ASSUME LockTypeOK
  PROVE  /\ Len(queue) \in Nat
         /\ \A i \in 1 .. Len(queue) : queue[i] \in Thread
         /\ queue = << >> <=> Len(queue) = 0
<1>1. queue \in Seq(Thread)
  BY DEF LockTypeOK
<1>2. QED
  BY <1>1, LenProperties, ElementOfSeq, EmptySeq

\* The owner is the head of the queue.
LEMMA OwnerIsHead ==
  ASSUME QueueInv, NEW t \in Thread, Holds(t)
  PROVE  Len(queue) >= 1 /\ queue # << >> /\ t = queue[1]
<1>1. PICK i \in 1 .. Len(queue) : queue[i] = t
  BY DEF QueueInv, QueueMembers
<1>2. Len(queue) \in Nat
  BY QueueType DEF QueueInv
<1>3. i = 1
  <2>1. CASE i \in 2 .. Len(queue)
    <3>1. op[t] \in {"link", "spin"}
      BY <1>1, <2>1 DEF QueueInv, OthersWait
    <3>2. QED
      BY <3>1 DEF Holds, InUnlock
  <2>2. QED
    BY <1>2, <2>1
<1>4. QED
  BY <1>1, <1>2, <1>3, QueueType DEF QueueInv

\* A thread that has not executed Exchange yet is not in the queue.
LEMMA OutsideQueue ==
  ASSUME QueueInv, NEW t \in Thread, op[t] \in {"out", "store_next", "store_wait", "exchange"},
         NEW i \in 1 .. Len(queue)
  PROVE  queue[i] # t
BY DEF QueueInv, QueueMembers, Holds, InUnlock

LEMMA CallLockKeepsQueue ==
  ASSUME QueueInv, NEW t \in Thread, CallLock(t)
  PROVE  QueueInv'
<1> USE DEF CallLock, Proceed
<1>i. LockTypeOK /\ QueueMembers /\ TailIsLast /\ Chained /\ OthersWait /\ HeadReady /\ NodeReady
  BY DEF QueueInv
<1>1. LockTypeOK'
  BY <1>i DEF LockTypeOK, Operation, InLock, InUnlock
<1>2. QueueMembers'
  BY <1>i DEF LockTypeOK, QueueMembers, Holds, InUnlock
<1>3. TailIsLast'
  BY <1>i DEF TailIsLast
<1>4. Chained'
  BY <1>i DEF LockTypeOK, Chained
<1>5. OthersWait'
  BY <1>i DEF LockTypeOK, OthersWait
<1>6. HeadReady'
  BY <1>i DEF LockTypeOK, HeadReady, Holds, InUnlock
<1>7. NodeReady'
  BY <1>i DEF LockTypeOK, NodeReady
<1>8. QED
  BY <1>1, <1>2, <1>3, <1>4, <1>5, <1>6, <1>7 DEF QueueInv

LEMMA StoreNextKeepsQueue ==
  ASSUME QueueInv, NEW t \in Thread, StoreNext(t)
  PROVE  QueueInv'
<1> USE DEF StoreNext, Proceed
<1>i. LockTypeOK /\ QueueMembers /\ TailIsLast /\ Chained /\ OthersWait /\ HeadReady /\ NodeReady
  BY DEF QueueInv
<1>1. LockTypeOK'
  BY <1>i DEF LockTypeOK, Operation, InLock, InUnlock
<1>2. QueueMembers'
  BY <1>i DEF LockTypeOK, QueueMembers, Holds, InUnlock
<1>3. TailIsLast'
  BY <1>i DEF TailIsLast
<1>4. Chained'
  BY <1>i, OutsideQueue, QueueType DEF LockTypeOK, Chained
<1>5. OthersWait'
  BY <1>i DEF LockTypeOK, OthersWait
<1>6. HeadReady'
  BY <1>i DEF LockTypeOK, HeadReady, Holds, InUnlock
<1>7. NodeReady'
  BY <1>i DEF LockTypeOK, NodeReady
<1>8. QED
  BY <1>1, <1>2, <1>3, <1>4, <1>5, <1>6, <1>7 DEF QueueInv

LEMMA StoreWaitKeepsQueue ==
  ASSUME QueueInv, NEW t \in Thread, StoreWait(t)
  PROVE  QueueInv'
<1> USE DEF StoreWait, Proceed
<1>i. LockTypeOK /\ QueueMembers /\ TailIsLast /\ Chained /\ OthersWait /\ HeadReady /\ NodeReady
  BY DEF QueueInv
<1>1. LockTypeOK'
  BY <1>i DEF LockTypeOK, Operation, InLock, InUnlock
<1>2. QueueMembers'
  BY <1>i DEF LockTypeOK, QueueMembers, Holds, InUnlock
<1>3. TailIsLast'
  BY <1>i DEF TailIsLast
<1>4. Chained'
  BY <1>i DEF LockTypeOK, Chained
<1>5. OthersWait'
  BY <1>i DEF LockTypeOK, OthersWait
<1>6. HeadReady'
  BY <1>i DEF LockTypeOK, HeadReady, Holds, InUnlock
<1>7. NodeReady'
  BY <1>i DEF LockTypeOK, NodeReady
<1>8. QED
  BY <1>1, <1>2, <1>3, <1>4, <1>5, <1>6, <1>7 DEF QueueInv

LEMMA SpinKeepsQueue ==
  ASSUME QueueInv, NEW t \in Thread, Spin(t)
  PROVE  QueueInv'
<1> USE DEF Spin, Proceed
<1>i. LockTypeOK /\ QueueMembers /\ TailIsLast /\ Chained /\ OthersWait /\ HeadReady /\ NodeReady
  BY DEF QueueInv
<1>1. LockTypeOK'
  BY <1>i DEF LockTypeOK, Operation, InLock, InUnlock
<1>2. QueueMembers'
  BY <1>i DEF LockTypeOK, QueueMembers, Holds, InUnlock
<1>3. TailIsLast'
  BY <1>i DEF TailIsLast
<1>4. Chained'
  BY <1>i DEF LockTypeOK, Chained
<1>5. OthersWait'
  BY <1>i DEF LockTypeOK, OthersWait
<1>6. HeadReady'
  BY <1>i DEF LockTypeOK, HeadReady, Holds, InUnlock
<1>7. NodeReady'
  BY <1>i DEF LockTypeOK, NodeReady
<1>8. QED
  BY <1>1, <1>2, <1>3, <1>4, <1>5, <1>6, <1>7 DEF QueueInv

LEMMA CallUnlockKeepsQueue ==
  ASSUME QueueInv, NEW t \in Thread, CallUnlock(t)
  PROVE  QueueInv'
<1> USE DEF CallUnlock, Proceed
<1>i. LockTypeOK /\ QueueMembers /\ TailIsLast /\ Chained /\ OthersWait /\ HeadReady /\ NodeReady
  BY DEF QueueInv
<1>1. LockTypeOK'
  BY <1>i DEF LockTypeOK, Operation, InLock, InUnlock
<1>2. QueueMembers'
  BY <1>i DEF LockTypeOK, QueueMembers, Holds, InUnlock
<1>3. TailIsLast'
  BY <1>i DEF TailIsLast
<1>4. Chained'
  BY <1>i DEF LockTypeOK, Chained
<1>5. OthersWait'
  BY <1>i DEF LockTypeOK, OthersWait
<1>6. HeadReady'
  BY <1>i DEF LockTypeOK, HeadReady, Holds, InUnlock
<1>7. NodeReady'
  BY <1>i DEF LockTypeOK, NodeReady
<1>8. QED
  BY <1>1, <1>2, <1>3, <1>4, <1>5, <1>6, <1>7 DEF QueueInv

LEMMA LoadNextKeepsQueue ==
  ASSUME QueueInv, NEW t \in Thread, LoadNext(t)
  PROVE  QueueInv'
<1> USE DEF LoadNext, Proceed
<1>i. LockTypeOK /\ QueueMembers /\ TailIsLast /\ Chained /\ OthersWait /\ HeadReady /\ NodeReady
  BY DEF QueueInv
<1>1. LockTypeOK'
  BY <1>i DEF LockTypeOK, Operation, InLock, InUnlock
<1>2. QueueMembers'
  BY <1>i DEF LockTypeOK, QueueMembers, Holds, InUnlock
<1>3. TailIsLast'
  BY <1>i DEF TailIsLast
<1>4. Chained'
  BY <1>i DEF LockTypeOK, Chained
<1>5. OthersWait'
  BY <1>i DEF LockTypeOK, OthersWait
<1>6. HeadReady'
  <2>1. queue # << >> /\ Len(queue) >= 1 /\ t = queue[1] /\ Len(queue) \in Nat
    BY OwnerIsHead, QueueType, <1>i DEF Holds, InUnlock
  <2>2. next[t] # NULL => Len(queue) > 1
    BY <1>i, <2>1 DEF Chained
  <2>3. QED
    BY <1>i, <2>1, <2>2 DEF LockTypeOK, HeadReady
<1>7. NodeReady'
  BY <1>i DEF LockTypeOK, NodeReady
<1>8. QED
  BY <1>1, <1>2, <1>3, <1>4, <1>5, <1>6, <1>7 DEF QueueInv

LEMMA ReloadNextKeepsQueue ==
  ASSUME QueueInv, NEW t \in Thread, ReloadNext(t)
  PROVE  QueueInv'
<1> USE DEF ReloadNext, Proceed
<1>i. LockTypeOK /\ QueueMembers /\ TailIsLast /\ Chained /\ OthersWait /\ HeadReady /\ NodeReady
  BY DEF QueueInv
<1>1. LockTypeOK'
  BY <1>i DEF LockTypeOK, Operation, InLock, InUnlock
<1>2. QueueMembers'
  BY <1>i DEF LockTypeOK, QueueMembers, Holds, InUnlock
<1>3. TailIsLast'
  BY <1>i DEF TailIsLast
<1>4. Chained'
  BY <1>i DEF LockTypeOK, Chained
<1>5. OthersWait'
  BY <1>i DEF LockTypeOK, OthersWait
<1>6. HeadReady'
  BY <1>i DEF LockTypeOK, HeadReady, Holds, InUnlock
<1>7. NodeReady'
  BY <1>i DEF LockTypeOK, NodeReady
<1>8. QED
  BY <1>1, <1>2, <1>3, <1>4, <1>5, <1>6, <1>7 DEF QueueInv

LEMMA ExchangeKeepsQueue ==
  ASSUME QueueInv, NEW t \in Thread, Exchange(t)
  PROVE  QueueInv'
<1> DEFINE n == Len(queue)
<1>i. LockTypeOK /\ QueueMembers /\ TailIsLast /\ Chained /\ OthersWait /\ HeadReady /\ NodeReady
  BY DEF QueueInv
<1>q. /\ n \in Nat /\ (queue = << >> <=> n = 0)
      /\ \A i \in 1 .. n : queue[i] \in Thread /\ queue[i] # t
  BY <1>i, QueueType, OutsideQueue DEF Exchange
<1>a. /\ queue' \in Seq(Thread) /\ queue' # << >> /\ Len(queue') = n + 1
      /\ \A i \in 1 .. n : queue'[i] = queue[i]
      /\ queue'[n + 1] = t
  BY <1>i, AppendProperties DEF Exchange, LockTypeOK
<1>n. n >= 1 => tail = queue[n] /\ queue[n] \in Thread /\ tail # NULL
  BY <1>i, <1>q, NullAssumption DEF TailIsLast
<1>z. n = 0 => tail = NULL
  BY <1>i, <1>q DEF TailIsLast
<1>p. /\ op' = [op EXCEPT ![t] = IF n = 0 THEN "in" ELSE "link"]
      /\ prev' = [prev EXCEPT ![t] = tail] /\ tail' = t
      /\ UNCHANGED << next, wait, succ >> /\ op[t] = "exchange"
  <2>1. tail = NULL <=> n = 0
    BY <1>n, <1>z, <1>q
  <2> HIDE DEF n
  <2>2. QED
    BY <2>1 DEF Exchange, Proceed
<1> HIDE DEF n
<1>1. LockTypeOK'
  BY <1>i, <1>a, <1>p DEF LockTypeOK, Operation, InLock, InUnlock
<1>2. QueueMembers'
  <2>1. \A i, j \in 1 .. n + 1 : queue'[i] = queue'[j] => i = j
    BY <1>i, <1>a, <1>q DEF QueueMembers, n
  <2>2. ASSUME NEW u \in Thread
        PROVE  (op'[u] \in {"link", "spin"} \/ Holds(u)') <=> \E i \in 1 .. n + 1 : queue'[i] = u
    <3>1. CASE u = t
      <4>1. n + 1 \in 1 .. n + 1
        BY <1>q
      <4>2. QED
        BY <4>1, <3>1, <1>i, <1>a, <1>p DEF LockTypeOK, Holds
    <3>2. CASE u # t
      <4>1. (\E i \in 1 .. n + 1 : queue'[i] = u) <=> \E i \in 1 .. n : queue[i] = u
        BY <3>2, <1>a, <1>q
      <4>2. QED
        BY <4>1, <3>2, <1>i, <1>p DEF LockTypeOK, QueueMembers, Holds, n
    <3>3. QED
      BY <3>1, <3>2
  <2>3. QED
    BY <2>1, <2>2, <1>a DEF QueueMembers
<1>3. TailIsLast'
  BY <1>a, <1>p DEF TailIsLast
<1>4. Chained'
  <2> SUFFICES ASSUME NEW i \in 1 .. n + 1
               PROVE  IF i = n + 1 THEN next[queue'[i]] = NULL
                      ELSE IF op'[queue'[i + 1]] = "link"
                      THEN prev'[queue'[i + 1]] = queue'[i] /\ next[queue'[i]] = NULL
                      ELSE next[queue'[i]] = queue'[i + 1]
    BY <1>a, <1>p DEF Chained
  <2>1. CASE i = n + 1
    BY <2>1, <1>a, <1>p, <1>i DEF NodeReady
  <2>2. CASE i = n
    <3>1. queue'[i + 1] = t /\ queue'[i] = queue[n] /\ n >= 1 /\ n \in 1 .. n
      BY <2>2, <1>a, <1>q
    <3>2. next[queue[n]] = NULL
      BY <3>1, <1>i DEF Chained, n
    <3>3. QED
      BY <2>2, <3>1, <3>2, <1>n, <1>p, <1>i, <1>q DEF LockTypeOK
  <2>3. CASE i \in 1 .. n - 1
    <3>1. i \in 1 .. n /\ i + 1 \in 1 .. n /\ i # n /\ i # n + 1
      BY <2>3, <1>q
    <3>2. queue'[i] = queue[i] /\ queue'[i + 1] = queue[i + 1] /\ queue[i + 1] # t
      BY <3>1, <1>a, <1>q
    <3>3. QED
      BY <3>1, <3>2, <1>i, <1>p DEF Chained, LockTypeOK, n
  <2>4. QED
    BY <2>1, <2>2, <2>3, <1>q
<1>5. OthersWait'
  <2> SUFFICES ASSUME NEW i \in 2 .. n + 1
               PROVE  op'[queue'[i]] \in {"link", "spin"} /\ wait[queue'[i]]
    BY <1>a, <1>p DEF OthersWait
  <2>1. CASE i = n + 1
    BY <2>1, <1>a, <1>p, <1>i, <1>q DEF NodeReady, LockTypeOK
  <2>2. CASE i \in 2 .. n
    <3>1. i \in 1 .. n /\ queue'[i] = queue[i] /\ queue[i] # t
      BY <2>2, <1>a, <1>q
    <3>2. QED
      BY <2>2, <3>1, <1>p, <1>i DEF OthersWait, LockTypeOK, n
  <2>3. QED
    BY <2>1, <2>2, <1>q
<1>6. HeadReady'
  <2>1. CASE n = 0
    BY <2>1, <1>a, <1>p, <1>i DEF HeadReady, LockTypeOK
  <2>2. CASE n >= 1
    <3>1. queue'[1] = queue[1] /\ queue[1] # t /\ queue # << >> /\ 1 \in 1 .. n
      BY <2>2, <1>a, <1>q
    <3>2. Len(queue') > 1
      BY <2>2, <1>a, <1>q
    <3>3. QED
      BY <3>1, <3>2, <1>i, <1>p DEF HeadReady, LockTypeOK
  <2>3. QED
    BY <2>1, <2>2, <1>q
<1>7. NodeReady'
  BY <1>i, <1>p DEF NodeReady, LockTypeOK
<1>8. QED
  BY <1>1, <1>2, <1>3, <1>4, <1>5, <1>6, <1>7 DEF QueueInv

\* The node before a linking thread is its predecessor in the queue.
LEMMA LinkKeepsQueue ==
  ASSUME QueueInv, NEW t \in Thread, Link(t)
  PROVE  QueueInv'
<1> USE DEF Link, Proceed
<1>i. LockTypeOK /\ QueueMembers /\ TailIsLast /\ Chained /\ OthersWait /\ HeadReady /\ NodeReady
  BY DEF QueueInv
<1>q. /\ Len(queue) \in Nat /\ (queue = << >> <=> Len(queue) = 0)
      /\ \A i \in 1 .. Len(queue) : queue[i] \in Thread
      /\ \A i, j \in 1 .. Len(queue) : queue[i] = queue[j] => i = j
  BY <1>i, QueueType DEF QueueMembers
<1>k. PICK k \in 1 .. Len(queue) : queue[k] = t
  BY <1>i DEF QueueMembers
<1>m. k # 1
  BY <1>i, <1>k, <1>q DEF HeadReady
<1>p. /\ k - 1 \in 1 .. Len(queue) /\ k - 1 # Len(queue) /\ (k - 1) + 1 = k
      /\ prev[t] = queue[k - 1] /\ prev[t] \in Thread
  <2>1. k - 1 \in 1 .. Len(queue) /\ k - 1 # Len(queue) /\ (k - 1) + 1 = k
    BY <1>m, <1>q
  <2>2. QED
    BY <2>1, <1>i, <1>k, <1>q DEF Chained
<1>1. LockTypeOK'
  BY <1>i DEF LockTypeOK, Operation, InLock, InUnlock
<1>2. QueueMembers'
  BY <1>i DEF LockTypeOK, QueueMembers, Holds, InUnlock
<1>3. TailIsLast'
  BY <1>i DEF TailIsLast
<1>4. Chained'
  <2> SUFFICES ASSUME NEW i \in 1 .. Len(queue)
               PROVE  IF i = Len(queue) THEN next'[queue[i]] = NULL
                      ELSE IF op'[queue[i + 1]] = "link"
                      THEN prev[queue[i + 1]] = queue[i] /\ next'[queue[i]] = NULL
                      ELSE next'[queue[i]] = queue[i + 1]
    BY DEF Chained
  <2>1. CASE i = k - 1
    BY <2>1, <1>p, <1>k, <1>i DEF LockTypeOK
  <2>2. CASE i # k - 1
    <3>1. queue[i] # prev[t] /\ next'[queue[i]] = next[queue[i]]
      BY <2>2, <1>p, <1>q, <1>i DEF LockTypeOK
    <3>2. i # Len(queue) => queue[i + 1] # t /\ op'[queue[i + 1]] = op[queue[i + 1]]
      <4> SUFFICES ASSUME i # Len(queue)
                   PROVE  queue[i + 1] # t /\ op'[queue[i + 1]] = op[queue[i + 1]]
        OBVIOUS
      <4>1. i + 1 \in 1 .. Len(queue) /\ i + 1 # k
        BY <2>2, <1>q
      <4>2. QED
        BY <4>1, <1>k, <1>q, <1>i DEF LockTypeOK
    <3>3. QED
      BY <3>1, <3>2, <1>i DEF Chained
  <2>3. QED
    BY <2>1, <2>2
<1>5. OthersWait'
  BY <1>i DEF LockTypeOK, OthersWait
<1>6. HeadReady'
  <2>1. queue[1] # t
    BY <1>i, <1>k, <1>q DEF HeadReady
  <2>2. CASE queue # << >> /\ op[queue[1]] = "release" /\ prev[t] = queue[1]
    <3>0. 1 \in 1 .. Len(queue) /\ queue[k - 1] = queue[1]
      BY <2>2, <1>p, <1>q
    <3>1. k = 2
      BY <3>0, <1>p, <1>q
    <3>2. next[queue[1]] = NULL
      BY <3>1, <1>p, <1>k, <1>i DEF Chained
    <3>3. FALSE
      BY <3>2, <2>2, <1>i DEF HeadReady
    <3>4. QED
      BY <3>3
  <2>3. CASE ~ (queue # << >> /\ op[queue[1]] = "release" /\ prev[t] = queue[1])
    BY <2>1, <2>3, <1>i, <1>q DEF LockTypeOK, HeadReady
  <2>4. QED
    BY <2>2, <2>3
<1>7. NodeReady'
  <2>1. \E i \in 1 .. Len(queue) : queue[i] = prev[t]
    BY <1>p
  <2>2. op[prev[t]] \in {"link", "spin"} \/ Holds(prev[t])
    BY <2>1, <1>p, <1>i DEF QueueMembers
  <2>3. QED
    BY <2>2, <1>i DEF LockTypeOK, NodeReady, Holds, InUnlock
<1>8. QED
  BY <1>1, <1>2, <1>3, <1>4, <1>5, <1>6, <1>7 DEF QueueInv

LEMMA CompareExchangeKeepsQueue ==
  ASSUME QueueInv, NEW t \in Thread, CompareExchange(t)
  PROVE  QueueInv'
<1> USE DEF CompareExchange, Proceed
<1>i. LockTypeOK /\ QueueMembers /\ TailIsLast /\ Chained /\ OthersWait /\ HeadReady /\ NodeReady
  BY DEF QueueInv
<1>q. /\ Len(queue) \in Nat /\ Len(queue) >= 1 /\ queue # << >> /\ t = queue[1]
      /\ queue \in Seq(Thread)
      /\ \A i \in 1 .. Len(queue) : queue[i] \in Thread
      /\ \A i, j \in 1 .. Len(queue) : queue[i] = queue[j] => i = j
  BY <1>i, QueueType, OwnerIsHead DEF QueueMembers, Holds, InUnlock, LockTypeOK
<1>l. tail = queue[Len(queue)]
  BY <1>i, <1>q DEF TailIsLast
<1>1. CASE tail = t
  <2>1. Len(queue) = 1
    <3>1. 1 \in 1 .. Len(queue) /\ Len(queue) \in 1 .. Len(queue)
      BY <1>q
    <3>2. QED
      BY <3>1, <1>1, <1>l, <1>q
  <2>2. queue' = << >> /\ Len(queue') = 0 /\ queue' \in Seq(Thread)
    BY <2>1, <1>1, <1>q, HeadTailProperties, EmptySeq
  <2>3. tail' = NULL /\ op' = [op EXCEPT ![t] = "out"] /\ UNCHANGED << next, wait, prev, succ >>
    BY <1>1
  <2>4. \A u \in Thread : op[u] \in {"link", "spin"} \/ Holds(u) => u = t
    BY <2>1, <1>q, <1>i DEF QueueMembers
  <2>5. LockTypeOK'
    BY <2>2, <2>3, <1>i DEF LockTypeOK, Operation
  <2>6. QueueMembers'
    BY <2>2, <2>3, <2>4, <1>i DEF LockTypeOK, QueueMembers, Holds, InUnlock
  <2>7. TailIsLast' /\ Chained' /\ OthersWait' /\ HeadReady'
    BY <2>2, <2>3 DEF TailIsLast, Chained, OthersWait, HeadReady
  <2>8. NodeReady'
    BY <2>3, <1>i DEF LockTypeOK, NodeReady
  <2>9. QED
    BY <2>5, <2>6, <2>7, <2>8 DEF QueueInv
<1>2. CASE tail # t
  <2>1. Len(queue) > 1
    <3>1. Len(queue) # 1
      BY <1>2, <1>l, <1>q
    <3>2. Len(queue) \in Nat /\ Len(queue) >= 1
      BY <1>q
    <3>3. QED
      BY ONLY <3>1, <3>2
  <2>2. op' = [op EXCEPT ![t] = "reload_next"] /\ UNCHANGED << tail, next, wait, prev, succ, queue >>
    BY <1>2
  <2>3. LockTypeOK'
    BY <2>2, <1>i DEF LockTypeOK, Operation, InUnlock
  <2>4. QueueMembers'
    BY <2>2, <1>i DEF LockTypeOK, QueueMembers, Holds, InUnlock
  <2>5. TailIsLast' /\ Chained' /\ OthersWait'
    BY <2>2, <1>i DEF LockTypeOK, TailIsLast, Chained, OthersWait
  <2>6. HeadReady'
    BY <2>1, <2>2, <1>q, <1>i DEF LockTypeOK, HeadReady
  <2>7. NodeReady'
    BY <2>2, <1>i DEF LockTypeOK, NodeReady
  <2>8. QED
    BY <2>3, <2>4, <2>5, <2>6, <2>7 DEF QueueInv
<1>3. QED
  BY <1>1, <1>2

LEMMA ReleaseLockKeepsQueue ==
  ASSUME QueueInv, NEW t \in Thread, ReleaseLock(t)
  PROVE  QueueInv'
<1> DEFINE n == Len(queue)
           s == queue[2]
<1>i. LockTypeOK /\ QueueMembers /\ TailIsLast /\ Chained /\ OthersWait /\ HeadReady /\ NodeReady
  BY DEF QueueInv
<1>q. /\ n \in Nat /\ queue # << >> /\ t = queue[1] /\ queue \in Seq(Thread)
      /\ \A i \in 1 .. n : queue[i] \in Thread
      /\ \A i, j \in 1 .. n : queue[i] = queue[j] => i = j
  BY <1>i, QueueType, OwnerIsHead DEF QueueMembers, Holds, InUnlock, LockTypeOK, ReleaseLock
<1>h. n > 1 /\ succ[t] = next[t] /\ next[t] # NULL
  BY <1>i, <1>q DEF HeadReady, ReleaseLock
<1>r. /\ 1 \in 1 .. n /\ 2 \in 1 .. n /\ 2 \in 2 .. n /\ 1 # n
  BY <1>q, <1>h
<1>s. succ[t] = s /\ op[s] = "spin" /\ s # t /\ s \in Thread
  BY <1>i, <1>q, <1>h, <1>r DEF Chained, OthersWait
<1>a. /\ queue' \in Seq(Thread) /\ Len(queue') = n - 1
      /\ \A i \in 1 .. n - 1 : queue'[i] = queue[i + 1]
  BY <1>q, HeadTailProperties DEF ReleaseLock
<1>p. /\ op' = [op EXCEPT ![t] = "out"] /\ wait' = [wait EXCEPT ![s] = FALSE]
      /\ UNCHANGED << tail, next, prev, succ >> /\ op[t] = "release"
  BY <1>s DEF ReleaseLock, Proceed
<1>e. queue' # << >> /\ queue'[1] = s
  <2>1. 1 \in 1 .. n - 1 /\ Len(queue') # 0
    BY <1>a, <1>q, <1>h
  <2>2. QED
    BY <2>1, <1>a, EmptySeq
<1> HIDE DEF n, s
<1>1. LockTypeOK'
  BY <1>i, <1>a, <1>p DEF LockTypeOK, Operation
<1>m. \A i \in 1 .. n - 1 : i \in 1 .. n /\ i + 1 \in 2 .. n /\ i + 1 \in 1 .. n /\ queue[i + 1] # t
  <2> TAKE i \in 1 .. n - 1
  <2>1. i \in 1 .. n /\ i + 1 \in 2 .. n /\ i + 1 \in 1 .. n /\ i + 1 # 1
    BY <1>q
  <2>2. QED
    BY <2>1, <1>q, <1>r
<1>2. QueueMembers'
  <2>1. \A i, j \in 1 .. n - 1 : queue'[i] = queue'[j] => i = j
    <3> SUFFICES ASSUME NEW i \in 1 .. n - 1, NEW j \in 1 .. n - 1, queue'[i] = queue'[j]
                 PROVE  i = j
      OBVIOUS
    <3>1. i + 1 = j + 1
      BY <1>a, <1>m, <1>q
    <3>2. QED
      BY <3>1, <1>q
  <2>2. ASSUME NEW u \in Thread
        PROVE  (op'[u] \in {"link", "spin"} \/ Holds(u)') <=> \E i \in 1 .. n - 1 : queue'[i] = u
    <3>1. CASE u = t
      BY <3>1, <1>m, <1>a, <1>p, <1>i DEF LockTypeOK, Holds, InUnlock
    <3>2. CASE u # t
      <4>1. (\E i \in 1 .. n - 1 : queue'[i] = u) <=> \E i \in 1 .. n : queue[i] = u
        <5>1. ASSUME NEW i \in 1 .. n, queue[i] = u
              PROVE  \E j \in 1 .. n - 1 : queue'[j] = u
          <6>1. i # 1
            BY <5>1, <3>2, <1>q
          <6>2. i - 1 \in 1 .. n - 1 /\ (i - 1) + 1 = i
            BY <6>1, <1>q
          <6>3. QED
            BY <6>2, <5>1, <1>a
        <5>2. QED
          BY <5>1, <1>a, <1>m
      <4>2. QED
        BY <4>1, <3>2, <1>i, <1>p DEF LockTypeOK, QueueMembers, Holds, n
    <3>3. QED
      BY <3>1, <3>2
  <2>3. QED
    BY <2>1, <2>2, <1>a DEF QueueMembers
<1>3. TailIsLast'
  <2>1. tail = queue[n]
    BY <1>i, <1>q DEF TailIsLast, n
  <2>2. n - 1 \in 1 .. n - 1 /\ (n - 1) + 1 = n
    BY <1>q, <1>h
  <2>3. QED
    BY <2>1, <2>2, <1>a, <1>e, <1>p DEF TailIsLast
<1>4. Chained'
  <2> SUFFICES ASSUME NEW i \in 1 .. n - 1
               PROVE  IF i = n - 1 THEN next[queue'[i]] = NULL
                      ELSE IF op'[queue'[i + 1]] = "link"
                      THEN prev[queue'[i + 1]] = queue'[i] /\ next[queue'[i]] = NULL
                      ELSE next[queue'[i]] = queue'[i + 1]
    BY <1>a, <1>p DEF Chained
  <2>1. queue'[i] = queue[i + 1] /\ i + 1 \in 1 .. n
    BY <1>a, <1>m
  <2>2. CASE i = n - 1
    <3>1. i + 1 = n
      BY <2>2, <1>q
    <3>2. QED
      BY <2>1, <2>2, <3>1, <1>i DEF Chained, n
  <2>3. CASE i # n - 1
    <3>1. i + 1 \in 1 .. n - 1 /\ i + 1 # n
      BY <2>3, <1>q
    <3>2. queue'[i + 1] = queue[(i + 1) + 1] /\ queue[(i + 1) + 1] # t
      BY <3>1, <1>a, <1>m
    <3>3. op'[queue'[i + 1]] = op[queue[(i + 1) + 1]]
      BY <3>2, <1>p, <1>i DEF LockTypeOK
    <3>4. QED
      BY <2>1, <2>3, <3>1, <3>2, <3>3, <1>i DEF Chained, n
  <2>4. QED
    BY <2>2, <2>3
<1>5. OthersWait'
  <2> SUFFICES ASSUME NEW i \in 2 .. n - 1
               PROVE  op'[queue'[i]] \in {"link", "spin"} /\ wait'[queue'[i]]
    BY <1>a DEF OthersWait
  <2>1. i \in 1 .. n - 1 /\ i + 1 # 2
    BY <1>q
  <2>2. queue'[i] = queue[i + 1] /\ i + 1 \in 2 .. n /\ i + 1 \in 1 .. n /\ queue[i + 1] # t
    BY <2>1, <1>a, <1>m
  <2>3. queue[i + 1] # s
    BY <2>1, <2>2, <1>q, <1>r DEF s
  <2>4. QED
    BY <2>2, <2>3, <1>i, <1>p, <1>q DEF OthersWait, LockTypeOK, n
<1>6. HeadReady'
  BY <1>e, <1>p, <1>s, <1>i DEF HeadReady, LockTypeOK
<1>7. NodeReady'
  BY <1>p, <1>s, <1>i DEF NodeReady, LockTypeOK
<1>8. QED
  BY <1>1, <1>2, <1>3, <1>4, <1>5, <1>6, <1>7 DEF QueueInv

-----------------------------------------------------------------------------
LEMMA InitQueue == LockInit => QueueInv
<1> SUFFICES ASSUME LockInit PROVE QueueInv
  OBVIOUS
<1>1. queue = << >> /\ Len(queue) = 0 /\ << >> \in Seq(Thread)
  BY EmptySeq DEF LockInit
<1>2. LockTypeOK
  BY <1>1 DEF LockInit, LockTypeOK, Operation
<1>3. QueueMembers
  BY <1>1 DEF LockInit, QueueMembers, Holds, InUnlock
<1>4. TailIsLast /\ Chained /\ OthersWait /\ HeadReady
  BY <1>1 DEF LockInit, TailIsLast, Chained, OthersWait, HeadReady
<1>5. NodeReady
  BY DEF LockInit, NodeReady
<1>6. QED
  BY <1>2, <1>3, <1>4, <1>5 DEF QueueInv

LEMMA NextQueue == QueueInv /\ [LockNext]_lockVars => QueueInv'
<1> SUFFICES ASSUME QueueInv, [LockNext]_lockVars PROVE QueueInv'
  OBVIOUS
<1>1. ASSUME NEW t \in Thread, CallLock(t) \/ CallUnlock(t)
      PROVE  QueueInv'
  BY <1>1, CallLockKeepsQueue, CallUnlockKeepsQueue
<1>2. ASSUME NEW t \in Thread, Lock(t)
      PROVE  QueueInv'
  BY <1>2, StoreNextKeepsQueue, StoreWaitKeepsQueue, ExchangeKeepsQueue, LinkKeepsQueue,
     SpinKeepsQueue DEF Lock
<1>3. ASSUME NEW t \in Thread, Unlock(t)
      PROVE  QueueInv'
  BY <1>3, LoadNextKeepsQueue, CompareExchangeKeepsQueue, ReloadNextKeepsQueue,
     ReleaseLockKeepsQueue DEF Unlock
<1>4. CASE UNCHANGED lockVars
  BY <1>4 DEF lockVars, QueueInv, LockTypeOK, QueueMembers, TailIsLast, Chained, OthersWait, HeadReady,
     NodeReady, Holds
<1>5. QED
  BY <1>1, <1>2, <1>3, <1>4 DEF LockNext

\* The queue the qnodes form is intact between any two atomic operations.
THEOREM QueueInvariance == LockSpec => []QueueInv
<1>1. LockInit => QueueInv
  BY InitQueue
<1>2. QueueInv /\ [LockNext]_lockVars => QueueInv'
  BY NextQueue
<1>3. QED
  BY <1>1, <1>2, PTL DEF LockSpec

\* Every value stays in its C++ type: prev, next and the lock name a thread or
\* nobody.
THEOREM LockTypeCorrect == LockSpec => []LockTypeOK
<1>1. QueueInv => LockTypeOK
  BY DEF QueueInv
<1>2. QED
  BY <1>1, QueueInvariance, PTL

\* assert(threads == 1) of memAccess holds for every number of threads.
THEOREM MutualExclusionHolds == LockSpec => []MutualExclusion
<1>1. QueueInv => MutualExclusion
  BY OwnerIsHead DEF MutualExclusion
<1>2. QED
  BY <1>1, QueueInvariance, PTL

\* A qnode is out of everybody's reach when its thread initialises it again.
THEOREM NodeNotReusedHolds == LockSpec => []NodeNotReused
<1>1. QueueInv => NodeNotReused
  <2> SUFFICES ASSUME QueueInv, NEW t \in Thread, NEW u \in Thread,
                      op[t] \in {"out", "store_next", "store_wait", "exchange"},
                      op[u] = "link", prev[u] = t
               PROVE  FALSE
    BY DEF NodeNotReused
  <2>q. Len(queue) \in Nat
    BY QueueType DEF QueueInv
  <2>1. PICK k \in 1 .. Len(queue) : queue[k] = u
    BY DEF QueueInv, QueueMembers
  <2>2. k # 1
    BY <2>1, <2>q, QueueType DEF QueueInv, HeadReady
  <2>3. k - 1 \in 1 .. Len(queue) /\ k - 1 # Len(queue) /\ (k - 1) + 1 = k
    BY <2>2, <2>q
  <2>4. queue[k - 1] = t
    BY <2>1, <2>3 DEF QueueInv, Chained
  <2>5. QED
    BY <2>3, <2>4, OutsideQueue
<1>2. QED
  BY <1>1, QueueInvariance, PTL

\* A waiting thread that reads wait = false is the owner.
THEOREM WakeIsGrantHolds == LockSpec => []WakeIsGrant
<1>1. QueueInv => WakeIsGrant
  <2> SUFFICES ASSUME QueueInv, NEW t \in Thread, NEW u \in Thread,
                      op[t] \in {"link", "spin"}, ~wait[t], Holds(u)
               PROVE  FALSE
    BY DEF WakeIsGrant
  <2>q. Len(queue) \in Nat
    BY QueueType DEF QueueInv
  <2>1. PICK k \in 1 .. Len(queue) : queue[k] = t
    BY DEF QueueInv, QueueMembers
  <2>2. u = queue[1]
    BY OwnerIsHead
  <2>3. k # 1
    BY <2>1, <2>2 DEF Holds, InUnlock
  <2>4. k \in 2 .. Len(queue)
    BY <2>3, <2>q
  <2>5. QED
    BY <2>1, <2>4 DEF QueueInv, OthersWait
<1>2. QED
  BY <1>1, QueueInvariance, PTL

-----------------------------------------------------------------------------
\* What Owner and Waiting are, without CHOOSE.
OwnerFacts ==
  /\ \A t \in Thread : Holds(t) => Owner = t /\ t = queue[1] /\ queue # << >> /\ Waiting = Tail(queue)
  /\ (\A t \in Thread : ~Holds(t)) => Owner = NULL /\ Waiting = queue

LEMMA OwnerFactsHold == QueueInv => OwnerFacts
<1> SUFFICES ASSUME QueueInv PROVE OwnerFacts
  OBVIOUS
<1>1. ASSUME NEW t \in Thread, Holds(t)
      PROVE  Owner = t /\ t = queue[1] /\ queue # << >> /\ Waiting = Tail(queue)
  <2>1. \A u \in Thread : Holds(u) => u = queue[1] /\ queue # << >>
    BY OwnerIsHead
  <2>2. Owner = t
    <3>1. Owner = CHOOSE u \in Thread : Holds(u)
      BY <1>1 DEF Owner
    <3>2. Owner \in Thread /\ Holds(Owner)
      BY <1>1, <3>1
    <3>3. QED
      BY <1>1, <2>1, <3>2
  <2>3. QED
    BY <1>1, <2>1, <2>2, NullAssumption DEF Waiting
<1>2. ASSUME \A t \in Thread : ~Holds(t)
      PROVE  Owner = NULL /\ Waiting = queue
  BY <1>2 DEF Owner, Waiting
<1>3. QED
  BY <1>1, <1>2 DEF OwnerFacts

\* A step that neither changes the queue nor who is past the spinning is invisible.
LEMMA InvisibleStep ==
  ASSUME OwnerFacts, OwnerFacts', queue' = queue,
         \A u \in Thread : Holds(u)' <=> Holds(u)
  PROVE  UNCHANGED Fifo!vars
<1>1. CASE \E u \in Thread : Holds(u)
  <2>1. PICK u \in Thread : Holds(u)
    BY <1>1
  <2>2. QED
    BY <2>1 DEF OwnerFacts, Fifo!vars
<1>2. CASE \A u \in Thread : ~Holds(u)
  BY <1>2 DEF OwnerFacts, Fifo!vars
<1>3. QED
  BY <1>1, <1>2

\* A new last element does not disturb what follows the head.
LEMMA TailAppend ==
  ASSUME NEW S, NEW q \in Seq(S), NEW e \in S, q # << >>
  PROVE  Tail(Append(q, e)) = Append(Tail(q), e)
<1>1. Len(q) \in Nat /\ Len(q) >= 1
  BY EmptySeq, LenProperties
<1>2. /\ Append(q, e) \in Seq(S) /\ Append(q, e) # << >> /\ Len(Append(q, e)) = Len(q) + 1
      /\ \A i \in 1 .. Len(q) : Append(q, e)[i] = q[i]
      /\ Append(q, e)[Len(q) + 1] = e
  BY AppendProperties
<1>3. /\ Tail(q) \in Seq(S) /\ Len(Tail(q)) = Len(q) - 1
      /\ \A i \in 1 .. Len(q) - 1 : Tail(q)[i] = q[i + 1]
  BY HeadTailProperties
<1> DEFINE a == Tail(Append(q, e))
           b == Append(Tail(q), e)
<1>4. /\ a \in Seq(S) /\ Len(a) = Len(q)
      /\ \A i \in 1 .. Len(q) : a[i] = Append(q, e)[i + 1]
  <2>1. /\ a \in Seq(S) /\ Len(a) = (Len(q) + 1) - 1
        /\ \A i \in 1 .. (Len(q) + 1) - 1 : a[i] = Append(q, e)[i + 1]
    BY <1>2, HeadTailProperties
  <2>2. (Len(q) + 1) - 1 = Len(q)
    BY <1>1
  <2>3. QED
    BY <2>1, <2>2
<1>5. /\ b \in Seq(S) /\ Len(b) = Len(q)
      /\ \A i \in 1 .. Len(q) - 1 : b[i] = Tail(q)[i]
      /\ b[Len(q)] = e
  <2>1. /\ b \in Seq(S) /\ Len(b) = (Len(q) - 1) + 1
        /\ \A i \in 1 .. Len(q) - 1 : b[i] = Tail(q)[i]
        /\ b[(Len(q) - 1) + 1] = e
    BY <1>3, AppendProperties
  <2>2. (Len(q) - 1) + 1 = Len(q)
    BY <1>1
  <2>3. QED
    BY <2>1, <2>2
<1> HIDE DEF a, b
<1>6. ASSUME NEW i \in 1 .. Len(q) PROVE a[i] = b[i]
  <2>1. CASE i = Len(q)
    BY <2>1, <1>2, <1>4, <1>5
  <2>2. CASE i # Len(q)
    <3>1. i \in 1 .. Len(q) - 1 /\ i + 1 \in 1 .. Len(q)
      BY <2>2, <1>1
    <3>2. QED
      BY <3>1, <1>2, <1>3, <1>4, <1>5
  <2>3. QED
    BY <2>1, <2>2
<1>7. a = b
  BY <1>4, <1>5, <1>6, SeqEqual
<1>8. QED
  BY <1>7 DEF a, b

LEMMA ExchangeGrantsOrQueues ==
  ASSUME QueueInv, OwnerFacts, OwnerFacts', NEW t \in Thread, Exchange(t)
  PROVE  Fifo!AcquireFree(t) \/ Fifo!Request(t)
<1>i. /\ queue \in Seq(Thread) /\ op \in [Thread -> Operation] /\ op[t] = "exchange"
      /\ queue' = Append(queue, t) /\ Len(queue) \in Nat
      /\ \A i \in 1 .. Len(queue) : queue[i] \in Thread /\ queue[i] # t
      /\ queue = << >> <=> Len(queue) = 0
  BY QueueType, OutsideQueue DEF QueueInv, LockTypeOK, Exchange
<1>1. CASE queue = << >>
  <2>1. tail = NULL /\ \A u \in Thread : ~Holds(u)
    BY <1>1 DEF QueueInv, TailIsLast, OwnerFacts
  <2>2. Holds(t)' /\ queue' = << t >>
    BY <2>1, <1>1, <1>i DEF Exchange, Proceed, Holds
  <2>3. Owner = NULL /\ Waiting = << >> /\ Owner' = t /\ Waiting' = Tail(<< t >>)
    BY <2>1, <2>2, <1>1 DEF OwnerFacts
  <2>4. Tail(<< t >>) = << >>
    OBVIOUS
  <2>5. QED
    BY <2>3, <2>4 DEF Fifo!AcquireFree
<1>2. CASE queue # << >>
  <2>1. tail # NULL
    <3>1. Len(queue) \in 1 .. Len(queue)
      BY <1>2, <1>i
    <3>2. QED
      BY <3>1, <1>2, <1>i, NullAssumption DEF QueueInv, TailIsLast
  <2>2. \A u \in Thread : Holds(u)' <=> Holds(u)
    BY <2>1, <1>i DEF Exchange, Proceed, Holds, InUnlock
  <2>3. Append(queue, t) # << >> /\ 1 \in 1 .. Len(queue)
    BY <1>2, <1>i, AppendProperties
  <2>4. CASE \E u \in Thread : Holds(u)
    <3>1. PICK u \in Thread : Holds(u)
      BY <2>4
    <3>2. Owner = u /\ Owner' = u /\ u # t
      BY <3>1, <2>2, <2>3, <1>i DEF OwnerFacts
    <3>3. Waiting = Tail(queue) /\ Waiting' = Append(Tail(queue), t)
      BY <3>1, <2>2, <1>2, <1>i, TailAppend DEF OwnerFacts
    <3>4. \A i \in 1 .. Len(Tail(queue)) : Tail(queue)[i] # t
      <4>1. /\ Len(Tail(queue)) = Len(queue) - 1
            /\ \A i \in 1 .. Len(queue) - 1 : Tail(queue)[i] = queue[i + 1]
        BY <1>2, <1>i, HeadTailProperties
      <4>2. \A i \in 1 .. Len(queue) - 1 : i + 1 \in 1 .. Len(queue)
        BY <1>i
      <4>3. QED
        BY <4>1, <4>2, <1>i
    <3>5. QED
      BY <3>2, <3>3, <3>4 DEF Fifo!Request
  <2>5. CASE \A u \in Thread : ~Holds(u)
    <3>1. Owner = NULL /\ Owner' = NULL /\ Waiting = queue /\ Waiting' = Append(queue, t)
      BY <2>5, <2>2, <1>i DEF OwnerFacts
    <3>2. QED
      BY <3>1, <1>i, NullAssumption DEF Fifo!Request
  <2>6. QED
    BY <2>4, <2>5
<1>3. QED
  BY <1>1, <1>2

LEMMA SpinAcquires ==
  ASSUME QueueInv, OwnerFacts, OwnerFacts', NEW t \in Thread, Spin(t)
  PROVE  Fifo!Acquire(t)
<1>1. queue # << >> /\ queue[1] = t
  <2>1. PICK k \in 1 .. Len(queue) : queue[k] = t
    BY DEF QueueInv, QueueMembers, Spin
  <2>2. Len(queue) \in Nat /\ (queue = << >> <=> Len(queue) = 0)
    BY QueueType DEF QueueInv
  <2>3. k \notin 2 .. Len(queue)
    BY <2>1 DEF QueueInv, OthersWait, Spin
  <2>4. k = 1 /\ Len(queue) # 0
    BY <2>2, <2>3
  <2>5. QED
    BY <2>1, <2>2, <2>4
<1>2. \A u \in Thread : ~Holds(u)
  BY <1>1 DEF OwnerFacts, Spin, Holds, InUnlock
<1>3. Holds(t)' /\ queue' = queue
  BY DEF Spin, Proceed, Holds, QueueInv, LockTypeOK
<1>4. Owner = NULL /\ Waiting = queue /\ Owner' = t /\ Waiting' = Tail(queue)
  BY <1>2, <1>3 DEF OwnerFacts
<1>5. QED
  BY <1>1, <1>4 DEF Fifo!Acquire

\* Both ends of unlock() take the owner, and nobody else, out of the queue.
LEMMA LeavingReleases ==
  ASSUME QueueInv, OwnerFacts, OwnerFacts', NEW t \in Thread, Holds(t),
         queue' = Tail(queue), op' = [op EXCEPT ![t] = "out"]
  PROVE  Fifo!Release(t)
<1>1. \A u \in Thread : ~Holds(u)'
  BY DEF OwnerFacts, Holds, InUnlock, QueueInv, LockTypeOK
<1>2. Owner = t /\ Waiting = Tail(queue) /\ Owner' = NULL /\ Waiting' = Tail(queue)
  BY <1>1 DEF OwnerFacts
<1>3. QED
  BY <1>2 DEF Fifo!Release

LEMMA StepSimulated ==
  ASSUME QueueInv, OwnerFacts, OwnerFacts', [LockNext]_lockVars
  PROVE  [Fifo!Next]_(Fifo!vars)
<1> USE DEF Fifo!Next
<1>p. op \in [Thread -> Operation]
  BY DEF QueueInv, LockTypeOK
<1>1. ASSUME NEW t \in Thread,
             CallLock(t) \/ StoreNext(t) \/ StoreWait(t) \/ Link(t)
      PROVE  UNCHANGED Fifo!vars
  <2>1. queue' = queue /\ \A u \in Thread : Holds(u)' <=> Holds(u)
    BY <1>1, <1>p DEF CallLock, StoreNext, StoreWait, Link, Proceed, Holds, InUnlock
  <2>2. QED
    BY <2>1, InvisibleStep
<1>2. ASSUME NEW t \in Thread, CallUnlock(t) \/ LoadNext(t) \/ ReloadNext(t)
      PROVE  UNCHANGED Fifo!vars
  <2>1. queue' = queue /\ \A u \in Thread : Holds(u)' <=> Holds(u)
    BY <1>2, <1>p DEF CallUnlock, LoadNext, ReloadNext, Proceed, Holds, InUnlock
  <2>2. QED
    BY <2>1, InvisibleStep
<1>3. ASSUME NEW t \in Thread, CompareExchange(t)
      PROVE  Fifo!Release(t) \/ UNCHANGED Fifo!vars
  <2>1. CASE tail = t
    BY <2>1, <1>3, LeavingReleases DEF CompareExchange, Proceed, Holds, InUnlock
  <2>2. CASE tail # t
    <3>1. queue' = queue /\ \A u \in Thread : Holds(u)' <=> Holds(u)
      BY <2>2, <1>3, <1>p DEF CompareExchange, Proceed, Holds, InUnlock
    <3>2. QED
      BY <3>1, InvisibleStep
  <2>3. QED
    BY <2>1, <2>2
<1>4. ASSUME NEW t \in Thread, ReleaseLock(t)
      PROVE  Fifo!Release(t)
  BY <1>4, LeavingReleases DEF ReleaseLock, Proceed, Holds, InUnlock
<1>5. CASE UNCHANGED lockVars
  <2>1. queue' = queue /\ \A u \in Thread : Holds(u)' <=> Holds(u)
    BY <1>5 DEF lockVars, Holds
  <2>2. QED
    BY <2>1, InvisibleStep
<1>6. ASSUME NEW t \in Thread, Lock(t)
      PROVE  Fifo!AcquireFree(t) \/ Fifo!Request(t) \/ Fifo!Acquire(t) \/ UNCHANGED Fifo!vars
  BY <1>6, <1>1, ExchangeGrantsOrQueues, SpinAcquires DEF Lock
<1>7. ASSUME NEW t \in Thread, Unlock(t)
      PROVE  Fifo!Release(t) \/ UNCHANGED Fifo!vars
  BY <1>7, <1>2, <1>3, <1>4 DEF Unlock
<1>8. QED
  BY <1>1, <1>2, <1>5, <1>6, <1>7 DEF LockNext

\* For every number of threads, the qnodes behave as one lock that is granted
\* in the order of the exchanges.
THEOREM Refinement == LockSpec => ImplementsFifoLock
<1>1. LockInit => Fifo!Init
  BY DEF LockInit, Fifo!Init, Owner, Waiting, Holds, InUnlock
<1>2. QueueInv /\ OwnerFacts /\ OwnerFacts' /\ [LockNext]_lockVars => [Fifo!Next]_(Fifo!vars)
  BY StepSimulated
<1>3. QED
  BY <1>1, <1>2, QueueInvariance, OwnerFactsHold, PTL DEF LockSpec, ImplementsFifoLock, Fifo!Spec

-----------------------------------------------------------------------------
(* Locking *)

HoldsMcs == {"mem_read_lock", "mem_access", "mem_read_unlock", "mem_unlock"}
HoldsRead == {"mem_access", "mem_read_unlock"}
HoldsWrite ==
  {"alloc_client", "alloc_locate", "alloc_register", "alloc_unlock", "region_use", "region_unlock"}
HoldsMutex ==
  {"start_load", "start_store", "start_max", "start_unlock", "fini_load", "fini_store", "fini_unlock"}
HoldsClient == {"alloc_locate", "callback"}
MayHoldClient ==
  HoldsClient \cup HoldsMutex \cup {"start_lock", "fini_lock", "start_return", "fini_return"}
Uncounted ==
  {"unborn", "start_lock", "fini_load", "fini_store", "fini_unlock", "fini_return"}

McsOwner == \A t \in Thread : owner = t <=> pc[t] \in HoldsMcs

McsQueue ==
  /\ \A i \in 1 .. Len(waiting) : pc[waiting[i]] = "mem_wait"
  /\ \A t \in Thread : pc[t] = "mem_wait" => \E i \in 1 .. Len(waiting) : waiting[i] = t
  /\ \A i, j \in 1 .. Len(waiting) : waiting[i] = waiting[j] => i = j

RWLock ==
  /\ \A t \in Thread : t \in readers <=> pc[t] \in HoldsRead
  /\ \A t \in Thread : writer = t <=> pc[t] \in HoldsWrite
  /\ writer # NoThread => readers = {}

ClientLock ==
  /\ \A t \in Thread : client = t => pc[t] \in MayHoldClient
  /\ \A t \in Thread : pc[t] \in HoldsClient => client = t

Mutex == \A t \in Thread : mutex = t <=> pc[t] \in HoldsMutex

\* What the thread in thread_mutex has still to add to num_threads.
Pending ==
  IF mutex = NoThread THEN 0
  ELSE IF pc[mutex] \in {"start_load", "start_store"} THEN 1
  ELSE IF pc[mutex] \in {"fini_load", "fini_store"} THEN -1
  ELSE 0

MaxPending == mutex # NoThread /\ pc[mutex] \in {"start_load", "start_store", "start_max"}

Counts ==
  /\ counted = {t \in Thread : pc[t] \notin Uncounted}
  /\ num_threads + Pending = Cardinality(counted)
  /\ \A t \in Thread : pc[t] \in {"start_store", "fini_store"} => loaded[t] = num_threads
  /\ peak = IF MaxPending /\ Cardinality(counted) > g_max_threads
            THEN Cardinality(counted) ELSE g_max_threads

IInv == TypeOK /\ McsOwner /\ McsQueue /\ RWLock /\ ClientLock /\ Mutex /\ Counts

-----------------------------------------------------------------------------
LEMMA McsOwnerKept ==
  ASSUME TypeOK, McsOwner, NEW t \in Thread, Call(t) \/ Granted(t) \/ Step(t)
  PROVE  McsOwner'
<1> USE ThreadAssumption DEF TypeOK, McsOwner, HoldsMcs, Goto, mcslock, g_rwlock, locks
<1>1. CASE CallMemAccess(t)
  BY <1>1 DEF CallMemAccess, Mcs!AcquireFree, Mcs!Request
<1>2. CASE McsAcquire(t)
  BY <1>2 DEF McsAcquire, Mcs!Acquire
<1>3. CASE MemUnlock(t)
  BY <1>3 DEF MemUnlock, Mcs!Release
<1>4. CASE (Call(t) /\ ~CallMemAccess(t)) \/ Granted(t)
  BY <1>4 DEF Call, CallHandleDatastruct, CallRegionMarker, CallNewFree, CallInspector,
       CallInstrumentation, CallThreadStart, CallThreadFini, Granted, MemReadLock,
       AllocWriteLock, AllocLockClient, RegionWriteLock, StartLock, FiniLock,
       ReadLock, WriteLock, LockClient, MutexLock
<1>5. CASE Step(t) /\ ~McsAcquire(t) /\ ~MemUnlock(t)
  BY <1>5 DEF Step, AccessBlocks, MemReadUnlock, Locate, Register, AllocUnlock, UseRegion,
       RegionUnlock, NewFree, Inspector, LoadNumThreads, StartStore, StartMax, FiniStore,
       CountUnlock, CallbackReturn, RWUnlock, UnlockClient, MutexUnlock
<1> QED  BY <1>1, <1>2, <1>3, <1>4, <1>5

LEMMA RWLockKept ==
  ASSUME TypeOK, RWLock, NEW t \in Thread, Call(t) \/ Granted(t) \/ Step(t)
  PROVE  RWLock'
<1> USE ThreadAssumption DEF TypeOK, RWLock, HoldsRead, HoldsWrite, Goto, mcslock, g_rwlock, locks
<1>1. CASE Call(t)
  BY <1>1 DEF Call, CallMemAccess, CallHandleDatastruct, CallRegionMarker, CallNewFree, CallInspector,
       CallInstrumentation, CallThreadStart, CallThreadFini, LockClient
<1>2. CASE Granted(t)
  <2>1. CASE MemReadLock(t)
    BY <2>1 DEF MemReadLock, ReadLock
  <2>2. CASE AllocWriteLock(t) \/ RegionWriteLock(t)
    BY <2>2 DEF AllocWriteLock, RegionWriteLock, WriteLock
  <2>3. CASE AllocLockClient(t)
    BY <2>3 DEF AllocLockClient, LockClient
  <2>4. CASE StartLock(t)
    BY <2>4 DEF StartLock, MutexLock
  <2>5. CASE FiniLock(t)
    BY <2>5 DEF FiniLock, MutexLock
  <2> QED  BY <1>2, <2>1, <2>2, <2>3, <2>4, <2>5 DEF Granted
<1>3. CASE MemReadUnlock(t) \/ AllocUnlock(t) \/ RegionUnlock(t)
  BY <1>3 DEF MemReadUnlock, AllocUnlock, RegionUnlock, RWUnlock
<1>4. CASE McsAcquire(t) \/ MemUnlock(t) \/ AccessBlocks(t) \/ Locate(t) \/ Register(t) \/ UseRegion(t)
  BY <1>4 DEF McsAcquire, MemUnlock, AccessBlocks, Locate, Register, UseRegion, UnlockClient
<1>5. CASE \/ NewFree(t) \/ Inspector(t) \/ LoadNumThreads(t) \/ StartStore(t) \/ StartMax(t)
           \/ FiniStore(t) \/ CountUnlock(t) \/ CallbackReturn(t)
  BY <1>5 DEF NewFree, Inspector, LoadNumThreads, StartStore, StartMax, FiniStore,
       CountUnlock, CallbackReturn, UnlockClient, MutexUnlock
<1> QED  BY <1>1, <1>2, <1>3, <1>4, <1>5 DEF Step

LEMMA ClientLockKept ==
  ASSUME TypeOK, ClientLock, NEW t \in Thread, Call(t) \/ Granted(t) \/ Step(t)
  PROVE  ClientLock'
<1> USE ThreadAssumption DEF TypeOK, ClientLock, HoldsClient, MayHoldClient, HoldsMutex, Goto, mcslock, g_rwlock, locks
<1>1. CASE Call(t)
  BY <1>1 DEF Call, CallMemAccess, CallHandleDatastruct, CallRegionMarker, CallNewFree, CallInspector,
       CallInstrumentation, CallThreadStart, CallThreadFini, LockClient
<1>2. CASE Granted(t)
  BY <1>2 DEF Granted, MemReadLock,
       AllocWriteLock, AllocLockClient, RegionWriteLock, StartLock, FiniLock,
       ReadLock, WriteLock, LockClient, MutexLock
<1>3. CASE Step(t)
  BY <1>3 DEF Step, McsAcquire, MemUnlock, AccessBlocks, MemReadUnlock, Locate, Register, AllocUnlock, UseRegion,
       RegionUnlock, NewFree, Inspector, LoadNumThreads, StartStore, StartMax, FiniStore,
       CountUnlock, CallbackReturn, RWUnlock, UnlockClient, MutexUnlock
<1> QED  BY <1>1, <1>2, <1>3

LEMMA MutexKept ==
  ASSUME TypeOK, Mutex, NEW t \in Thread, Call(t) \/ Granted(t) \/ Step(t)
  PROVE  Mutex'
<1> USE ThreadAssumption DEF TypeOK, Mutex, HoldsMutex, Goto, mcslock, g_rwlock, locks
<1>1. CASE Call(t)
  BY <1>1 DEF Call, CallMemAccess, CallHandleDatastruct, CallRegionMarker, CallNewFree, CallInspector,
       CallInstrumentation, CallThreadStart, CallThreadFini, LockClient
<1>2. CASE Granted(t)
  BY <1>2 DEF Granted, MemReadLock,
       AllocWriteLock, AllocLockClient, RegionWriteLock, StartLock, FiniLock,
       ReadLock, WriteLock, LockClient, MutexLock
<1>3. CASE Step(t)
  BY <1>3 DEF Step, McsAcquire, MemUnlock, AccessBlocks, MemReadUnlock, Locate, Register, AllocUnlock, UseRegion,
       RegionUnlock, NewFree, Inspector, LoadNumThreads, StartStore, StartMax, FiniStore,
       CountUnlock, CallbackReturn, RWUnlock, UnlockClient, MutexUnlock
<1> QED  BY <1>1, <1>2, <1>3

\* An action that neither changes the queue nor lets a thread wait or go on.
LEMMA QueueUnchanged ==
  ASSUME TypeOK, McsQueue, waiting' = waiting,
         \A u \in Thread : pc'[u] = "mem_wait" <=> pc[u] = "mem_wait"
  PROVE  McsQueue' /\ waiting' \in Seq(Thread)
<1>1. \A i \in 1 .. Len(waiting) : waiting[i] \in Thread
  BY ElementOfSeq DEF TypeOK
<1> QED  BY <1>1 DEF TypeOK, McsQueue

\* The queue of mcslock after a request and a grant.
LEMMA McsQueueKept ==
  ASSUME TypeOK, McsQueue, NEW t \in Thread, Call(t) \/ Granted(t) \/ Step(t)
  PROVE  McsQueue' /\ waiting' \in Seq(Thread)
<1> USE DEF Goto, mcslock, g_rwlock, locks
<1>0. /\ waiting \in Seq(Thread) /\ Len(waiting) \in Nat
      /\ \A i \in 1 .. Len(waiting) : waiting[i] \in Thread
      /\ pc \in [Thread -> Location]
  BY ElementOfSeq, LenProperties DEF TypeOK
<1>1. CASE waiting' = Append(waiting, t) /\ Goto(t, "out", "mem_wait")
  <2>1. /\ waiting' \in Seq(Thread) /\ Len(waiting') = Len(waiting) + 1
        /\ \A i \in 1 .. Len(waiting) : waiting'[i] = waiting[i]
        /\ waiting'[Len(waiting) + 1] = t
    BY <1>0, <1>1, AppendProperties
  <2>2. /\ pc[t] = "out" /\ pc'[t] = "mem_wait"
        /\ \A u \in Thread \ {t} : pc'[u] = pc[u]
    BY <1>0, <1>1
  <2>3. \A i \in 1 .. Len(waiting) : pc[waiting[i]] = "mem_wait" /\ waiting[i] # t
    BY <2>2 DEF McsQueue
  <2>4. \A i \in 1 .. Len(waiting') : pc'[waiting'[i]] = "mem_wait"
    BY <1>0, <2>1, <2>2, <2>3
  <2>5. \A u \in Thread : pc'[u] = "mem_wait" => \E i \in 1 .. Len(waiting') : waiting'[i] = u
    <3>1. SUFFICES ASSUME NEW u \in Thread, pc'[u] = "mem_wait"
                   PROVE  \E i \in 1 .. Len(waiting') : waiting'[i] = u
      OBVIOUS
    <3>2. CASE u = t
      BY <1>0, <2>1, <3>2
    <3>3. CASE u # t
      <4>1. PICK i \in 1 .. Len(waiting) : waiting[i] = u
        BY <2>2, <3>1, <3>3 DEF McsQueue
      <4> QED  BY <1>0, <2>1, <4>1
    <3> QED  BY <3>2, <3>3
  <2>6. \A i, j \in 1 .. Len(waiting') : waiting'[i] = waiting'[j] => i = j
    <3>1. \A i, j \in 1 .. Len(waiting) : waiting[i] = waiting[j] => i = j
      BY DEF McsQueue
    <3> QED  BY <1>0, <2>1, <2>3, <3>1
  <2> QED  BY <2>1, <2>4, <2>5, <2>6 DEF McsQueue
<1>2. CASE McsAcquire(t)
  <2>1. /\ waiting # << >> /\ t = Head(waiting) /\ waiting' = Tail(waiting)
        /\ pc'[t] = "mem_read_lock" /\ \A u \in Thread \ {t} : pc'[u] = pc[u]
    BY <1>0, <1>2 DEF McsAcquire, Mcs!Acquire
  <2>2. /\ waiting' \in Seq(Thread) /\ Len(waiting') = Len(waiting) - 1
        /\ t = waiting[1] /\ Len(waiting) > 0
        /\ \A i \in 1 .. Len(waiting') : waiting'[i] = waiting[i + 1]
    BY <1>0, <2>1, HeadTailProperties, EmptySeq
  <2>3. \A i, j \in 1 .. Len(waiting) : waiting[i] = waiting[j] => i = j
    BY DEF McsQueue
  <2>4. \A i \in 1 .. Len(waiting') : i + 1 \in 1 .. Len(waiting) /\ waiting'[i] \in Thread \ {t}
    BY <1>0, <2>2, <2>3
  <2>5. \A i \in 1 .. Len(waiting') : pc'[waiting'[i]] = "mem_wait"
    BY <2>1, <2>2, <2>4 DEF McsQueue
  <2>6. \A u \in Thread : pc'[u] = "mem_wait" => \E i \in 1 .. Len(waiting') : waiting'[i] = u
    <3>1. SUFFICES ASSUME NEW u \in Thread, pc'[u] = "mem_wait"
                   PROVE  \E i \in 1 .. Len(waiting') : waiting'[i] = u
      OBVIOUS
    <3>2. u # t /\ pc[u] = "mem_wait"
      BY <2>1, <3>1
    <3>3. PICK i \in 1 .. Len(waiting) : waiting[i] = u
      BY <3>2 DEF McsQueue
    <3>4. i # 1 /\ i - 1 \in 1 .. Len(waiting')
      BY <1>0, <2>2, <3>2, <3>3
    <3>5. waiting'[i - 1] = waiting[(i - 1) + 1] /\ (i - 1) + 1 = i
      BY <1>0, <2>2, <3>4
    <3> QED  BY <3>3, <3>4, <3>5
  <2>7. \A i, j \in 1 .. Len(waiting') : waiting'[i] = waiting'[j] => i = j
    <3>1. SUFFICES ASSUME NEW i \in 1 .. Len(waiting'), NEW j \in 1 .. Len(waiting'),
                          waiting'[i] = waiting'[j]
                   PROVE  i = j
      OBVIOUS
    <3>2. waiting[i + 1] = waiting[j + 1] /\ i + 1 \in 1 .. Len(waiting) /\ j + 1 \in 1 .. Len(waiting)
      BY <2>2, <2>4, <3>1
    <3>3. i + 1 = j + 1
      BY <2>3, <3>2
    <3> QED  BY <1>0, <2>2, <3>3
  <2> QED  BY <2>2, <2>5, <2>6, <2>7 DEF McsQueue
<1>3. CASE waiting' = waiting /\ \A u \in Thread : pc'[u] = "mem_wait" <=> pc[u] = "mem_wait"
  BY <1>3, QueueUnchanged
<1>4. CASE Call(t)
  <2>1. CASE CallMemAccess(t)
    BY <1>0, <1>1, <1>3, <2>1 DEF CallMemAccess, Mcs!AcquireFree, Mcs!Request
  <2>2. CASE ~CallMemAccess(t)
    BY <1>0, <1>3, <1>4, <2>2 DEF Call, CallHandleDatastruct, CallRegionMarker, CallNewFree,
       CallInspector, CallInstrumentation, CallThreadStart, CallThreadFini, LockClient
  <2> QED  BY <2>1, <2>2
<1>5. CASE Granted(t)
  BY <1>0, <1>3, <1>5 DEF Granted, MemReadLock,
       AllocWriteLock, AllocLockClient, RegionWriteLock, StartLock, FiniLock,
       ReadLock, WriteLock, LockClient, MutexLock
<1>6. CASE Step(t)
  BY <1>0, <1>2, <1>3, <1>6 DEF Step, MemUnlock, Mcs!Release, AccessBlocks, MemReadUnlock, Locate, Register,
       AllocUnlock, UseRegion,
       RegionUnlock, NewFree, Inspector, LoadNumThreads, StartStore, StartMax, FiniStore,
       CountUnlock, CallbackReturn, RWUnlock, UnlockClient, MutexUnlock
<1> QED  BY <1>4, <1>5, <1>6

\* One thread more and one less.
LEMMA CountedFinite ==
  ASSUME counted \subseteq Thread
  PROVE  /\ IsFiniteSet(counted) /\ Cardinality(counted) \in Nat
         /\ \A t \in Thread \ counted : Cardinality(counted \cup {t}) = Cardinality(counted) + 1
         /\ \A t \in counted : Cardinality(counted \ {t}) = Cardinality(counted) - 1
<1>1. IsFiniteSet(counted)
  BY ThreadAssumption, FS_Subset
<1>2. Cardinality(counted) \in Nat
  BY <1>1, FS_CardinalityType
<1>3. \A t \in Thread \ counted : Cardinality(counted \cup {t}) = Cardinality(counted) + 1
  BY <1>1, FS_AddElement
<1>4. \A t \in counted : Cardinality(counted \ {t}) = Cardinality(counted) - 1
  BY <1>1, FS_RemoveElement
<1> QED  BY <1>1, <1>2, <1>3, <1>4

\* An action that leaves the counters alone, and takes no thread to or from a
\* place where the counters matter, leaves Counts alone.
LEMMA CountsKept ==
  ASSUME TypeOK, Mutex, Counts, NEW t \in Thread, Call(t) \/ Granted(t) \/ Step(t)
  PROVE  Counts' /\ num_threads' \in Nat /\ g_max_threads' \in Nat /\ peak' \in Nat
         /\ loaded' \in [Thread -> Nat] /\ counted' \subseteq Thread
<1> USE ThreadAssumption DEF TypeOK, Mutex, HoldsMutex, Goto, mcslock, g_rwlock, locks, counts
<1>0. /\ Cardinality(counted) \in Nat
      /\ \A u \in Thread \ counted : Cardinality(counted \cup {u}) = Cardinality(counted) + 1
      /\ \A u \in counted : Cardinality(counted \ {u}) = Cardinality(counted) - 1
  BY CountedFinite
<1>1. ASSUME UNCHANGED counts, mutex' = mutex, pc[t] \notin HoldsMutex, pc'[t] \notin HoldsMutex,
             pc[t] \in Uncounted <=> pc'[t] \in Uncounted,
             \A u \in Thread \ {t} : pc'[u] = pc[u]
      PROVE  Counts'
  <2>1. counted' = {u \in Thread : pc'[u] \notin Uncounted}
    BY <1>1 DEF Counts
  <2>2. Pending' = Pending /\ MaxPending' = MaxPending
    BY <1>1 DEF Pending, MaxPending
  <2>3. \A u \in Thread : pc'[u] \in {"start_store", "fini_store"} => loaded'[u] = num_threads'
    BY <1>1 DEF Counts
  <2> QED  BY <1>1, <2>1, <2>2, <2>3 DEF Counts
<1>2. CASE Call(t)
  <2>1. /\ UNCHANGED << counts, mutex >> /\ pc[t] \notin HoldsMutex /\ pc'[t] \notin HoldsMutex
        /\ pc[t] \in Uncounted <=> pc'[t] \in Uncounted
        /\ \A u \in Thread \ {t} : pc'[u] = pc[u]
    BY <1>2 DEF Call, CallMemAccess, CallHandleDatastruct, CallRegionMarker, CallNewFree, CallInspector,
       CallInstrumentation, CallThreadStart, CallThreadFini, LockClient, Uncounted
  <2> QED  BY <1>1, <2>1
<1>3. CASE Granted(t) /\ ~StartLock(t) /\ ~FiniLock(t)
  <2>1. /\ UNCHANGED << counts, mutex >> /\ pc[t] \notin HoldsMutex /\ pc'[t] \notin HoldsMutex
        /\ pc[t] \in Uncounted <=> pc'[t] \in Uncounted
        /\ \A u \in Thread \ {t} : pc'[u] = pc[u]
    BY <1>3 DEF Granted, MemReadLock, AllocWriteLock, AllocLockClient, RegionWriteLock,
       ReadLock, WriteLock, LockClient, Uncounted
  <2> QED  BY <1>1, <2>1
<1>4. CASE \/ McsAcquire(t) \/ AccessBlocks(t) \/ MemReadUnlock(t) \/ MemUnlock(t)
           \/ Locate(t) \/ Register(t) \/ AllocUnlock(t) \/ UseRegion(t) \/ RegionUnlock(t)
           \/ NewFree(t) \/ Inspector(t) \/ CallbackReturn(t)
  <2>1. /\ UNCHANGED << counts, mutex >> /\ pc[t] \notin HoldsMutex /\ pc'[t] \notin HoldsMutex
        /\ pc[t] \in Uncounted <=> pc'[t] \in Uncounted
        /\ \A u \in Thread \ {t} : pc'[u] = pc[u]
    BY <1>4 DEF McsAcquire, MemUnlock, AccessBlocks, MemReadUnlock, Locate, Register, AllocUnlock,
       UseRegion, RegionUnlock, NewFree, Inspector, CallbackReturn, RWUnlock, UnlockClient, Uncounted
  <2> QED  BY <1>1, <2>1
<1>5. CASE StartLock(t)
  <2>1. t \notin counted /\ mutex = NoThread /\ mutex' = t /\ pc'[t] = "start_load"
    BY <1>5 DEF StartLock, MutexLock, Counts, Uncounted
  <2>2. Cardinality(counted') = Cardinality(counted) + 1
    BY <1>0, <1>5, <2>1 DEF StartLock
  <2>3. counted' = {u \in Thread : pc'[u] \notin Uncounted}
    BY <1>5 DEF StartLock, Counts, Uncounted
  <2>4. Pending = 0 /\ Pending' = 1 /\ ~MaxPending /\ MaxPending'
    BY <2>1 DEF Pending, MaxPending
  <2>5. \A u \in Thread : pc'[u] \notin {"start_store", "fini_store"}
    BY <1>5, <2>1 DEF StartLock
  <2> QED  BY <1>0, <1>5, <2>2, <2>3, <2>4, <2>5 DEF StartLock, Counts
<1>6. CASE FiniLock(t)
  <2>1. t \in counted /\ mutex = NoThread /\ mutex' = t /\ pc'[t] = "fini_load"
    BY <1>6 DEF FiniLock, MutexLock, Counts, Uncounted
  <2>2. Cardinality(counted') = Cardinality(counted) - 1
    BY <1>0, <1>6, <2>1 DEF FiniLock
  <2>3. counted' = {u \in Thread : pc'[u] \notin Uncounted}
    BY <1>6 DEF FiniLock, Counts, Uncounted
  <2>4. Pending = 0 /\ Pending' = -1 /\ ~MaxPending /\ ~MaxPending'
    BY <2>1 DEF Pending, MaxPending
  <2>5. \A u \in Thread : pc'[u] \notin {"start_store", "fini_store"}
    BY <1>6, <2>1 DEF FiniLock
  <2> QED  BY <1>0, <1>6, <2>2, <2>3, <2>4, <2>5 DEF FiniLock, Counts
<1>7. CASE \/ LoadNumThreads(t) \/ StartStore(t) \/ StartMax(t) \/ FiniStore(t) \/ CountUnlock(t)
  <2>1. /\ mutex = t /\ UNCHANGED counted
        /\ \A u \in Thread \ {t} : pc'[u] = pc[u] /\ pc[u] \notin HoldsMutex
    BY <1>7 DEF LoadNumThreads, StartStore, StartMax, FiniStore, CountUnlock
  <2>2. counted' = {u \in Thread : pc'[u] \notin Uncounted}
    BY <1>7, <2>1 DEF LoadNumThreads, StartStore, StartMax, FiniStore, CountUnlock, Counts, Uncounted
  <2>3. \A u \in Thread : pc'[u] \in {"start_store", "fini_store"} => loaded'[u] = num_threads'
    BY <1>7, <2>1 DEF LoadNumThreads, StartStore, StartMax, FiniStore, CountUnlock, Counts
  <2>4. num_threads' + Pending' = Cardinality(counted')
    BY <1>7, <2>1 DEF LoadNumThreads, StartStore, StartMax, FiniStore, CountUnlock, Counts, Pending, MutexUnlock
  <2>5. peak' = IF MaxPending' /\ Cardinality(counted') > g_max_threads'
                THEN Cardinality(counted') ELSE g_max_threads'
    BY <1>0, <1>7, <2>1 DEF LoadNumThreads, StartStore, StartMax, FiniStore, CountUnlock, Counts,
         MaxPending, Pending, MutexUnlock
  <2>6. num_threads' \in Nat /\ g_max_threads' \in Nat /\ peak' \in Nat /\ loaded' \in [Thread -> Nat]
    BY <1>0, <1>7, <2>1 DEF LoadNumThreads, StartStore, StartMax, FiniStore, CountUnlock, Counts, Pending
  <2> QED  BY <2>1, <2>2, <2>3, <2>4, <2>5, <2>6 DEF Counts
<1>8. Call(t) \/ (Granted(t) /\ ~StartLock(t) /\ ~FiniLock(t)) => UNCHANGED counts
  BY DEF Call, CallMemAccess, CallHandleDatastruct, CallRegionMarker, CallNewFree, CallInspector,
       CallInstrumentation, CallThreadStart, CallThreadFini,
       Granted, MemReadLock, AllocWriteLock, AllocLockClient, RegionWriteLock
<1> QED  BY <1>2, <1>3, <1>4, <1>5, <1>6, <1>7, <1>8 DEF Granted, Step

\* The other parts of the type invariant.
LEMMA TypesKept ==
  ASSUME TypeOK, NEW t \in Thread, Call(t) \/ Granted(t) \/ Step(t)
  PROVE  /\ pc' \in [Thread -> Location]
         /\ owner' \in Thread \cup {NoThread}
         /\ readers' \subseteq Thread /\ writer' \in Thread \cup {NoThread}
         /\ client' \in Thread \cup {NoThread} /\ mutex' \in Thread \cup {NoThread}
<1>1. pc' \in [Thread -> Location]
  <2>1. ASSUME NEW from, NEW to \in Location, Goto(t, from, to)
        PROVE  pc' \in [Thread -> Location]
    BY <2>1 DEF TypeOK, Goto
  <2>2. CASE Call(t)
    BY <2>1, <2>2 DEF Call, CallMemAccess, CallHandleDatastruct, CallRegionMarker, CallNewFree,
         CallInspector, CallInstrumentation, CallThreadStart, CallThreadFini, Location
  <2>3. CASE Granted(t)
    BY <2>1, <2>3 DEF Granted, MemReadLock, AllocWriteLock, AllocLockClient, RegionWriteLock,
         StartLock, FiniLock, Location
  <2>4. CASE Step(t)
    BY <2>1, <2>4 DEF Step, McsAcquire, MemUnlock, AccessBlocks, MemReadUnlock, Locate, Register,
         AllocUnlock, UseRegion, RegionUnlock, NewFree, Inspector, LoadNumThreads, StartStore,
         StartMax, FiniStore, CountUnlock, CallbackReturn, Location
  <2> QED  BY <2>2, <2>3, <2>4
<1>2. /\ owner' \in Thread \cup {NoThread}
      /\ readers' \subseteq Thread /\ writer' \in Thread \cup {NoThread}
      /\ client' \in Thread \cup {NoThread} /\ mutex' \in Thread \cup {NoThread}
  <2> USE DEF TypeOK, mcslock, g_rwlock, locks
  <2>1. CASE Call(t)
    BY <2>1 DEF Call, CallMemAccess, Mcs!AcquireFree, Mcs!Request, CallHandleDatastruct,
         CallRegionMarker, CallNewFree, CallInspector, CallInstrumentation, CallThreadStart,
         CallThreadFini, LockClient
  <2>2. CASE Granted(t)
    BY <2>2 DEF Granted, MemReadLock, AllocWriteLock, AllocLockClient, RegionWriteLock, StartLock,
         FiniLock, ReadLock, WriteLock, LockClient, MutexLock
  <2>3. CASE McsAcquire(t) \/ MemUnlock(t) \/ AccessBlocks(t) \/ MemReadUnlock(t) \/ Locate(t)
    BY <2>3 DEF McsAcquire, Mcs!Acquire, MemUnlock, Mcs!Release, AccessBlocks, MemReadUnlock, Locate,
         RWUnlock, UnlockClient
  <2>4. CASE Register(t) \/ AllocUnlock(t) \/ UseRegion(t) \/ RegionUnlock(t) \/ NewFree(t) \/ Inspector(t)
    BY <2>4 DEF Register, AllocUnlock, UseRegion, RegionUnlock, NewFree, Inspector, RWUnlock
  <2>5. CASE \/ LoadNumThreads(t) \/ StartStore(t) \/ StartMax(t) \/ FiniStore(t)
             \/ CountUnlock(t) \/ CallbackReturn(t)
    BY <2>5 DEF LoadNumThreads, StartStore, StartMax, FiniStore, CountUnlock, CallbackReturn,
         UnlockClient, MutexUnlock
  <2> QED  BY <2>1, <2>2, <2>3, <2>4, <2>5 DEF Step
<1> QED  BY <1>1, <1>2

\* IInv is inductive.
LEMMA Invariance == Spec => []IInv
<1>1. Init => IInv
  <2>1. SUFFICES ASSUME Init PROVE IInv
    OBVIOUS
  <2>2. TypeOK
    BY <2>1, EmptySeq DEF Init, TypeOK, Location
  <2>3. McsOwner /\ RWLock /\ ClientLock /\ Mutex
    BY <2>1, ThreadAssumption DEF Init, McsOwner, RWLock, ClientLock, Mutex, HoldsMcs, HoldsRead,
         HoldsWrite, HoldsClient, MayHoldClient, HoldsMutex
  <2>4. McsQueue
    <3>1. Len(waiting) = 0
      BY <2>1, EmptySeq DEF Init
    <3> QED  BY <2>1, <3>1 DEF Init, McsQueue
  <2>5. Counts
    BY <2>1, FS_EmptySet DEF Init, Counts, Pending, MaxPending, Uncounted
  <2> QED  BY <2>2, <2>3, <2>4, <2>5 DEF IInv
<1>2. IInv /\ [Next]_vars => IInv'
  <2>1. ASSUME IInv, NEW t \in Thread, Call(t) \/ Granted(t) \/ Step(t) PROVE IInv'
    <3> USE <2>1 DEF IInv
    <3>1. TypeOK'
      BY TypesKept, McsQueueKept, CountsKept DEF TypeOK
    <3>2. McsOwner' /\ RWLock' /\ ClientLock' /\ Mutex'
      BY McsOwnerKept, RWLockKept, ClientLockKept, MutexKept
    <3> QED  BY <3>1, <3>2, McsQueueKept, CountsKept
  <2>2. ASSUME IInv, UNCHANGED vars PROVE IInv'
    BY <2>2 DEF IInv, vars, locks, counts, mcslock, g_rwlock, TypeOK, McsOwner, McsQueue, RWLock,
         ClientLock, Mutex, Counts, Pending, MaxPending
  <2> QED  BY <2>1, <2>2 DEF Next
<1> QED  BY <1>1, <1>2, PTL DEF Spec

\* The types hold; num_threads never falls below zero.
THEOREM TypeCorrect == Spec => []TypeOK
BY Invariance, PTL DEF IInv

\* What the locks guard is used by one writer or by readers: the users of the
\* caches and of the registry hold g_rwlock, for writing or, inside mcslock, for
\* reading; the users of the numbers of threads hold thread_mutex.
THEOREM ExclusionHolds == Spec => []SharedDataGuarded
<1>1. IInv => SharedDataGuarded
  BY ThreadAssumption DEF IInv, TypeOK, SharedDataGuarded, Conflict, Written, Read, Unlocked, McsOwner, RWLock,
     Mutex, HoldsMcs, HoldsRead, HoldsWrite, HoldsMutex
<1> QED  BY <1>1, Invariance, PTL

\* No deadlock: whoever holds the last of the locks that are held can go on.
THEOREM NoDeadlock == Spec => []SomeoneRuns
<1>1. ASSUME IInv, NEW t \in Thread, InCall(t), Blocked(t)
      PROVE  \E u \in Thread : InCall(u) /\ ~Blocked(u)
  <2> USE <1>1 DEF IInv, TypeOK, InCall, Blocked
  <2>1. CASE mutex # NoThread
    <3>1. mutex \in Thread /\ pc[mutex] \in HoldsMutex
      BY <2>1 DEF Mutex
    <3> QED  BY <3>1 DEF HoldsMutex
  <2>2. CASE mutex = NoThread /\ client # NoThread
    <3>1. client \in Thread /\ pc[client] \in MayHoldClient
      BY <2>2 DEF ClientLock
    <3> QED  BY <2>2, <3>1 DEF MayHoldClient, HoldsClient, HoldsMutex
  <2>3. CASE client = NoThread /\ writer # NoThread
    <3>1. writer \in Thread /\ pc[writer] \in HoldsWrite
      BY <2>3 DEF RWLock
    <3> QED  BY <2>3, <3>1 DEF HoldsWrite
  <2>4. CASE writer = NoThread /\ readers # {}
    <3>1. PICK u \in Thread : u \in readers
      BY <2>4
    <3>2. pc[u] \in HoldsRead
      BY <3>1 DEF RWLock
    <3> QED  BY <3>2 DEF HoldsRead
  <2>5. CASE writer = NoThread /\ owner # NoThread
    <3>1. owner \in Thread /\ pc[owner] \in HoldsMcs
      BY <2>5 DEF McsOwner
    <3> QED  BY <2>5, <3>1 DEF HoldsMcs
  <2>6. CASE mutex = NoThread /\ client = NoThread /\ writer = NoThread /\ readers = {} /\ owner = NoThread
    <3>1. pc[t] = "mem_wait"
      BY <2>6
    <3>2. PICK i \in 1 .. Len(waiting) : waiting[i] = t
      BY <3>1 DEF McsQueue
    <3>3. waiting # << >> /\ Len(waiting) \in Nat \ {0}
      <4>1. Len(waiting) \in Nat /\ Len(waiting) # 0
        BY <3>2, LenProperties
      <4> QED  BY <4>1, EmptySeq
    <3>4. Head(waiting) \in Thread /\ Head(waiting) = waiting[1]
      BY <3>3, HeadTailProperties
    <3>5. pc[Head(waiting)] = "mem_wait"
      BY <3>3, <3>4 DEF McsQueue
    <3> QED  BY <2>6, <3>3, <3>4, <3>5
  <2> QED  BY <2>1, <2>2, <2>3, <2>4, <2>5, <2>6
<1>2. IInv => SomeoneRuns
  BY <1>1 DEF SomeoneRuns
<1> QED  BY <1>2, Invariance, PTL

\* No update of the number of threads is lost, and the maximum is the real one.
THEOREM MaxThreadsHolds == Spec => []MaxThreadsExact
<1>1. IInv => MaxThreadsExact
  <2>1. SUFFICES ASSUME IInv, mutex = NoThread
                 PROVE  num_threads = Cardinality(counted) /\ g_max_threads = peak
    BY DEF MaxThreadsExact
  <2>2. Pending = 0 /\ ~MaxPending
    BY <2>1 DEF Pending, MaxPending
  <2>3. /\ num_threads \in Nat /\ num_threads + Pending = Cardinality(counted)
        /\ peak = IF MaxPending /\ Cardinality(counted) > g_max_threads
                  THEN Cardinality(counted) ELSE g_max_threads
    BY <2>1 DEF IInv, TypeOK, Counts
  <2> QED  BY <2>2, <2>3
<1> QED  BY <1>1, Invariance, PTL
=============================================================================
