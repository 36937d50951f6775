----------------------------- MODULE MCProfiler -----------------------------
(***************************************************************************)
(* Three blocks of two bytes (bytes 2 to 7) and, per run, the allocations  *)
(* the allocator may return.  Bucket distances 0, 1 and 2.                 *)
(***************************************************************************)
EXTENDS Profiler

CONSTANTS t1, t2

MCBlock == 1 .. 3
MCMinDist == [b \in 0 .. 2 |-> b]
MCInfBucket == 3
MCOneThread == {t1}
MCTwoThreads == {t1, t2}

\* A large object over the blocks 1 and 2, one over block 3, and one in the
\* second half of block 1 and all of block 2 that can follow the first.
MCReuse == {<< 2, 3 >>, << 6, 2 >>, << 3, 3 >>}

\* One object per block: one below the combination threshold, one that begins
\* in the middle of the block before it, and one that does so after that.
MCObjects == {<< 2, 1 >>, << 3, 2 >>, << 5, 3 >>}

\* Two objects that share block 2, and cannot be live at the same time.
MCPair == {<< 2, 3 >>, << 4, 3 >>}
=============================================================================
