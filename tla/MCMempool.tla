------------------------------ MODULE MCMempool ------------------------------
(* Mempool for TLC.  The threads share a pool whose slice size is scaled  *)
(* to 4 bits (as in MCBitmap), so that a pool of 5 elements on 2 CPUs is  *)
(* split 2 + 3 over 2 sub-bitmaps, the last one absorbing the remainder.  *)
(* The layout arithmetic is also checked with the code's own constants    *)
(* (256-bit slices, 64 CPUs at most) for every pool of up to MaxCount     *)
(* elements and a set of sysconf results.                                 *)
EXTENDS Mempool, TLC

CONSTANTS t1, t2, MaxCount

MCThreads == {t1, t2}

\* sysconf failing (-1), one to a few CPUs, and counts around the cap of
\* 64 sub-bitmaps (51 * 5 / 4 = 63, 52 * 5 / 4 = 65).
MCCpus == {-1, 1, 2, 3, 4, 7, 8, 13, 51, 52, 64, 100}

Real == INSTANCE MempoolLayout WITH RECOMMEND_BITS <- 256, MAX_CPUS <- 64

(* FreeInvertsMalloc of mempool.c's layout with its real constants, for   *)
(* every pool of 1 to MaxCount elements and every CPU count of MCCpus:    *)
(* the sub-bitmaps cover the pool and the pointer _mempool_malloc returns *)
(* for a bit is freed by mempool_free into that same bit.  The formula is *)
(* constant; it is evaluated in the state mempool_create returns (Init),  *)
(* which TLC visits once.                                                  *)
LayoutFreeInvertsMalloc ==
  Init => \A count \in 1 .. MaxCount, cpu \in MCCpus :
            Real!FreeInvertsMalloc(count, cpu)
=============================================================================
