------------------------------ MODULE Mempool ------------------------------
(***************************************************************************)
(* The fixed-size memory pool of src/src/mempool.c.  mempool_create       *)
(* splits count elements over b_cnt sub-bitmaps of b_avg bits each, the   *)
(* last one taking the remainder; _mempool_malloc starts at a round-robin *)
(* sub-bitmap and tries each once; mempool_alloc retries with a doubling  *)
(* sleep; mempool_free turns the pointer back into (sub-bitmap, bit).     *)
(*                                                                         *)
(* The layout is MempoolLayout, operators of (count, cpu) checked over    *)
(* many pool sizes.  The pool's threads are a state machine here,         *)
(* over the sub-bitmaps, each a set of allocated bits: a sub-bitmap is a  *)
(* Bitmap, which implements FlatBitmap (lowest free bit, double free      *)
(* fails), and each bitmap call runs under its lock, so it is one step.   *)
(* Pointers are offsets from pool->mem in bytes.                          *)
(***************************************************************************)
EXTENDS Integers, FiniteSetsExt, MempoolLayout

CONSTANTS
  MIN_WAIT,        \* 1 ms
  MAX_WAIT,        \* 1024 ms
  Count,           \* the element count of the pool the threads share
  Cpu,             \* what sysconf(_SC_NPROCESSORS_CONF) returns (< 0: failure)
  Threads          \* threads calling mempool_alloc and mempool_free

-----------------------------------------------------------------------------
(* The threads sharing one pool of Count elements.                        *)

NB == BCnt(Count, Cpu)
SubIds == 0 .. NB - 1
SubBits(k) == 0 .. BitsInMap(Count, Cpu, k) - 1
None == -1

VARIABLES
  sub,      \* sub[k]: the allocated bits of pool->b_map[k]
  used,     \* pool->used
  bIdx,     \* pool->b_idx modulo b_cnt (only val % b_cnt is read)
  pc,       \* where each thread is
  idx,      \* _mempool_malloc's _idx
  tried,    \* _mempool_malloc's loop counter i
  tw,       \* mempool_alloc's wait tw
  cur,      \* the element a thread is returning from or freeing into
  held,     \* the elements each thread owns
  aborted,  \* mempool_free aborted on a failed bitmap_freebit
  spare     \* ghost: the elements free since the thread's mempool_alloc began

vars == << sub, used, bIdx, pc, idx, tried, tw, cur, held, aborted, spare >>

Init ==
  /\ sub = [k \in SubIds |-> {}] /\ used = 0 /\ bIdx = 0
  /\ pc = [t \in Threads |-> "idle"] /\ idx = [t \in Threads |-> 0]
  /\ tried = [t \in Threads |-> 0] /\ tw = [t \in Threads |-> 0]
  /\ cur = [t \in Threads |-> None] /\ held = [t \in Threads |-> {}]
  /\ aborted = FALSE
  /\ spare = [t \in Threads |-> {}]

\* mempool_alloc: the wait loop starts at MIN_WAIT.
AllocBegin(t) ==
  /\ pc[t] = "idle"
  /\ pc' = [pc EXCEPT ![t] = "malloc"] /\ tw' = [tw EXCEPT ![t] = MIN_WAIT]
  /\ UNCHANGED << sub, used, bIdx, idx, tried, cur, held, aborted >>

\* _mempool_malloc's entry: atomic_u64_inc(&b_idx) picks the first
\* sub-bitmap to try.
Malloc(t) ==
  /\ pc[t] = "malloc"
  /\ bIdx' = (bIdx + 1) % NB
  /\ idx' = [idx EXCEPT ![t] = (bIdx + 1) % NB]
  /\ tried' = [tried EXCEPT ![t] = 0]
  /\ pc' = [pc EXCEPT ![t] = "try"]
  /\ UNCHANGED << sub, used, tw, cur, held, aborted >>

\* Mutation: a pass gives up after b_cnt - 1 sub-bitmaps.
MallocTryShortPass(t) ==
  /\ pc[t] = "try"
  /\ LET k == idx[t]
         free == SubBits(k) \ sub[k]
     IN  IF free # {}
           THEN /\ sub' = [sub EXCEPT ![k] = @ \cup {Min(free)}]
                /\ cur' = [cur EXCEPT ![t] = MallocPos(Count, Cpu, k, Min(free))]
                /\ pc' = [pc EXCEPT ![t] = "inc"]
                /\ UNCHANGED << idx, tried >>
           ELSE /\ idx' = [idx EXCEPT ![t] = (k + 1) % NB]
                /\ tried' = [tried EXCEPT ![t] = @ + 1]
                /\ pc' = [pc EXCEPT ![t] = IF tried[t] + 2 >= NB THEN "sleep"
                                                                ELSE "try"]
                /\ UNCHANGED << sub, cur >>
  /\ UNCHANGED << used, bIdx, tw, held, aborted >>

\* Mutant: the sub-bitmap is taken to have one bit more than it has.
MallocTryOffByOne(t) ==
  /\ pc[t] = "try"
  /\ LET k == idx[t]
         free == (0 .. BitsInMap(Count, Cpu, k)) \ sub[k]
     IN  IF free # {}
           THEN /\ sub' = [sub EXCEPT ![k] = @ \cup {Min(free)}]
                /\ cur' = [cur EXCEPT ![t] = MallocPos(Count, Cpu, k, Min(free))]
                /\ pc' = [pc EXCEPT ![t] = "inc"]
                /\ UNCHANGED << idx, tried >>
           ELSE /\ idx' = [idx EXCEPT ![t] = (k + 1) % NB]
                /\ tried' = [tried EXCEPT ![t] = @ + 1]
                /\ pc' = [pc EXCEPT ![t] = IF tried[t] + 1 = NB THEN "sleep"
                                                               ELSE "try"]
                /\ UNCHANGED << sub, cur >>
  /\ UNCHANGED << used, bIdx, tw, held, aborted >>

\* One pass of _mempool_malloc's loop: bitmap_allocbit on sub-bitmap _idx
\* (the lowest free bit); success yields the element, failure moves to the
\* next sub-bitmap, and after b_cnt failures the pass returns NULL.
MallocTry(t) ==
  /\ pc[t] = "try"
  /\ LET k == idx[t]
         free == SubBits(k) \ sub[k]
     IN  IF free # {}
           THEN /\ sub' = [sub EXCEPT ![k] = @ \cup {Min(free)}]
                /\ cur' = [cur EXCEPT ![t] = MallocPos(Count, Cpu, k, Min(free))]
                /\ pc' = [pc EXCEPT ![t] = "inc"]
                /\ UNCHANGED << idx, tried >>
           ELSE /\ idx' = [idx EXCEPT ![t] = (k + 1) % NB]
                /\ tried' = [tried EXCEPT ![t] = @ + 1]
                /\ pc' = [pc EXCEPT ![t] = IF tried[t] + 1 = NB THEN "sleep"
                                                               ELSE "try"]
                /\ UNCHANGED << sub, cur >>
  /\ UNCHANGED << used, bIdx, tw, held, aborted >>

\* _mempool_malloc's success: atomic_u32_inc(&used), and the element is
\* returned to the caller of mempool_alloc.
MallocInc(t) ==
  /\ pc[t] = "inc"
  /\ used' = used + 1
  /\ held' = [held EXCEPT ![t] = @ \cup {cur[t]}]
  /\ cur' = [cur EXCEPT ![t] = None]
  /\ tried' = [tried EXCEPT ![t] = 0] /\ tw' = [tw EXCEPT ![t] = 0]
  /\ pc' = [pc EXCEPT ![t] = "idle"]
  /\ UNCHANGED << sub, bIdx, idx, aborted >>

\* sema_msleep(tw) after a NULL pass, then tw <<= 1: another pass while
\* tw < MAX_WAIT, else mempool_alloc returns NULL.
AllocSleep(t) ==
  /\ pc[t] = "sleep"
  /\ IF tw[t] * 2 < MAX_WAIT
       THEN /\ tw' = [tw EXCEPT ![t] = @ * 2]
            /\ pc' = [pc EXCEPT ![t] = "malloc"]
       ELSE /\ tw' = [tw EXCEPT ![t] = 0]
            /\ pc' = [pc EXCEPT ![t] = "idle"]
  /\ tried' = [tried EXCEPT ![t] = 0]
  /\ UNCHANGED << sub, used, bIdx, idx, cur, held, aborted >>

\* mempool_free of an element the thread owns: a pointer the arithmetic
\* puts out of the pool is logged and ignored; otherwise bitmap_freebit on
\* the (sub-bitmap, bit) it gives, whose failure (bit past the
\* sub-bitmap, or not allocated: a double free) aborts.
Free(t) ==
  /\ pc[t] = "idle"
  /\ \E e \in held[t] :
       LET tg == FreeTarget(Count, Cpu, e * FixSize)
       IN  /\ held' = [held EXCEPT ![t] = @ \ {e}]
           /\ CASE tg = NotInPool ->
                     UNCHANGED << sub, pc, aborted >>
                [] tg.bit \in sub[tg.idx] ->
                     /\ sub' = [sub EXCEPT ![tg.idx] = @ \ {tg.bit}]
                     /\ pc' = [pc EXCEPT ![t] = "dec"]
                     /\ UNCHANGED aborted
                [] OTHER ->
                     aborted' = TRUE /\ UNCHANGED << sub, pc >>
  /\ UNCHANGED << used, bIdx, idx, tried, tw, cur >>

\* Mutation: mempool_free returns without decrementing used.
FreeDecMissing(t) ==
  /\ pc[t] = "dec"
  /\ pc' = [pc EXCEPT ![t] = "idle"]
  /\ UNCHANGED << sub, used, bIdx, idx, tried, tw, cur, held, aborted >>

\* mempool_free's atomic_u32_dec(&used).
FreeDec(t) ==
  /\ pc[t] = "dec"
  /\ used' = used - 1
  /\ pc' = [pc EXCEPT ![t] = "idle"]
  /\ UNCHANGED << sub, bIdx, idx, tried, tw, cur, held, aborted >>

ThreadStep(t) ==
  \/ AllocBegin(t) \/ Malloc(t) \/ MallocTry(t) \/ MallocInc(t)
  \/ AllocSleep(t) \/ Free(t) \/ FreeDec(t)

\* The elements whose bit is set in their sub-bitmap.
Allocated == UNION {{MallocPos(Count, Cpu, k, b) : b \in sub[k]} : k \in SubIds}

\* The ghost spare: an allocation starts with the elements then free, and
\* every step keeps only those still free.
Spare(t) ==
  LET freeNow == (0 .. Count - 1) \ Allocated' IN
  spare' = [u \in Threads |-> IF u = t /\ pc[t] = "idle" /\ pc'[t] = "malloc"
                                THEN freeNow ELSE spare[u] \cap freeNow]

\* An abort ends the process (BlockExclusive is then violated: the
\* element has left held while its bit stays set).
Next == \E t \in Threads : ThreadStep(t) /\ Spare(t)

Spec == Init /\ [][Next]_vars

-----------------------------------------------------------------------------
TypeOK ==
  /\ spare \in [Threads -> SUBSET (0 .. Count - 1)]
  /\ sub \in [SubIds -> SUBSET Nat] /\ \A k \in SubIds : sub[k] \subseteq SubBits(k)
  /\ used \in Int /\ bIdx \in SubIds
  /\ pc \in [Threads -> {"idle", "malloc", "try", "inc", "sleep", "dec"}]
  /\ idx \in [Threads -> SubIds] /\ tried \in [Threads -> 0 .. NB]
  /\ tw \in [Threads -> 0 .. MAX_WAIT] /\ cur \in [Threads -> 0 .. Count - 1 \cup {None}]
  /\ held \in [Threads -> SUBSET (0 .. Count - 1)] /\ aborted \in BOOLEAN

\* The elements a thread owns or is being handed by _mempool_malloc.
Owned(t) == held[t] \cup (IF pc[t] = "inc" THEN {cur[t]} ELSE {})

(* Spec section 4.5: however the threads' allocations and frees          *)
(* interleave, every element whose bit is set is owned by exactly one     *)
(* thread and every owned element's bit is set: no element is handed out  *)
(* twice, and a free releases the element it was given.                   *)
BlockExclusive ==
  /\ Allocated = UNION {Owned(t) : t \in Threads}
  /\ \A t, u \in Threads : t # u => Owned(t) \cap Owned(u) = {}

(* pool->used, which mempool_getinfo reports as the elements in use, is  *)
(* exact up to the updates still in flight: the set bits, less the        *)
(* allocations whose used++ has not happened yet, plus the frees whose    *)
(* used-- has not (_mempool_malloc increments after bitmap_allocbit and   *)
(* mempool_free decrements after bitmap_freebit, outside the bitmap's     *)
(* lock).  So used is never negative, and it exceeds the pool's count by  *)
(* at most the number of frees in flight.                                 *)
UsedAccounting ==
  used = Cardinality(Allocated) - Cardinality({t \in Threads : pc[t] = "inc"})
                                + Cardinality({t \in Threads : pc[t] = "dec"})
(* Spec section 7: mempool_alloc returns NULL only on exhaustion.  Each  *)
(* pass of _mempool_malloc starts at the round-robin sub-bitmap and tries *)
(* every one of the b_cnt once, while other threads allocate and free     *)
(* between its probes; so an allocation that returns NULL after its last *)
(* back-off never leaves behind an element that was free during its      *)
(* whole call.                                                             *)
NullOnlyOnExhaustion ==
  [][\A t \in Threads : pc[t] = "sleep" /\ pc'[t] = "idle" => spare[t] = {}]_vars
====
