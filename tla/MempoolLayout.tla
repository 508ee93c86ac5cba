--------------------------- MODULE MempoolLayout ---------------------------
(***************************************************************************)
(* The index arithmetic of src/src/mempool.c as operators of the pool's   *)
(* element count and the CPU count: mempool_create's split of the         *)
(* elements over sub-bitmaps, _mempool_malloc's element of a (sub-bitmap, *)
(* bit), and mempool_free's way back from a pointer.  Pointers are byte   *)
(* offsets from pool->mem.                                                *)
(***************************************************************************)
EXTENDS Integers

CONSTANTS
  RECOMMEND_BITS,  \* 256 in bitmap.h
  MAX_CPUS,        \* 64
  FixSize          \* the element size

\* cpu * 5 / 4 sub-bitmaps, at most MAX_CPUS; a failed sysconf counts as
\* MAX_CPUS.
CpuBitmaps(cpu) ==
  LET c == IF cpu < 0 THEN MAX_CPUS ELSE cpu
  IN  IF (c * 5) \div 4 > MAX_CPUS THEN MAX_CPUS ELSE (c * 5) \div 4

\* Fewer sub-bitmaps when they would hold under RECOMMEND_BITS bits each.
BCnt(count, cpu) ==
  LET b == CpuBitmaps(cpu)
  IN  IF count \div b < RECOMMEND_BITS
        THEN IF count % RECOMMEND_BITS # 0 \/ count \div RECOMMEND_BITS = 0
               THEN count \div RECOMMEND_BITS + 1
               ELSE count \div RECOMMEND_BITS
        ELSE b

\* pool->b_avg
Average(count, cpu) == count \div BCnt(count, cpu)

\* bits_in_map[i]: the last sub-bitmap absorbs the remainder.
BitsInMap(count, cpu, i) ==
  LET n == BCnt(count, cpu)
      a == Average(count, cpu)
  IN  IF i = n - 1 /\ n * a < count THEN a + (count - n * a) ELSE a

\* Mutant: the element offset uses the sub-bitmap's own size, not b_avg.
MallocPosBitsInMap(count, cpu, idx, b) == idx * BitsInMap(count, cpu, idx) + b

\* _mempool_malloc: the element of bit b of sub-bitmap idx.
MallocPos(count, cpu, idx, b) == idx * Average(count, cpu) + b

\* C division of a signed offset by a positive size truncates toward 0.
CDiv(a, b) == IF a >= 0 THEN a \div b ELSE -((-a) \div b)

NotInPool == [idx |-> -1, bit |-> -1]

\* Mutant: the overflow folded into the last sub-bitmap loses its b_avg.
FreeTargetNoFoldOffset(count, cpu, off) ==
  LET e == CDiv(off, FixSize)
      a == Average(count, cpu)
      n == BCnt(count, cpu)
  IN  IF e < 0 \/ e >= count THEN NotInPool
      ELSE IF e \div a > n - 1 THEN [idx |-> n - 1, bit |-> e % a]
      ELSE [idx |-> e \div a, bit |-> e % a]

\* Mutant: no clamp of the sub-bitmap index to the last one.
FreeTargetNoClamp(count, cpu, off) ==
  LET e == CDiv(off, FixSize)
      a == Average(count, cpu)
  IN  IF e < 0 \/ e >= count THEN NotInPool
      ELSE [idx |-> e \div a, bit |-> e % a]

\* mempool_free's arithmetic on a pointer at byte offset off: the element
\* index, its range check ("not in mempool": logged, nothing freed), then
\* bit / b_avg and bit % b_avg with the overflow folded into the last
\* sub-bitmap.
FreeTarget(count, cpu, off) ==
  LET e == CDiv(off, FixSize)
      a == Average(count, cpu)
      n == BCnt(count, cpu)
  IN  IF e < 0 \/ e >= count THEN NotInPool
      ELSE IF e \div a > n - 1 THEN [idx |-> n - 1, bit |-> (e % a) + a]
      ELSE [idx |-> e \div a, bit |-> e % a]

-----------------------------------------------------------------------------
\* The bits of sub-bitmap k where the arithmetic can change behaviour: its
\* first and last bit, and b_avg - 1 and b_avg, where the last sub-bitmap's
\* folded overflow starts.  Both mappings are affine between them.
EdgeBits(count, cpu, k) ==
  {b \in {0, Average(count, cpu) - 1, Average(count, cpu),
          BitsInMap(count, cpu, k) - 1} : 0 <= b /\ b < BitsInMap(count, cpu, k)}

(* Spec section 4.5 and its open question on mempool_free: for every pool *)
(* size and CPU count, the sub-bitmaps' bit ranges cover the count        *)
(* elements, and the pointer _mempool_malloc returns for bit b of         *)
(* sub-bitmap k is freed by mempool_free into that same bit, the last     *)
(* sub-bitmap's folded overflow included.                                 *)
FreeInvertsMalloc(count, cpu) ==
  LET n == BCnt(count, cpu)
  IN  /\ 1 <= n /\ n <= MAX_CPUS
      /\ MallocPos(count, cpu, n - 1, BitsInMap(count, cpu, n - 1) - 1) = count - 1
      /\ \A k \in 0 .. n - 1 :
           /\ BitsInMap(count, cpu, k) >= 1
           /\ \A b \in EdgeBits(count, cpu, k) :
                FreeTarget(count, cpu, MallocPos(count, cpu, k, b) * FixSize)
                  = [idx |-> k, bit |-> b]
====
