------------------------------- MODULE Bitmap -------------------------------
(***************************************************************************)
(* The hierarchical bitmap of src/src/bitmap.c.  Layer level-1 holds one  *)
(* bit per allocatable unit; a bit of layer i < level-1 stands for one    *)
(* slice of RECOMMEND_BITS bits of layer i+1 and is set when that slice   *)
(* is full.  A layer is the set of its set bit positions; the scans over  *)
(* its 64-bit words are kept as the code does them (word by word, lowest  *)
(* zero of the first word that has one), with the word and slice sizes as *)
(* constants: the code uses them only through /, % and masks of powers of *)
(* two, so a small slice and word keep every branch of the arithmetic.    *)
(* Each of bitmap_allocbit and bitmap_freebit runs under the bitmap's     *)
(* spinlock and is one step.                                              *)
(***************************************************************************)
EXTENDS Integers, FiniteSetsExt

CONSTANTS
  RECOMMEND_BITS,   \* bits of a slice (BMAP_SLICE_BITS), 256 in the code
  BMAP_U64_BITS,    \* bits of a word, 64 in the code
  BMAP_MAX_LEVEL,   \* 6 in the code
  BitCount          \* the bit_count of bitmap_create

BIT_OK == 0
BIT_FAIL == -1

\* _div_upward_round
DivUp(num, base) == (num + base - 1) \div base

\* bitmap_create's level loop: for (i = bit_count; i != 0; level++, i /= 256)
RECURSIVE LevelsOf(_)
LevelsOf(i) == IF i = 0 THEN 0 ELSE 1 + LevelsOf(i \div RECOMMEND_BITS)

Level == LevelsOf(BitCount)

\* bitmap_create's layer counts: the bottom layer has bit_count bits, each
\* layer above one bit per (possibly partial) slice of the layer below.
RECURSIVE LayerCount(_)
LayerCount(i) ==
  IF i = Level - 1 THEN BitCount
  ELSE DivUp(LayerCount(i + 1), RECOMMEND_BITS)

Layers == 0 .. Level - 1

\* bitmap_create fails on bit_count <= 0 or more than BMAP_MAX_LEVEL levels.
ASSUME BitCount > 0 /\ Level <= BMAP_MAX_LEVEL
ASSUME RECOMMEND_BITS % BMAP_U64_BITS = 0

\* _get_slice_bit_count: the bits of layer i in the slice holding pos.
SliceBitCount(i, pos) ==
  LET cnt == LayerCount(i) - (pos - (pos % RECOMMEND_BITS))
  IN  IF cnt > RECOMMEND_BITS THEN RECOMMEND_BITS ELSE cnt

\* Mutant: the range test lets the first bit past count through.
FindFirstZeroPastCount(bits, base, count) ==
  LET scanned == 0 .. DivUp(count, BMAP_U64_BITS) * BMAP_U64_BITS - 1
      zeros   == {r \in scanned : base + r \notin bits}
  IN  IF zeros = {} \/ Min(zeros) > count THEN BIT_FAIL ELSE Min(zeros)

\* _find_first_zero_bit over count bits of a layer whose set bits are
\* bits, starting at the word-aligned position base: bmap_bsf(~word) over
\* the ceil(count/64) words in order gives the lowest zero among them;
\* a result at or past count (the unused tail of the last word) fails.
FindFirstZero(bits, base, count) ==
  LET scanned == 0 .. DivUp(count, BMAP_U64_BITS) * BMAP_U64_BITS - 1
      zeros   == {r \in scanned : base + r \notin bits}
  IN  IF zeros = {} \/ Min(zeros) >= count THEN BIT_FAIL ELSE Min(zeros)

\* _bitmap_set_bit from layer i upwards: set the bit (a set bit fails),
\* stop at layer 0 or when its slice still has a zero, else go on with the
\* slice's bit in the layer above.
RECURSIVE SetBitFrom(_, _, _)
SetBitFrom(L, i, bit) ==
  IF bit \in L[i] THEN [layer |-> L, ret |-> BIT_FAIL]
  ELSE LET L1    == [L EXCEPT ![i] = @ \cup {bit}]
           slice == bit \div RECOMMEND_BITS
       IN  IF \/ i = 0
                 \/ FindFirstZero(L1[i], slice * RECOMMEND_BITS,
                                  SliceBitCount(i, bit)) # BIT_FAIL
             THEN [layer |-> L1, ret |-> BIT_OK]
             ELSE SetBitFrom(L1, i - 1, slice)

\* Mutant: the upward loop does not divide bit by the slice size.
RECURSIVE ClearUpNoDiv(_, _, _)
ClearUpNoDiv(L, i, bit) ==
  IF i < 0 \/ bit \notin L[i] THEN L
  ELSE ClearUpNoDiv([L EXCEPT ![i] = @ \ {bit}], i - 1, bit)

\* _bitmap_clear_bit above the bottom layer: clear the slice's bit in each
\* layer upwards, stopping at the first that was not set.
RECURSIVE ClearUp(_, _, _)
ClearUp(L, i, bit) ==
  IF i < 0 \/ bit \notin L[i] THEN L
  ELSE ClearUp([L EXCEPT ![i] = @ \ {bit}], i - 1, bit \div RECOMMEND_BITS)

\* bitmap_allocbit's descent: from the zero pos found in layer i-1, the
\* slice it stands for starts at start = (start + pos) * 256 in layer i;
\* the zero found there (assert(ret == BIT_OK)) leads on.
RECURSIVE Descend(_, _, _, _)
Descend(L, i, start, pos) ==
  IF i = Level THEN start + pos
  ELSE LET s == (start + pos) * RECOMMEND_BITS
       IN  Descend(L, i + 1, s, FindFirstZero(L[i], s, SliceBitCount(i, s)))

VARIABLES
  layer,  \* layer[i]: the set bits of bmap->layer[i]
  ret     \* the return code of the last operation; the bit an allocation
          \*   returns is the one it adds to the bottom layer

vars == << layer, ret >>

\* bitmap_create: calloc'ed layers.
Init == layer = [i \in Layers |-> {}] /\ ret = BIT_OK

\* bitmap_allocbit: a full top layer fails; otherwise descend to the first
\* zero bit and set it with _bitmap_set_bit (assert(ret == BIT_OK)).
AllocBit ==
  LET top == FindFirstZero(layer[0], 0, LayerCount(0))
  IN  IF top = BIT_FAIL
        THEN ret' = BIT_FAIL /\ UNCHANGED layer
        ELSE LET r == SetBitFrom(layer, Level - 1, Descend(layer, 1, 0, top))
             IN  layer' = r.layer /\ ret' = r.ret

\* Mutant: _bitmap_clear_bit ignores the result of the bottom clear.
FreeBitNoDoubleFreeCheck(b) ==
  IF b >= BitCount
    THEN ret' = BIT_FAIL /\ UNCHANGED layer
    ELSE /\ layer' = ClearUp([layer EXCEPT ![Level - 1] = @ \ {b}],
                            Level - 2, b \div RECOMMEND_BITS)
         /\ ret' = BIT_OK

\* bitmap_freebit(b): out of range fails; otherwise _bitmap_clear_bit
\* clears the bottom bit (a clear bit fails: a double free) and the bits
\* above it.
FreeBit(b) ==
  IF b >= BitCount \/ b \notin layer[Level - 1]
    THEN ret' = BIT_FAIL /\ UNCHANGED layer
    ELSE /\ layer' = ClearUp([layer EXCEPT ![Level - 1] = @ \ {b}],
                            Level - 2, b \div RECOMMEND_BITS)
         /\ ret' = BIT_OK

\* Frees are asked of every bit in range and of bit_count itself.
Next == AllocBit \/ \E b \in 0 .. BitCount : FreeBit(b)

Spec == Init /\ [][Next]_vars

-----------------------------------------------------------------------------
TypeOK ==
  /\ layer \in [Layers -> SUBSET Nat]
  /\ \A i \in Layers : layer[i] \subseteq 0 .. LayerCount(i) - 1
  /\ ret \in {BIT_OK, BIT_FAIL}

\* Whether slice s of layer i (i > 0) has all its bits set.
SliceFull(i, s) ==
  LET base == s * RECOMMEND_BITS
  IN  \A p \in base .. base + SliceBitCount(i, base) - 1 : p \in layer[i]

(* Spec invariant 2: a bit of layer i is set exactly when the slice of    *)
(* layer i+1 it stands for is full, after any sequence of allocbit and    *)
(* freebit calls; _bitmap_set_bit and _bitmap_clear_bit maintain it.      *)
LayerSummary ==
  \A i \in 0 .. Level - 2 :
    \A s \in 0 .. LayerCount(i) - 1 : s \in layer[i] <=> SliceFull(i + 1, s)

(* Spec invariant 1 and scenario S5: the layered bitmap implements the    *)
(* flat one, the bottom layer being the allocated set: allocbit returns   *)
(* the lowest free bit and fails only when all are allocated, freebit     *)
(* fails exactly on a double free or a bit out of range.                  *)
Flat == INSTANCE FlatBitmap WITH
          N <- BitCount, OK <- BIT_OK, FAIL <- BIT_FAIL,
          used <- layer[Level - 1]
FlatSpec == Flat!FSpec
====
