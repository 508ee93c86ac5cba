------------------------------ MODULE HashMap ------------------------------
(***************************************************************************)
(* The sharded hash map of src/src/hashmap.c, as operators on its bucket  *)
(* lists.  A bucket is the sequence of the items linked on it, head       *)
(* first; every operation below runs under that bucket's spinlock, and    *)
(* total_keys, which insert and delete update after the unlock, is kept   *)
(* by the module that composes the map (MCache).                          *)
(***************************************************************************)
EXTENDS Integers, Sequences, SequencesExt

CONSTANTS
  NB,       \* map->b_count
  HashOf    \* map->hash(key) & (b_count - 1), as a function of the key

BucketIds == 0 .. NB - 1

\* The bucket a key hashes to.
BucketOf(k) == HashOf[k]

\* hashmap_create divides the scale by AVG_DEPTH and rounds the quotient
\* up to a power of two with _adjust_size.
AVG_DEPTH == 4

\* _adjust_size tests exp - shift > DOUBLE_ZERO (1e-8) on exp = log2(size).
\* For an integer size that is size - 2^shift > 2^shift * 1e-8 * ln 2, that
\* is size - 2^shift > 2^shift \div DZ_INV, DZ_INV = 1 / (1e-8 * ln 2)
\* rounded down; for shift <= 29 the quotient is never a whole number, so
\* the integer test is exact (the double's own rounding, about 1e-15, is
\* far from the 1e-8 it is compared with).
DZ_INV == 144269504

RECURSIVE Log2Floor(_)
Log2Floor(n) == IF n < 2 THEN 0 ELSE 1 + Log2Floor(n \div 2)

\* (uint32_t)exp.  For size 0, log(0) is -inf and the conversion is
\* undefined: it yields 0 where the conversion goes through 64 bits or
\* saturates (x86-64, AArch64) and 0x80000000 through a 32-bit cvttsd2si;
\* NEG_INF_SHIFT stands for 0x80000000, which like 32 is nonzero and a
\* multiple of the 32 that x86's shl masks its count with.
NEG_INF_SHIFT == 32
TruncShifts(size) == IF size = 0 THEN {0, NEG_INF_SHIFT} ELSE {Log2Floor(size)}

FracAbove(size, shift) == size > 0 /\ size - 2^shift > 2^shift \div DZ_INV

\* _adjust_size: the bucket counts the build can return for a size,
\* 1U << shift, shift incremented when exp has a fraction above
\* DOUBLE_ZERO or is 0 (the shift count taken mod 32 as x86's shl does).
AdjustSizes(size) ==
  { 2^((IF FracAbove(size, t) \/ t = 0 THEN t + 1 ELSE t) % 32) :
      t \in TruncShifts(size) }

\* hashmap_create: scale 0 is refused (EINVAL); otherwise b_count is
\* _adjust_size(scale / AVG_DEPTH) and every bucket starts empty.
HmCreateBuckets(scale) ==
  IF scale = 0 THEN {} ELSE AdjustSizes(scale \div AVG_DEPTH)

\* The list_foreach of insert/search/delete: the items of bucket list bl
\* whose key (keyOf) compares equal to k.
Matches(bl, keyOf, k) == SelectSeq(bl, LAMBDA i : keyOf[i] = k)
KeyIn(bl, keyOf, k) == Matches(bl, keyOf, k) # << >>

\* hashmap_search / hashmap_protect: the entry the found (work) callback
\* is called on, the first in the bucket whose key compares equal to k.
HmSearch(bl, keyOf, k) == Head(Matches(bl, keyOf, k))

\* Mutation: the new entry is linked at the tail (list_add_tail).
HmInsertTail(bl, i) == bl \o << i >>

\* hashmap_insert when the key is absent: list_add at the head.
HmInsert(bl, i) == << i >> \o bl

\* hashmap_delete: list_del of the (first) matching entry.
HmDelete(bl, keyOf, k) == Remove(bl, Head(Matches(bl, keyOf, k)))

\* hashmap_get_info's avg_depth = total_keys / b_count.  total_keys is a
\* uint64_t: a transiently negative count wraps to a value above any
\* depth, written here as the cap it is compared against.
AvgDepth(total, cap) == IF total < 0 THEN cap ELSE total \div NB

\* hashmap_eviction's keep count: avg = min(total_keys / b_count, depth).
EvictKeep(total, depth) ==
  IF AvgDepth(total, depth) > depth THEN depth ELSE AvgDepth(total, depth)

\* Mutation: an entry func refuses is not linked back after its list_del.
KeptNoRelink(bl, keep, fr) == IF Len(bl) <= keep THEN bl ELSE SubSeq(bl, 1, keep)

\* hashmap_eviction on one bucket: a bucket no deeper than keep is left;
\* otherwise the first keep entries are skipped and every later entry is
\* offered to func; an entry func frees (one of the set fr) is unlinked,
\* one it refuses is linked back where it was (list_add_tail before next).
Kept(bl, keep, fr) ==
  IF Len(bl) <= keep THEN bl
  ELSE SubSeq(bl, 1, keep)
       \o SelectSeq(SubSeq(bl, keep + 1, Len(bl)), LAMBDA i : i \notin fr)
Evicted(bl, keep, fr) ==
  IF Len(bl) <= keep THEN << >>
  ELSE SelectSeq(SubSeq(bl, keep + 1, Len(bl)), LAMBDA i : i \in fr)

=============================================================================
