----------------------------- MODULE MCMCache -----------------------------
(* Model-checking instance of MCache: two callers and the sweeper, a     *)
(* handful of item blocks, keys colliding in one bucket.                  *)
EXTENDS MCache, TLC
CONSTANTS i1, i2, i3, k1, k2, c1, c2
MCItems3 == {i1, i2, i3}
MCItems2 == {i1, i2}
MCKeys   == {k1, k2}
MCKeys1  == {k1}
MCCallers == {c1, c2}
\* hashmap_create(scale 2): b_count = _adjust_size(2 / AVG_DEPTH) =
\* _adjust_size(0): log(0) is -inf, whose conversion to uint32_t gives 0
\* on x86-64 and on AArch64, so shift 0 is bumped to 1 and b_count is 2.
MCNB == 2
ASSUME MCNB \in HmCreateBuckets(Scale)
\* Both keys hash to bucket 0, so a bucket is deeper than the average.
MCHashOf == [k \in MCKeys |-> 0]
MCHashOf1 == [k \in MCKeys1 |-> 0]
\* Items, keys (all in one bucket) and callers are interchangeable.
Symmetry3 == Permutations(MCItems3) \cup Permutations(MCKeys)
             \cup Permutations(MCCallers)
=============================================================================
