------------------------------ MODULE MCCoMgr ------------------------------
(* Model-checking instance of CoMgr: two workers, two or three LWT slots. *)
EXTENDS CoMgr, TLC
CONSTANTS l1, l2, l3
MCLwts  == {l1, l2, l3}
MCLwts2 == {l1, l2}
\* The LWT slots are interchangeable: nothing depends on a slot's identity.
Symmetry  == Permutations(MCLwts)
Symmetry2 == Permutations(MCLwts2)
=============================================================================
