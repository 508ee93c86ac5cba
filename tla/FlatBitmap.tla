----------------------------- MODULE FlatBitmap -----------------------------
(***************************************************************************)
(* What the bitmap allocator promises (spec section 4.4 and scenario S5), *)
(* without its layers: a set of allocated bits among N.  An allocation    *)
(* takes the lowest free bit (the first-zero rule) and fails only when    *)
(* every bit is allocated; a free of an allocated bit releases it, and a  *)
(* free of any other bit (a double free, or out of range) fails.          *)
(***************************************************************************)
EXTENDS Integers, FiniteSetsExt

CONSTANTS N, OK, FAIL

VARIABLES
  used,   \* the allocated bits
  ret     \* the result of the last operation

Bits == 0 .. N - 1

FInit == used = {} /\ ret = OK

FAlloc ==
  IF used = Bits
    THEN ret' = FAIL /\ UNCHANGED used
    ELSE used' = used \cup {Min(Bits \ used)} /\ ret' = OK

FFree(b) ==
  IF b \in used
    THEN used' = used \ {b} /\ ret' = OK
    ELSE ret' = FAIL /\ UNCHANGED used

\* Frees are asked of every bit in range and of N itself.
FNext == FAlloc \/ \E b \in 0 .. N : FFree(b)

FSpec == FInit /\ [][FNext]_<< used, ret >>
=============================================================================
