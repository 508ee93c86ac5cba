------------------------------ MODULE MCBitmap ------------------------------
(* Bitmap instantiated for TLC with a slice of 4 bits and words of 2, so  *)
(* that a few dozen bits already make three layers with partial slices    *)
(* and partial words.                                                     *)
EXTENDS Bitmap, TLC
=============================================================================
