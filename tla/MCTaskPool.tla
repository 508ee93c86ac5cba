----------------------------- MODULE MCTaskPool -----------------------------
(* TaskPool instantiated for TLC: a depth of 4 (the clamp's minimum), four *)
(* tjob slots, a pool of two threads.                                     *)
EXTENDS TaskPool, TLC

CONSTANTS s1, s2, s3, s4

MCSlots == {s1, s2, s3, s4}
MCWorkers == 0 .. NT - 1
=============================================================================
