----------------------------- MODULE MCRWLock2 ------------------------------
(* TLC instance of RWLock2: two readers, two writers, two rounds each.     *)
EXTENDS RWLock2
CONSTANTS r1, r2, w1, w2
=============================================================================
