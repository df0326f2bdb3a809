------------------------------ MODULE MCRWLock ------------------------------
(* TLC instance of RWLock: two readers, two writers, two rounds each.      *)
EXTENDS RWLock
CONSTANTS r1, r2, w1, w2
=============================================================================
