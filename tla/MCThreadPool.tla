---------------------------- MODULE MCThreadPool ----------------------------
(* TLC instance of ThreadPool: two workers; the bounds are in the cfgs.    *)
EXTENDS ThreadPool
CONSTANTS t1, t2
=============================================================================
