----------------------------- MODULE MCPipeline -----------------------------
(* TLC instance of Pipeline.                                               *)
EXTENDS Pipeline

(* Maxima up to 12: one to six filters, with and without a prime that is   *)
(* equal to max.                                                           *)
SomeMaxes == 2 .. 12
=============================================================================
