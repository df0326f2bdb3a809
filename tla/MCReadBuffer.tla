---------------------------- MODULE MCReadBuffer ----------------------------
(* Every stream of at most three bytes, each a letter or the delimiter.    *)
EXTENDS ReadBuffer

CONSTANTS a, b, nl, MaxLen

AllInputs == UNION {[1..k -> {a, b, nl}] : k \in 0..MaxLen}
=============================================================================
