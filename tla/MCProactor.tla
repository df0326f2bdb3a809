---------------------------- MODULE MCProactor ----------------------------
(***************************************************************************)
(* Small instances of the event loop for TLC: the three runs of Proactor   *)
(* share them and differ in the poller, the sockets and the application.   *)
(***************************************************************************)
EXTENDS Proactor, TLC

Symmetric == Permutations(Files) \union Permutations(Fds)
=============================================================================
