--------------------------- MODULE MCFileTransfer ---------------------------
(* TLC instances of FileTransfer.                                          *)
EXTENDS FileTransfer

(* Two files, of which the one sent first is empty and the other has a     *)
(* block, or one file.                                                     *)
Lists == {<<1, 0>>, <<1>>}

Weather == BOOLEAN

(* The histories are those of two transfers: of two files in calm weather, *)
(* of one in storms; and in calm weather three of one file, of which the   *)
(* first may be cancelled and the third begins when the listener has gone  *)
(* astray.  The steps that this cuts off are those of users, on whom       *)
(* EverythingSettles does not rely.                                        *)
Histories == \/ n <= 2 /\ (calm <=> Len(files) = 2)
             \/ /\ calm /\ Len(files) = 1
                /\ n = 3 => astray
                /\ \A x \in Peers, k \in Transfers \ {1} : w[x][k].state = "Continue"
=============================================================================
