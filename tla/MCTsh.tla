------------------------------- MODULE MCTsh --------------------------------
(* TLC instance of Tsh: the quiet world, where only ctrl-z is typed, and   *)
(* only while a job is in the foreground; and a rough one.                 *)
EXTENDS Tsh

QuietWorlds == {[keys |-> {"TSTP"}, anyTime |-> FALSE, outside |-> FALSE]}
AllWorlds == QuietWorlds
  \union {[keys |-> {"INT"}, anyTime |-> TRUE, outside |-> TRUE]}
=============================================================================
