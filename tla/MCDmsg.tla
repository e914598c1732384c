------------------------------- MODULE MCDmsg -------------------------------
(* What is checked of Dmsg. *)
EXTENDS Dmsg

Pair == [slots |-> {1, 2}, reuse |-> TRUE, kills |-> TRUE, nomem |-> TRUE]
Three == [slots |-> {1, 2, 3}, reuse |-> FALSE, kills |-> FALSE, nomem |-> FALSE]

All == {Pair, Three}
=============================================================================
