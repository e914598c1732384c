------------------------------- MODULE MCPipe -------------------------------
(* The programs for which Pipe is checked. *)
EXTENDS Pipe

CONSTANTS p1, p2, p3, a, b

Procs == {p1, p2, p3}
Bytes == {a, b}
Killed == [procs |-> {p1, p2}, bytes |-> {a, b}, badaddr |-> TRUE, kills |-> TRUE]
Three == [procs |-> Procs, bytes |-> {a}, badaddr |-> FALSE, kills |-> FALSE]

All == {Killed, Three}
=============================================================================
