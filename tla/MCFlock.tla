------------------------------- MODULE MCFlock -------------------------------
(* The programs for which Flock is checked. *)
EXTENDS Flock

CONSTANTS p1, p2, p3, p4, f1, f2, f3

Procs == {p1, p2, p3, p4}
Files == {f1, f2, f3}

Own == [uses |-> {<<p1, f1>>, <<p2, f2>>, <<p3, f3>>}, relock |-> FALSE, kills |-> TRUE]
\* p1 and p2 are parent and child with a common open file.
Shared == [uses |-> {<<p1, f1>>, <<p2, f1>>, <<p3, f2>>, <<p4, f3>>}, relock |-> FALSE, kills |-> TRUE]

All == {Own, Shared}
=============================================================================
