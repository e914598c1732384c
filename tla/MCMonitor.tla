----------------------------- MODULE MCMonitor -----------------------------
(* Instances of Monitor: what the programs do. *)
EXTENDS Monitor

OnePriority == [p \in Proc |-> 10]

Conditions == [mons |-> 1, cpus |-> 3, conds |-> TRUE, kills |-> FALSE]
Killed == [mons |-> 1, cpus |-> 3, conds |-> TRUE, kills |-> TRUE]
Nested == [mons |-> 3, cpus |-> 1, conds |-> FALSE, kills |-> FALSE]
Parallel == [mons |-> 2, cpus |-> 3, conds |-> FALSE, kills |-> TRUE]

All == {Conditions, Killed, Nested, Parallel}
=============================================================================
