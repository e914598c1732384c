-------------------------------- MODULE MCProc ------------------------------
(* Instances of Proc: what the programs do. *)
EXTENDS Proc

Families == [calls |-> {"fork", "wait"}, n |-> 4]
Leaders == [calls |-> {"fork", "clone"}, n |-> 4]
Joins == [calls |-> {"clone", "clone_in_thread", "join"}, n |-> 4]
Failures == [calls |-> {"fork", "clone", "join", "nomem"}, n |-> 3]
Signals == [calls |-> {"fork", "wait", "waitpid", "badaddr", "kill", "nomem"}, n |-> 3]
Terminal == [calls |-> {"fork", "wait", "killtree"}, n |-> 3]
Sleepers == [calls |-> {"fork", "clone", "sleep"}, n |-> 3]

All == {Families, Leaders, Joins, Failures, Signals, Terminal, Sleepers}
Groups == {Failures, Sleepers}
=============================================================================
