----------------------------- MODULE MCMidsched -----------------------------
(* What is checked of Midsched: process 1 stands for init. *)
EXTENDS Midsched

OnAndOff == [swapfails |-> FALSE, kills |-> FALSE, switch |-> BOOLEAN]
Failing == [swapfails |-> TRUE, kills |-> FALSE, switch |-> {TRUE}]
Killed == [swapfails |-> FALSE, kills |-> TRUE, switch |-> {TRUE}]

All == {OnAndOff, Failing, Killed}
Init1 == {1}
=============================================================================
