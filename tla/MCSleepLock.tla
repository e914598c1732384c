----------------------------- MODULE MCSleepLock -----------------------------
(* Instances of SleepLock: processes of different priority, two locks. *)
EXTENDS SleepLock

TwoPriorities == [p \in Proc |-> IF p = 1 THEN 20 ELSE 10]
=============================================================================
