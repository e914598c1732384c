------------------------------ MODULE MCSemSet ------------------------------
(* The programs for which semaphores and semaphore sets are checked. *)
EXTENDS SemSet

Pair == {{1, 2}}
Counting == [set |-> FALSE, units |-> {0, 2}, wants |-> {}, calls |-> {"sem_p", "sem_free"},
             handoff |-> TRUE, kills |-> FALSE]
Binary == [Counting EXCEPT !.units = {1}, !.handoff = FALSE]
Mixed == [Counting EXCEPT !.units = {2}, !.wants = Pair, !.calls = {"sem_p", "sem_p_multi"}]
And == [Counting EXCEPT !.units = {1}, !.wants = Pair, !.calls = {"sem_p_multi", "sem_free"}]
Killed == [And EXCEPT !.calls = {"sem_p", "sem_p_multi", "sem_free"}, !.kills = TRUE]
Members == [And EXCEPT !.set = TRUE, !.calls = {"sem_p", "sem_p_multi"}]
Freed == [Members EXCEPT !.handoff = FALSE, !.calls = {"sem_p", "sem_p_multi", "sem_free"}]

All == {Counting, Binary, Mixed, And, Killed, Members, Freed}
=============================================================================
