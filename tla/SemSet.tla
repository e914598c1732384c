------------------------------- MODULE SemSet -------------------------------
(***************************************************************************)
(* Semaphore sets (kernel/sysproc.c): the operations of module Semaphore   *)
(* on the members of one set, which is created and freed as a whole.       *)
(* semset_p, semset_v and semset_p_multi look at the set under its lock,   *)
(* let it go, and then do what sem_p, sem_v and sem_p_multi do; a member   *)
(* that is gone by then makes them fail, so the two steps are one here.    *)
(* semset_free checks the members one by one and then clears them one by   *)
(* one, and others run in between.                                         *)
(***************************************************************************)
EXTENDS Semaphore

VARIABLES set_allocated,   \* semsets[id].allocated
          free_i           \* free_i[p]: the member p's semset_free is at, 0 if none

setvars == <<vars, set_allocated, free_i>>

SetInit == Init /\ set_allocated = FALSE /\ free_i = [p \in Proc |-> 0]

\* The set as a whole, its members with any initial values.
semset_create(p, v) ==
  /\ program.set /\ InUser(p) /\ ~set_allocated
  /\ set_allocated' = TRUE
  /\ allocated' = [s \in Sem |-> TRUE] /\ resource_count' = v
  /\ waiters' = [s \in Sem |-> 0] /\ owner' = [s \in Sem |-> NoProc]
  /\ units' = v /\ held' = [q \in Proc |-> [s \in Sem |-> 0]]
  /\ UNCHANGED <<procs, program, free_i>>

semset_p(p, s) == set_allocated /\ sem_p(p, s) /\ UNCHANGED <<set_allocated, free_i>>
semset_v(p, s) == set_allocated /\ sem_v(p, s) /\ UNCHANGED <<set_allocated, free_i>>
semset_p_multi(p, W) ==
  set_allocated /\ sem_p_multi(p, W) /\ UNCHANGED <<set_allocated, free_i>>

\* The first look at the set.
semset_free(p) ==
  /\ "sem_free" \in program.calls /\ InUser(p) /\ set_allocated
  /\ pc' = [pc EXCEPT ![p] = "free_check"] /\ free_i' = [free_i EXCEPT ![p] = 1]
  /\ UNCHANGED <<sems, state, chan, killed, want, units, held, program, set_allocated>>

\* One member is checked; a single one that is in use ends the call.
semset_free_check(p) ==
  LET s == free_i[p]
      busy == ~allocated[s] \/ resource_count[s] < 0 \/ waiters[s] > 0
  IN
  /\ pc[p] = "free_check"
  /\ pc' = [pc EXCEPT ![p] = IF busy THEN "user" ELSE IF s = NSEM THEN "free_clear" ELSE @]
  /\ free_i' = [free_i EXCEPT ![p] = IF busy THEN 0 ELSE IF s = NSEM THEN 1 ELSE s + 1]
  /\ UNCHANGED <<sems, state, chan, killed, want, units, held, program, set_allocated>>

\* Mutant: a member that somebody waits for by now ends the call half way.
ClearRechecks(p) ==
  LET s == free_i[p] IN
  /\ pc[p] = "free_clear"
  /\ IF s <= NSEM /\ waiters[s] = 0
     THEN /\ allocated' = [allocated EXCEPT ![s] = FALSE]
          /\ resource_count' = [resource_count EXCEPT ![s] = 0]
          /\ owner' = [owner EXCEPT ![s] = NoProc]
          /\ free_i' = [free_i EXCEPT ![p] = s + 1]
          /\ UNCHANGED <<pc, set_allocated, waiters>>
     ELSE /\ set_allocated' = (set_allocated /\ s <= NSEM)
          /\ pc' = [pc EXCEPT ![p] = "user"] /\ free_i' = [free_i EXCEPT ![p] = 0]
          /\ UNCHANGED sems
  /\ UNCHANGED <<state, chan, killed, want, units, held, program>>

\* One member is cleared; the set is free after the last one.
semset_free_clear(p) ==
  LET s == free_i[p] IN
  /\ pc[p] = "free_clear"
  /\ IF s <= NSEM
     THEN /\ allocated' = [allocated EXCEPT ![s] = FALSE]
          /\ resource_count' = [resource_count EXCEPT ![s] = 0]
          /\ waiters' = [waiters EXCEPT ![s] = 0] /\ owner' = [owner EXCEPT ![s] = NoProc]
          /\ free_i' = [free_i EXCEPT ![p] = s + 1]
          /\ UNCHANGED <<pc, set_allocated>>
     ELSE /\ set_allocated' = FALSE
          /\ pc' = [pc EXCEPT ![p] = "user"] /\ free_i' = [free_i EXCEPT ![p] = 0]
          /\ UNCHANGED sems
  /\ UNCHANGED <<state, chan, killed, want, units, held, program>>

Single == ~program.set /\ UNCHANGED <<set_allocated, free_i>>
Either == UNCHANGED <<set_allocated, free_i>>

SetNext ==
  \/ \E p \in Proc, s \in Sem :
       \/ \E n \in program.units : sem_create(p, s, n) /\ Single
       \/ sem_free(p, s) /\ Single
       \/ sem_p(p, s) /\ Single
       \/ sem_v(p, s) /\ Single
       \/ semset_p(p, s)
       \/ semset_v(p, s)
  \/ \E p \in Proc, W \in program.wants :
       \/ sem_p_multi(p, W) /\ Single
       \/ semset_p_multi(p, W)
  \/ \E p \in Proc, v \in [Sem -> program.units] : semset_create(p, v)
  \/ \E p \in Proc :
       \/ semset_free(p) \/ semset_free_check(p) \/ semset_free_clear(p)
       \/ sem_p_awake(p) /\ Either
       \/ sem_p_multi_awake(p) /\ Either
       \/ sem_p_multi_again(p) /\ Either
       \/ kill(p) /\ Either

SetSpec == SetInit /\ [][SetNext]_setvars

-----------------------------------------------------------------------------
(* Correctness, with the properties of module Semaphore. *)

\* The types, and semset_free stays within the members.
SetTypeOK ==
  TypeOK /\ set_allocated \in BOOLEAN /\ free_i \in [Proc -> 0..NSEM+1]

\* semset_free refuses while a member has waiters: the members of a set that is
\* in use exist, unless a semset_free clears them at this moment.
SetHasMembers ==
  set_allocated /\ (\A p \in Proc : pc[p] # "free_clear") => \A s \in Sem : allocated[s]
=============================================================================
