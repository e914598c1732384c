----------------------------- MODULE Semaphore -----------------------------
(***************************************************************************)
(* Semaphores (kernel/sysproc.c): sem_create, sem_free, sem_p, sem_v and   *)
(* the AND operation sem_p_multi, with the deadlock detection of           *)
(* kernel/proc/proc.c.                                                     *)
(*                                                                         *)
(* What a call does between taking the spin locks of its semaphores and    *)
(* giving them back, or sleeping, is one step; the window between the      *)
(* search for a cycle and the sleep is the subject of module Monitor.      *)
(* Units circulate in the programs: whoever calls V gives back a unit that *)
(* it has taken or, with handoff, another process has.                     *)
(***************************************************************************)
EXTENDS Integers, FiniteSets

CONSTANTS NPROC, NSEM,   \* processes 1..NPROC, semaphores 1..NSEM
          Programs       \* what the programs of a behaviour may do, see Program

Proc == 1..NPROC
Sem == 1..NSEM
NoProc == 0

\* set: the semaphores are the members of a semaphore set; units: the initial
\* values; wants: the sets given to sem_p_multi; calls: the calls that are made;
\* handoff: a process may give back a unit that another one took; kills:
\* processes may be killed.
Program == [set : BOOLEAN, units : SUBSET Nat, wants : SUBSET (SUBSET Sem \ {{}}),
            calls : SUBSET {"sem_p", "sem_p_multi", "sem_free"},
            handoff : BOOLEAN, kills : BOOLEAN]

ASSUME SemaphoreAssumption ==
  /\ NPROC \in Nat \ {0} /\ NSEM \in Nat \ {0}
  /\ Programs \subseteq Program

VARIABLES
  allocated, resource_count, waiters, owner,   \* struct sem
  state, chan, killed,                         \* struct proc
  pc, want,     \* where p is, and the semaphores of its sem_p_multi
  units,        \* the number of units the semaphore was created with
  held,         \* held[p][s]: units p has taken and nobody has given back
  program       \* what the programs of this behaviour do

sems == <<allocated, resource_count, waiters, owner>>
procs == <<state, chan, killed, pc, want>>
vars == <<sems, procs, units, held, program>>

Init ==
  /\ allocated = [s \in Sem |-> FALSE] /\ resource_count = [s \in Sem |-> 0]
  /\ waiters = [s \in Sem |-> 0] /\ owner = [s \in Sem |-> NoProc]
  /\ state = [p \in Proc |-> "RUNNABLE"] /\ chan = [p \in Proc |-> 0]
  /\ killed = [p \in Proc |-> FALSE]
  /\ pc = [p \in Proc |-> "user"] /\ want = [p \in Proc |-> {}]
  /\ units = [s \in Sem |-> 0] /\ held = [p \in Proc |-> [s \in Sem |-> 0]]
  /\ program \in Programs

InUser(p) == pc[p] = "user" /\ ~killed[p]
SleepingOn(s) == {q \in Proc : state[q] = "SLEEPING" /\ chan[q] = s}

\* wakeupOneProc wakes the first sleeper in the table, whatever it waits for.
wakeupOneProc(s) ==
  [q \in Proc |-> IF q \in SleepingOn(s) /\ \A r \in SleepingOn(s) : q <= r
                  THEN "RUNNABLE" ELSE state[q]]

\* Follow owner and channel from s; true if that leads back to p.
deadlock_detect(p, s) ==
  LET pid[n \in 0..NPROC] ==
        IF n = 0 THEN owner[s]
        ELSE IF pid[n-1] = NoProc \/ pid[n-1] = p THEN pid[n-1]
        ELSE IF state[pid[n-1]] = "SLEEPING" THEN owner[chan[pid[n-1]]] ELSE NoProc
  IN  \E n \in 0..NPROC-1 : pid[n] = p

\* owner after p has taken a unit and count units are left.
OwnerAfter(p, s, count) ==
  CASE count = 0 -> p [] count > 0 -> NoProc [] OTHER -> owner[s]

-----------------------------------------------------------------------------
\* The first free entry; waiters is left as it is.
sem_create(p, s, n) ==
  /\ InUser(p) /\ ~allocated[s] /\ \A t \in 1..s-1 : allocated[t]
  /\ allocated' = [allocated EXCEPT ![s] = TRUE]
  /\ resource_count' = [resource_count EXCEPT ![s] = n]
  /\ owner' = [owner EXCEPT ![s] = NoProc]
  /\ units' = [units EXCEPT ![s] = n] /\ held' = [q \in Proc |-> [held[q] EXCEPT ![s] = 0]]
  /\ UNCHANGED <<waiters, procs, program>>

\* Mutant: a semaphore nobody waits for with a negative count may be freed, but
\* those in sem_p_multi are forgotten.
FreeUnderWaiters(p, s) ==
  /\ "sem_free" \in program.calls /\ InUser(p)
  /\ allocated[s] /\ resource_count[s] >= 0
  /\ allocated' = [allocated EXCEPT ![s] = FALSE]
  /\ resource_count' = [resource_count EXCEPT ![s] = 0]
  /\ owner' = [owner EXCEPT ![s] = NoProc]
  /\ UNCHANGED <<waiters, procs, units, held, program>>

sem_free(p, s) ==
  /\ "sem_free" \in program.calls /\ InUser(p)
  /\ allocated[s] /\ resource_count[s] >= 0 /\ waiters[s] = 0
  /\ allocated' = [allocated EXCEPT ![s] = FALSE]
  /\ resource_count' = [resource_count EXCEPT ![s] = 0]
  /\ owner' = [owner EXCEPT ![s] = NoProc]
  /\ UNCHANGED <<waiters, procs, units, held, program>>

\* A unit is there, or p queues up by making the count negative and sleeps,
\* unless that would close a cycle.
sem_p(p, s) ==
  LET count == resource_count[s] - 1 IN
  /\ "sem_p" \in program.calls /\ InUser(p) /\ allocated[s]
  /\ resource_count' = [resource_count EXCEPT ![s] = count]
  /\ \/ /\ count >= 0
        /\ owner' = [owner EXCEPT ![s] = OwnerAfter(p, s, count)]
        /\ held' = [held EXCEPT ![p][s] = @ + 1]
        /\ UNCHANGED <<waiters, state, chan, pc>>
     \/ /\ count < 0 /\ ~deadlock_detect(p, s)
        /\ waiters' = [waiters EXCEPT ![s] = @ + 1]
        /\ state' = [state EXCEPT ![p] = "SLEEPING"] /\ chan' = [chan EXCEPT ![p] = s]
        /\ pc' = [pc EXCEPT ![p] = "sem_p"]
        /\ UNCHANGED <<owner, held>>
  /\ UNCHANGED <<allocated, killed, want, units, program>>

\* Back from the sleep: p takes it that a V has given it a unit.
sem_p_awake(p) ==
  LET s == chan[p] IN
  /\ pc[p] = "sem_p" /\ state[p] = "RUNNABLE"
  /\ waiters' = [waiters EXCEPT ![s] = @ - 1]
  /\ owner' = [owner EXCEPT ![s] = OwnerAfter(p, s, resource_count[s])]
  /\ held' = [held EXCEPT ![p][s] = @ + 1]
  /\ chan' = [chan EXCEPT ![p] = 0] /\ pc' = [pc EXCEPT ![p] = "user"]
  /\ UNCHANGED <<allocated, resource_count, state, killed, want, units, program>>

\* Mutant: units are taken as far as they go.
MultiPartial(p, W) ==
  LET T == {s \in W : resource_count[s] > 0} IN
  /\ T # {}
  /\ resource_count' = [s \in Sem |-> resource_count[s] - (IF s \in W THEN 1 ELSE 0)]
  /\ owner' = [s \in Sem |-> IF s \in W THEN OwnerAfter(p, s, resource_count[s] - 1) ELSE owner[s]]
  /\ held' = [held EXCEPT ![p] = [s \in Sem |-> IF s \in W THEN @[s] + 1 ELSE @[s]]]
  /\ pc' = [pc EXCEPT ![p] = "user"] /\ want' = [want EXCEPT ![p] = {}]
  /\ UNCHANGED <<waiters, state, chan>>

\* All units are there: sem_p_multi takes one of each.
MultiTake(p, W) ==
  /\ \A s \in W : resource_count[s] > 0
  /\ resource_count' = [s \in Sem |-> resource_count[s] - (IF s \in W THEN 1 ELSE 0)]
  /\ owner' = [s \in Sem |-> IF s \in W THEN OwnerAfter(p, s, resource_count[s] - 1) ELSE owner[s]]
  /\ held' = [held EXCEPT ![p] = [s \in Sem |-> IF s \in W THEN @[s] + 1 ELSE @[s]]]
  /\ pc' = [pc EXCEPT ![p] = "user"] /\ want' = [want EXCEPT ![p] = {}]
  /\ UNCHANGED <<waiters, state, chan>>

\* One is missing: p counts itself on all and sleeps on the first that lacks.
MultiWait(p, W) ==
  \E s \in W :
    /\ resource_count[s] <= 0 /\ \A t \in W : t < s => resource_count[t] > 0
    /\ ~deadlock_detect(p, s)
    /\ waiters' = [t \in Sem |-> waiters[t] + (IF t \in W THEN 1 ELSE 0)]
    /\ state' = [state EXCEPT ![p] = "SLEEPING"] /\ chan' = [chan EXCEPT ![p] = s]
    /\ pc' = [pc EXCEPT ![p] = "multi_asleep"] /\ want' = [want EXCEPT ![p] = W]
    /\ UNCHANGED <<resource_count, owner, held>>

\* One is gone, or waiting for it would close a cycle: p gives up.
MultiFail(p, W) ==
  /\ \/ \E s \in W : ~allocated[s]
     \/ \E s \in W : /\ resource_count[s] <= 0 /\ \A t \in W : t < s => resource_count[t] > 0
                     /\ deadlock_detect(p, s)
  /\ pc' = [pc EXCEPT ![p] = "user"] /\ want' = [want EXCEPT ![p] = {}]
  /\ UNCHANGED <<resource_count, waiters, owner, state, chan, held>>

MultiLoop(p, W) ==
  \/ (\A s \in W : allocated[s]) /\ (MultiTake(p, W) \/ MultiWait(p, W))
  \/ MultiFail(p, W)

sem_p_multi(p, W) ==
  /\ "sem_p_multi" \in program.calls /\ InUser(p)
  /\ MultiLoop(p, W)
  /\ UNCHANGED <<allocated, killed, units, program>>

\* Mutant: only the semaphore p slept on forgets it.
AwakeUncountsOne(p) ==
  /\ pc[p] = "multi_asleep" /\ state[p] = "RUNNABLE"
  /\ waiters' = [waiters EXCEPT ![chan[p]] = @ - 1]
  /\ chan' = [chan EXCEPT ![p] = 0] /\ pc' = [pc EXCEPT ![p] = "multi"]
  /\ UNCHANGED <<allocated, resource_count, owner, state, killed, want, units, held, program>>

\* Back from the sleep p first takes itself off the counts, under the locks of
\* all, and then starts over.
sem_p_multi_awake(p) ==
  /\ pc[p] = "multi_asleep" /\ state[p] = "RUNNABLE"
  /\ waiters' = [t \in Sem |-> waiters[t] - (IF t \in want[p] THEN 1 ELSE 0)]
  /\ chan' = [chan EXCEPT ![p] = 0] /\ pc' = [pc EXCEPT ![p] = "multi"]
  /\ UNCHANGED <<allocated, resource_count, owner, state, killed, want, units, held, program>>

sem_p_multi_again(p) ==
  /\ pc[p] = "multi" /\ MultiLoop(p, want[p])
  /\ UNCHANGED <<allocated, killed, units, program>>

\* Whose unit p gives back: its own if it has one.
Givers(p, s) == {q \in Proc : /\ held[q][s] > 0
                              /\ IF held[p][s] > 0 THEN q = p ELSE program.handoff}

\* Mutant: somebody is woken only when the count was negative by more than one.
VWakesLate(p, s) ==
  /\ InUser(p) /\ allocated[s]
  /\ \E q \in Givers(p, s) : held' = [held EXCEPT ![q][s] = @ - 1]
  /\ resource_count' = [resource_count EXCEPT ![s] = @ + 1]
  /\ owner' = [owner EXCEPT ![s] = NoProc]
  /\ state' = IF resource_count[s] + 1 < 0 THEN wakeupOneProc(s) ELSE state
  /\ UNCHANGED <<allocated, waiters, chan, killed, pc, want, units, program>>

sem_v(p, s) ==
  /\ InUser(p) /\ allocated[s]
  /\ \E q \in Givers(p, s) : held' = [held EXCEPT ![q][s] = @ - 1]
  /\ resource_count' = [resource_count EXCEPT ![s] = @ + 1]
  /\ owner' = [owner EXCEPT ![s] = NoProc]
  /\ state' = IF resource_count[s] + 1 <= 0 \/ waiters[s] > 0 THEN wakeupOneProc(s) ELSE state
  /\ UNCHANGED <<allocated, waiters, chan, killed, pc, want, units, program>>

\* kill wakes p wherever it sleeps.
kill(p) ==
  /\ program.kills /\ ~killed[p]
  /\ killed' = [killed EXCEPT ![p] = TRUE] /\ state' = [state EXCEPT ![p] = "RUNNABLE"]
  /\ UNCHANGED <<sems, chan, pc, want, units, held, program>>

Kernel(p) == sem_p_awake(p) \/ sem_p_multi_awake(p) \/ sem_p_multi_again(p)

Next ==
  \/ \E p \in Proc, s \in Sem :
       \/ \E n \in program.units : sem_create(p, s, n)
       \/ sem_free(p, s) \/ sem_p(p, s) \/ sem_v(p, s)
  \/ \E p \in Proc, W \in program.wants : sem_p_multi(p, W)
  \/ \E p \in Proc : Kernel(p) \/ kill(p)

Spec == Init /\ [][Next]_vars

-----------------------------------------------------------------------------
(* Correctness.  Some of the properties below fail for some programs; the   *)
(* premises say which ones, the README how to see it.                      *)

\* The fields of struct semaphore keep their types.
TypeOK ==
  /\ allocated \in [Sem -> BOOLEAN] /\ resource_count \in [Sem -> Int]
  /\ waiters \in [Sem -> Int] /\ owner \in [Sem -> 0..NPROC]
  /\ state \in [Proc -> {"RUNNABLE", "SLEEPING"}] /\ chan \in [Proc -> 0..NSEM]
  /\ killed \in [Proc -> BOOLEAN]
  /\ pc \in [Proc -> {"user", "sem_p", "multi_asleep", "multi", "free_check", "free_clear"}]
  /\ want \in [Proc -> program.wants \cup {{}}]
  /\ units \in [Sem -> Nat] /\ held \in [Proc -> [Sem -> Nat]] /\ program \in Programs

\* Members of a set may be freed under those who wait for them (module SemSet).
SafeFree == ~(program.set /\ "sem_free" \in program.calls)

Taken(s) == LET sum[n \in 0..NPROC] == IF n = 0 THEN 0 ELSE sum[n-1] + held[n][s]
            IN sum[NPROC]

\* P lets nobody through without a unit: no more units are out than the
\* semaphore was created with.  Not so when processes are killed in sem_p.
NeverOverdrawn ==
  SafeFree /\ ~program.kills => \A s \in Sem : allocated[s] => Taken(s) <= units[s]

\* sem_free refuses while somebody waits: a process asleep in P, or woken and
\* not yet off the counts, has its semaphores.
NotFreedUnderneath ==
  SafeFree => \A p \in Proc :
    /\ pc[p] = "sem_p" => allocated[chan[p]]
    /\ pc[p] = "multi_asleep" => \A s \in want[p] : allocated[s]

\* The count of waiters, on which sem_v and sem_free rely, is the number of
\* processes asleep, or woken and not yet running, in a P on the semaphore.
WaitersCounted ==
  SafeFree => \A s \in Sem : allocated[s] =>
    waiters[s] = Cardinality({p \in Proc : \/ pc[p] = "sem_p" /\ chan[p] = s
                                           \/ pc[p] = "multi_asleep" /\ s \in want[p]})

\* What p waits for can be had: in sem_p, a unit that no other process counts
\* on; in sem_p_multi, a unit of each.
Served(p) ==
  IF pc[p] = "sem_p"
  THEN resource_count[chan[p]] + Cardinality({q \in SleepingOn(chan[p]) : pc[q] = "sem_p"}) > 0
  ELSE \A s \in want[p] : resource_count[s] > 0

\* All processes wait in the same way for the same semaphores.
Uniform ==
  \/ "sem_p_multi" \notin program.calls
  \/ "sem_p" \notin program.calls /\ Cardinality(program.wants) = 1

\* No lost wakeup: as long as nobody is on its way in the kernel, nobody sleeps
\* in a P operation that could complete.  Not so when sem_p_multi callers with
\* different sets meet on a semaphore, or processes are killed.
NoLostWakeup ==
  /\ SafeFree /\ Uniform /\ ~program.kills
  /\ \A p \in Proc : state[p] = "RUNNABLE" => pc[p] = "user"
  => \A p \in Proc : state[p] = "SLEEPING" => ~Served(p)

\* A P operation is refused only when waiting would be hopeless: whoever else
\* holds a unit of s sleeps.  (Not for semaphores of several units, which have
\* one owner on record all the same.)
RefusalJustified ==
  \A p \in Proc, s \in Sem :
    InUser(p) /\ allocated[s] /\ resource_count[s] <= 0 /\ deadlock_detect(p, s)
      => \A q \in Proc \ {p} : held[q][s] > 0 => state[q] = "SLEEPING"

\* No circle of processes that sleep in P, each on a semaphore whose units are
\* all with processes of the circle.
NoCircularWait ==
  ~ \E S \in SUBSET Proc \ {{}} : \A p \in S :
      /\ state[p] = "SLEEPING" /\ ~Served(p)
      /\ Taken(chan[p]) > 0
      /\ \A q \in Proc : held[q][chan[p]] > 0 => q \in S
=============================================================================
