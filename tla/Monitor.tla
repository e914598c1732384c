------------------------------ MODULE Monitor ------------------------------
(***************************************************************************)
(* Monitors with condition variables (kernel/sysproc.c) and the deadlock   *)
(* detection of kernel/proc/proc.c.                                        *)
(*                                                                         *)
(* What a call does under the spin lock m->lock is one step, except in     *)
(* mon_enter: between the search for a cycle, which looks at other         *)
(* monitors without their locks, and the sleep, other CPUs may run.  A     *)
(* monitor has one condition variable here.                                *)
(***************************************************************************)
EXTENDS Integers, FiniteSets

CONSTANTS NPROC, NMON,   \* processes 1..NPROC, monitors 1..NMON
          Programs,      \* what the programs of a run may do, records of
                         \*   mons: how many monitors they use
                         \*   cpus: how many of them run inside the kernel at once
                         \*   conds: do they use condition variables?
                         \*   kills: may they be killed?
          priority       \* priority of every process

Proc == 1..NPROC
Mon == 1..NMON

ASSUME MonitorAssumption ==
  /\ NPROC \in Nat \ {0} /\ NMON \in Nat \ {0}
  /\ Programs \subseteq [mons : 1..NMON, cpus : 1..NPROC, conds : BOOLEAN, kills : BOOLEAN]
  /\ priority \in [Proc -> 0..20]

VARIABLES
  allocated, locked, owner, waiters, pi_waiter_max,   \* struct monitor
  cond, cwaiters,                  \* its condition variable: allocated, waiters
  lock,                            \* m->lock, kept by mon_enter over the search
  state, chan, killed, pi_boost,   \* struct proc
  pc, mon,                         \* where p is, and in which monitor's call
  inside,                          \* the monitors p has been told it is in
  program                          \* which of Programs runs

monitor == <<allocated, locked, owner, waiters, pi_waiter_max, cond, cwaiters>>
procs == <<state, chan, killed, pi_boost, pc, mon, inside>>
vars == <<monitor, lock, procs, program>>

NoProc == 0
NoChan == 0
CondOf(m) == NMON + m     \* the channel &m->conds[0]; the channel m is the monitor's

Larger(a, b) == IF a > b THEN a ELSE b

Init ==
  /\ allocated = [m \in Mon |-> FALSE] /\ locked = [m \in Mon |-> FALSE]
  /\ owner = [m \in Mon |-> NoProc] /\ waiters = [m \in Mon |-> 0]
  /\ pi_waiter_max = [m \in Mon |-> 0]
  /\ cond = [m \in Mon |-> FALSE] /\ cwaiters = [m \in Mon |-> 0]
  /\ lock = [m \in Mon |-> NoProc]
  /\ state = [p \in Proc |-> "RUNNABLE"] /\ chan = [p \in Proc |-> NoChan]
  /\ killed = [p \in Proc |-> FALSE] /\ pi_boost = [p \in Proc |-> 0]
  /\ pc = [p \in Proc |-> "user"] /\ mon = [p \in Proc |-> 0]
  /\ inside = [p \in Proc |-> {}]
  /\ program \in Programs

\* p is in user space and not on its way out; it calls for monitor m.
Calls(p, m) == m <= program.mons /\ pc[p] = "user" /\ ~killed[p] /\ lock[m] = NoProc
\* p goes on with a call in which it slept.
Resumes(p, label) == pc[p] = label /\ state[p] = "RUNNABLE" /\ lock[mon[p]] = NoProc

Goto(p, label, m) == pc' = [pc EXCEPT ![p] = label] /\ mon' = [mon EXCEPT ![p] = m]
Return(p) == Goto(p, "user", 0)

SleepingOn(c) == {q \in Proc : state[q] = "SLEEPING" /\ chan[q] = c}
wakeup(c) == [q \in Proc |-> IF q \in SleepingOn(c) THEN "RUNNABLE" ELSE state[q]]
\* The first sleeper in the table.
wakeupOneProc(c) ==
  [q \in Proc |-> IF q \in SleepingOn(c) /\ \A r \in SleepingOn(c) : q <= r
                  THEN "RUNNABLE" ELSE state[q]]

-----------------------------------------------------------------------------
(* Deadlock detection. *)

\* Conditions have no owner.
owner_of_chan(c) == IF c \in Mon THEN owner[c] ELSE NoProc

\* Mutant: the search ends one process too early.
DetectShort(p, m) ==
  LET pid[n \in 0..NPROC] ==
        IF n = 0 THEN owner_of_chan(m)
        ELSE IF pid[n-1] = NoProc \/ pid[n-1] = p THEN pid[n-1]
        ELSE IF state[pid[n-1]] = "SLEEPING" THEN owner_of_chan(chan[pid[n-1]]) ELSE NoProc
  IN  \E n \in 0..NPROC-2 : pid[n] = p

\* Follow owner and channel from m; true if that leads back to p.
deadlock_detect(p, m) ==
  LET pid[n \in 0..NPROC] ==
        IF n = 0 THEN owner_of_chan(m)
        ELSE IF pid[n-1] = NoProc \/ pid[n-1] = p THEN pid[n-1]
        ELSE IF state[pid[n-1]] = "SLEEPING" THEN owner_of_chan(chan[pid[n-1]]) ELSE NoProc
  IN  \E n \in 0..NPROC-1 : pid[n] = p

-----------------------------------------------------------------------------
(* The monitor. *)

\* The first free entry of the table.
mon_create(p, m) ==
  /\ Calls(p, m) /\ ~allocated[m] /\ \A n \in 1..m-1 : allocated[n]
  /\ allocated' = [allocated EXCEPT ![m] = TRUE] /\ locked' = [locked EXCEPT ![m] = FALSE]
  /\ owner' = [owner EXCEPT ![m] = NoProc] /\ waiters' = [waiters EXCEPT ![m] = 0]
  /\ pi_waiter_max' = [pi_waiter_max EXCEPT ![m] = 0]
  /\ cond' = [cond EXCEPT ![m] = FALSE] /\ cwaiters' = [cwaiters EXCEPT ![m] = 0]
  /\ UNCHANGED <<lock, procs, program>>

mon_free(p, m) ==
  /\ Calls(p, m) /\ allocated[m] /\ ~locked[m] /\ waiters[m] = 0
  /\ ~cond[m] /\ cwaiters[m] = 0
  /\ allocated' = [allocated EXCEPT ![m] = FALSE]
  /\ pi_waiter_max' = [pi_waiter_max EXCEPT ![m] = 0]
  /\ UNCHANGED <<locked, owner, waiters, cond, cwaiters, lock, procs, program>>

Take(p, m) ==
  /\ locked' = [locked EXCEPT ![m] = TRUE] /\ owner' = [owner EXCEPT ![m] = p]
  /\ inside' = [inside EXCEPT ![p] = @ \cup {m}]
  /\ Return(p)

\* The test of mon_enter's while loop and, if m is taken, the checks before the
\* sleep; p keeps m->lock when it is going to sleep.
EnterLoop(p, m) ==
  \/ /\ ~locked[m] /\ Take(p, m)
     /\ pi_waiter_max' = [pi_waiter_max EXCEPT ![m] = 0]
     /\ UNCHANGED lock
  \/ /\ locked[m] /\ (killed[p] \/ deadlock_detect(p, m))
     /\ Return(p) /\ UNCHANGED <<locked, owner, inside, pi_waiter_max, lock>>
  \/ /\ locked[m] /\ ~killed[p] /\ ~deadlock_detect(p, m)
     /\ Cardinality({q \in Proc : pc[q] = "block"}) < program.cpus
     /\ Goto(p, "block", m) /\ lock' = [lock EXCEPT ![m] = p]
     /\ UNCHANGED <<locked, owner, inside, pi_waiter_max>>

mon_enter(p, m) ==
  /\ Calls(p, m) /\ allocated[m] /\ owner[m] # p
  /\ EnterLoop(p, m)
  /\ UNCHANGED <<allocated, waiters, cond, cwaiters, state, chan, killed, pi_boost, program>>

\* p donates its priority to the owner, counts itself and sleeps.
mon_enter_sleep(p) ==
  LET m == mon[p]
      donor == Larger(priority[p], pi_boost[p])
  IN
  /\ pc[p] = "block"
  /\ pi_waiter_max' = [pi_waiter_max EXCEPT ![m] = Larger(@, donor)]
  /\ pi_boost' = [pi_boost EXCEPT ![owner[m]] = Larger(@, donor)]
  /\ waiters' = [waiters EXCEPT ![m] = @ + 1]
  /\ state' = [state EXCEPT ![p] = "SLEEPING"] /\ chan' = [chan EXCEPT ![p] = m]
  /\ lock' = [lock EXCEPT ![m] = NoProc]
  /\ Goto(p, "enter", m)
  /\ UNCHANGED <<allocated, locked, owner, cond, cwaiters, killed, inside, program>>

\* Mutant: the while of mon_enter is an if.
EnterUnchecked(p) ==
  LET m == mon[p] IN
  /\ Resumes(p, "enter")
  /\ waiters' = [waiters EXCEPT ![m] = @ - 1]
  /\ chan' = [chan EXCEPT ![p] = NoChan]
  /\ Take(p, m)
  /\ pi_waiter_max' = [pi_waiter_max EXCEPT ![m] = 0]
  /\ UNCHANGED <<allocated, cond, cwaiters, lock, state, killed, pi_boost, program>>

mon_enter_again(p) ==
  LET m == mon[p] IN
  /\ Resumes(p, "enter")
  /\ waiters' = [waiters EXCEPT ![m] = @ - 1]
  /\ chan' = [chan EXCEPT ![p] = NoChan]
  /\ EnterLoop(p, m)
  /\ UNCHANGED <<allocated, cond, cwaiters, state, killed, pi_boost, program>>

\* Mutant: the waiters are forgotten.
ExitWithoutWakeup(p, m) ==
  /\ Calls(p, m) /\ allocated[m] /\ owner[m] = p
  /\ locked' = [locked EXCEPT ![m] = FALSE] /\ owner' = [owner EXCEPT ![m] = NoProc]
  /\ pi_waiter_max' = [pi_waiter_max EXCEPT ![m] = 0]
  /\ inside' = [inside EXCEPT ![p] = @ \ {m}]
  /\ Goto(p, "recalc", 0)
  /\ UNCHANGED <<allocated, waiters, cond, cwaiters, lock, state, chan, killed, pi_boost, program>>

mon_exit(p, m) ==
  /\ Calls(p, m) /\ allocated[m] /\ owner[m] = p
  /\ locked' = [locked EXCEPT ![m] = FALSE] /\ owner' = [owner EXCEPT ![m] = NoProc]
  /\ pi_waiter_max' = [pi_waiter_max EXCEPT ![m] = 0]
  /\ state' = wakeupOneProc(m)
  /\ inside' = [inside EXCEPT ![p] = @ \ {m}]
  /\ Goto(p, "recalc", 0)
  /\ UNCHANGED <<allocated, waiters, cond, cwaiters, lock, chan, killed, pi_boost, program>>

\* Mutant: pi_recalc is forgotten.
BoostKept(p) ==
  /\ pc[p] = "recalc" /\ Return(p)
  /\ UNCHANGED <<monitor, lock, state, chan, killed, pi_boost, inside, program>>

\* The monitors p still owns decide on its boost.  (SleepLock splits pi_recalc
\* into its steps.)
pi_recalc(p) ==
  LET Mine == {pi_waiter_max[m] : m \in {n \in Mon : allocated[n] /\ locked[n] /\ owner[n] = p}}
  IN
  /\ pc[p] = "recalc"
  /\ pi_boost' = [pi_boost EXCEPT ![p] = CHOOSE b \in Mine \cup {0} : \A c \in Mine : c <= b]
  /\ Return(p)
  /\ UNCHANGED <<monitor, lock, state, chan, killed, inside, program>>

-----------------------------------------------------------------------------
(* Condition variables. *)

cond_create(p, m) ==
  /\ program.conds /\ Calls(p, m) /\ allocated[m] /\ ~cond[m]
  /\ cond' = [cond EXCEPT ![m] = TRUE] /\ cwaiters' = [cwaiters EXCEPT ![m] = 0]
  /\ UNCHANGED <<allocated, locked, owner, waiters, pi_waiter_max, lock, procs, program>>

\* Mutant: nobody asks for the waiters of the condition.
CondFreeUnderWaiters(p, m) ==
  /\ program.conds /\ Calls(p, m) /\ allocated[m] /\ cond[m]
  /\ cond' = [cond EXCEPT ![m] = FALSE]
  /\ UNCHANGED <<allocated, locked, owner, waiters, pi_waiter_max, cwaiters, lock, procs, program>>

cond_free(p, m) ==
  /\ program.conds /\ Calls(p, m) /\ allocated[m] /\ cond[m] /\ cwaiters[m] = 0
  /\ cond' = [cond EXCEPT ![m] = FALSE]
  /\ UNCHANGED <<allocated, locked, owner, waiters, pi_waiter_max, cwaiters, lock, procs, program>>

\* p leaves the monitor and sleeps on the condition, both under m->lock.
cond_wait(p, m) ==
  /\ Calls(p, m) /\ allocated[m] /\ cond[m] /\ owner[m] = p
  /\ cwaiters' = [cwaiters EXCEPT ![m] = @ + 1]
  /\ locked' = [locked EXCEPT ![m] = FALSE] /\ owner' = [owner EXCEPT ![m] = NoProc]
  /\ state' = [wakeupOneProc(m) EXCEPT ![p] = "SLEEPING"]
  /\ chan' = [chan EXCEPT ![p] = CondOf(m)]
  /\ inside' = [inside EXCEPT ![p] = @ \ {m}]
  /\ Goto(p, "cond", m)
  /\ UNCHANGED <<allocated, waiters, pi_waiter_max, cond, lock, killed, pi_boost, program>>

\* Back from one of the two sleeps of cond_wait: a killed process returns -1,
\* the others compete for the monitor, without a search for cycles.
CondLoop(p, m) ==
  \/ /\ killed[p]
     /\ Return(p) /\ chan' = [chan EXCEPT ![p] = NoChan]
     /\ UNCHANGED <<locked, owner, inside, state>>
  \/ /\ ~killed[p] /\ ~locked[m]
     /\ Take(p, m) /\ chan' = [chan EXCEPT ![p] = NoChan]
     /\ UNCHANGED state
  \/ /\ ~killed[p] /\ locked[m]
     /\ state' = [state EXCEPT ![p] = "SLEEPING"] /\ chan' = [chan EXCEPT ![p] = m]
     /\ Goto(p, "reenter", m)
     /\ UNCHANGED <<locked, owner, inside>>

cond_wait_awake(p) ==
  LET m == mon[p] IN
  /\ Resumes(p, "cond")
  /\ cwaiters' = [cwaiters EXCEPT ![m] = @ - 1]
  /\ CondLoop(p, m)
  /\ waiters' = [waiters EXCEPT ![m] = IF ~killed[p] /\ locked[m] THEN @ + 1 ELSE @]
  /\ UNCHANGED <<allocated, pi_waiter_max, cond, lock, killed, pi_boost, program>>

\* waiters-- and, if p sleeps again, waiters++.
cond_wait_again(p) ==
  LET m == mon[p] IN
  /\ Resumes(p, "reenter")
  /\ CondLoop(p, m)
  /\ waiters' = [waiters EXCEPT ![m] = IF ~killed[p] /\ locked[m] THEN @ ELSE @ - 1]
  /\ UNCHANGED <<allocated, pi_waiter_max, cond, cwaiters, lock, killed, pi_boost, program>>

cond_signal(p, m) ==
  /\ Calls(p, m) /\ allocated[m] /\ cond[m] /\ owner[m] = p /\ cwaiters[m] > 0
  /\ state' = wakeupOneProc(CondOf(m))
  /\ UNCHANGED <<monitor, lock, chan, killed, pi_boost, pc, mon, inside, program>>

cond_broadcast(p, m) ==
  /\ Calls(p, m) /\ allocated[m] /\ cond[m] /\ owner[m] = p /\ cwaiters[m] > 0
  /\ state' = wakeup(CondOf(m))
  /\ UNCHANGED <<monitor, lock, chan, killed, pi_boost, pc, mon, inside, program>>

-----------------------------------------------------------------------------
(* Exit and kill. *)

exit(p) ==
  /\ pc[p] = "user"
  /\ Goto(p, "exit", 0)
  /\ UNCHANGED <<monitor, lock, state, chan, killed, pi_boost, inside, program>>

\* One monitor of p's per step; when none is left the slot is that of a new
\* process.
monitor_release_on_exit(p) ==
  /\ pc[p] = "exit"
  /\ \/ \E m \in Mon :
          /\ allocated[m] /\ locked[m] /\ owner[m] = p /\ lock[m] = NoProc
          /\ locked' = [locked EXCEPT ![m] = FALSE] /\ owner' = [owner EXCEPT ![m] = NoProc]
          /\ pi_waiter_max' = [pi_waiter_max EXCEPT ![m] = 0]
          /\ state' = wakeupOneProc(m)
          /\ inside' = [inside EXCEPT ![p] = @ \ {m}]
          /\ UNCHANGED <<killed, pi_boost, pc, mon>>
     \/ /\ ~ \E m \in Mon : allocated[m] /\ locked[m] /\ owner[m] = p
        /\ Return(p)
        /\ killed' = [killed EXCEPT ![p] = FALSE] /\ pi_boost' = [pi_boost EXCEPT ![p] = 0]
        /\ UNCHANGED <<locked, owner, pi_waiter_max, state, inside>>
  /\ UNCHANGED <<allocated, waiters, cond, cwaiters, lock, chan, program>>

kill(p) ==
  /\ program.kills /\ ~killed[p]
  /\ killed' = [killed EXCEPT ![p] = TRUE]
  /\ state' = [state EXCEPT ![p] = "RUNNABLE"]
  /\ UNCHANGED <<monitor, lock, chan, pi_boost, pc, mon, inside, program>>

Next ==
  \/ \E p \in Proc, m \in Mon :
       \/ mon_create(p, m) \/ mon_free(p, m) \/ mon_enter(p, m) \/ mon_exit(p, m)
       \/ cond_create(p, m) \/ cond_free(p, m) \/ cond_wait(p, m)
       \/ cond_signal(p, m) \/ cond_broadcast(p, m)
  \/ \E p \in Proc :
       \/ mon_enter_sleep(p) \/ mon_enter_again(p) \/ pi_recalc(p)
       \/ cond_wait_awake(p) \/ cond_wait_again(p)
       \/ exit(p) \/ monitor_release_on_exit(p) \/ kill(p)

Spec == Init /\ [][Next]_vars

-----------------------------------------------------------------------------
(* Correctness. *)

\* Monitors, conditions and processes keep their types; counts of waiters do
\* not fall below zero.
TypeOK ==
  /\ allocated \in [Mon -> BOOLEAN] /\ locked \in [Mon -> BOOLEAN]
  /\ owner \in [Mon -> 0..NPROC] /\ waiters \in [Mon -> 0..NPROC]
  /\ pi_waiter_max \in [Mon -> 0..20]
  /\ cond \in [Mon -> BOOLEAN] /\ cwaiters \in [Mon -> 0..NPROC]
  /\ lock \in [Mon -> 0..NPROC]
  /\ state \in [Proc -> {"RUNNABLE", "SLEEPING"}] /\ chan \in [Proc -> 0..2*NMON]
  /\ killed \in [Proc -> BOOLEAN] /\ pi_boost \in [Proc -> 0..20]
  /\ pc \in [Proc -> {"user", "block", "enter", "recalc", "cond", "reenter", "exit"}]
  /\ mon \in [Proc -> 0..NMON] /\ inside \in [Proc -> SUBSET Mon]
  /\ program \in Programs

\* The monitor is exclusive: who has been told that it is inside is the owner,
\* and an owner knows; cond_wait, exit and the death of a waiter included.
Exclusive ==
  \A m \in Mon, p \in Proc : m \in inside[p] <=> locked[m] /\ owner[m] = p

\* mon_free and cond_free leave alone what somebody still uses: a process in the
\* middle of mon_enter or cond_wait comes back to a monitor that is there, with
\* its condition.
NotFreedUnderneath ==
  \A p \in Proc :
    /\ pc[p] \in {"block", "enter", "cond", "reenter"} => allocated[mon[p]]
    /\ pc[p] = "cond" => cond[mon[p]]
    /\ \A m \in inside[p] : allocated[m]

\* The monitor is handed over: it is not free while somebody sleeps on it and
\* nobody is awake to take it.  (A process killed in cond_wait drops what
\* mon_exit handed to it: programs that wait and are killed are left out.)
HandedOver ==
  ~(program.conds /\ program.kills) =>
    \A m \in Mon : ~locked[m] /\ SleepingOn(m) # {} =>
      \E p \in Proc : mon[p] = m /\ state[p] = "RUNNABLE" /\ pc[p] \in {"enter", "reenter"}

\* The process p is blocked behind, NoProc if none.
Behind(p) == IF state[p] = "SLEEPING" THEN owner_of_chan(chan[p]) ELSE NoProc

\* Cycles are found before the last process blocks: no processes sleep in a
\* circle, each on a monitor that the next one owns.  (On several processors two
\* searches can overlap, and cond_wait makes none.)
NoCircularWait ==
  program.cpus = 1 /\ ~program.conds =>
    ~ \E S \in SUBSET Proc \ {{}} : \A p \in S : Behind(p) \in S

\* A process that has left its last monitor, by mon_exit or in cond_wait, and
\* has not been killed runs at its own priority again.
BoostReturned ==
  \A p \in Proc : pc[p] = "user" /\ ~killed[p] /\ inside[p] = {} => pi_boost[p] = 0

\* A process that blocks on a monitor has donated its priority to the owner.
Inherited ==
  \A p \in Proc : pc[p] = "enter" /\ Behind(p) # NoProc => pi_boost[Behind(p)] >= priority[p]
=============================================================================
