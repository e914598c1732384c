------------------------------ MODULE Midsched ------------------------------
(***************************************************************************)
(* Mid-term scheduling (kernel/proc/proc.c): a process that finds memory   *)
(* short picks another one, suspends it and swaps its pages out; the       *)
(* scheduler resumes suspended processes when there is memory again; a     *)
(* system call switches all of this on and off.  Suspension meets sleep,   *)
(* wakeup and kill, which change the same field p->state.                  *)
(*                                                                         *)
(* A step is what happens under one p->lock.  Left out: the reasons to     *)
(* suspend and to resume (memory, hold time), which may occur at any time, *)
(* and the choice of the largest candidate, which may be any.              *)
(***************************************************************************)
EXTENDS Naturals

CONSTANTS NPROC,      \* processes 1..NPROC
          Exempt,     \* those never suspended: init and real-time processes
          Programs    \* what may happen in a behaviour, see Program

Proc == 1..NPROC
NoProc == 0

\* swapfails: swapout_proc may find no page to swap out; kills: processes may be
\* killed; switch: the arguments midsched_set is called with.
Program == [swapfails : BOOLEAN, kills : BOOLEAN, switch : SUBSET BOOLEAN]

ASSUME MidschedAssumption ==
  /\ NPROC \in Nat \ {0} /\ Exempt \subseteq Proc /\ Programs \subseteq Program

VARIABLES
  state, chan, killed, midsched_suspending,  \* struct proc; chan: is p in sleep()?
  midsched_enabled,
  pc,      \* where p is: "user", "pick", "swap" or "resume_all"
  victim, prev,   \* locals of midsched_suspend_one
  i,       \* the process p's midsched_resume_all is at, 0 if none
  scan,    \* the process midsched_maybe_resume is at, 0 if it is not running
  due,     \* due[p]: the wakeup p sleeps for has been called
  program  \* what happens in this behaviour

procs == <<state, chan, killed, midsched_suspending>>
locals == <<pc, victim, prev, i>>
vars == <<procs, midsched_enabled, locals, scan, due, program>>

Init ==
  /\ state = [p \in Proc |-> "RUNNABLE"] /\ chan = [p \in Proc |-> FALSE]
  /\ killed = [p \in Proc |-> FALSE] /\ midsched_suspending = [p \in Proc |-> FALSE]
  /\ midsched_enabled = FALSE
  /\ pc = [p \in Proc |-> "user"] /\ victim = [p \in Proc |-> NoProc]
  /\ prev = [p \in Proc |-> "RUNNABLE"] /\ i = [p \in Proc |-> 0]
  /\ scan = 0 /\ due = [p \in Proc |-> FALSE]
  /\ program \in Programs

\* p executes code of its own: it runs and is not inside sleep().
Runs(p) == state[p] = "RUNNING" /\ ~chan[p]

-----------------------------------------------------------------------------
(* Scheduling, sleep, wakeup, kill, exit. *)

scheduler(p) ==
  /\ state[p] = "RUNNABLE" /\ state' = [state EXCEPT ![p] = "RUNNING"]
  /\ UNCHANGED <<chan, killed, midsched_suspending, midsched_enabled, locals, scan, due, program>>

\* The timer takes the CPU away in the kernel too.
yield(p) ==
  /\ state[p] = "RUNNING" /\ state' = [state EXCEPT ![p] = "RUNNABLE"]
  /\ UNCHANGED <<chan, killed, midsched_suspending, midsched_enabled, locals, scan, due, program>>

\* In a system call, or in swapout_proc waiting for the disk or the clock.
sleep(p) ==
  /\ Runs(p) /\ pc[p] \in {"user", "swap"}
  /\ state' = [state EXCEPT ![p] = "SLEEPING"] /\ chan' = [chan EXCEPT ![p] = TRUE]
  /\ due' = [due EXCEPT ![p] = FALSE]
  /\ UNCHANGED <<killed, midsched_suspending, midsched_enabled, locals, scan, program>>

\* The end of sleep().
sleep_awake(p) ==
  /\ state[p] = "RUNNING" /\ chan[p]
  /\ chan' = [chan EXCEPT ![p] = FALSE]
  /\ UNCHANGED <<state, killed, midsched_suspending, midsched_enabled, locals, scan, due, program>>

\* Mutant: a suspended sleeper is not woken.
WakeupSkipsSuspended(p) ==
  /\ chan[p] /\ state[p] \in {"SLEEPING", "SUSPENDED_SLEEP"}
  /\ state' = [state EXCEPT ![p] = IF @ = "SLEEPING" THEN "RUNNABLE" ELSE @]
  /\ due' = [due EXCEPT ![p] = TRUE]
  /\ UNCHANGED <<chan, killed, midsched_suspending, midsched_enabled, locals, scan, program>>

\* The loop body of wakeup() that finds p asleep on its channel.
wakeup(p) ==
  /\ chan[p] /\ state[p] \in {"SLEEPING", "SUSPENDED_SLEEP"}
  /\ state' = [state EXCEPT ![p] = IF @ = "SLEEPING" THEN "RUNNABLE" ELSE "SUSPENDED"]
  /\ due' = [due EXCEPT ![p] = TRUE]
  /\ UNCHANGED <<chan, killed, midsched_suspending, midsched_enabled, locals, scan, program>>

mark_killed(p) ==
  /\ program.kills /\ ~killed[p] /\ state[p] # "UNUSED"
  /\ killed' = [killed EXCEPT ![p] = TRUE]
  /\ state' = [state EXCEPT ![p] = IF @ = "RUNNING" THEN @ ELSE "RUNNABLE"]
  /\ midsched_suspending' =
       [midsched_suspending EXCEPT ![p] = @ /\ state[p] \notin {"SUSPENDED", "SUSPENDED_SLEEP"}]
  /\ UNCHANGED <<chan, midsched_enabled, locals, scan, due, program>>

exit(p) ==
  /\ Runs(p) /\ pc[p] = "user" /\ killed[p]
  /\ state' = [state EXCEPT ![p] = "UNUSED"] /\ killed' = [killed EXCEPT ![p] = FALSE]
  /\ UNCHANGED <<chan, midsched_suspending, midsched_enabled, locals, scan, due, program>>

allocproc(p) ==
  /\ state[p] = "UNUSED"
  /\ state' = [state EXCEPT ![p] = "RUNNABLE"]
  /\ midsched_suspending' = [midsched_suspending EXCEPT ![p] = FALSE]
  /\ due' = [due EXCEPT ![p] = FALSE]
  /\ UNCHANGED <<chan, killed, midsched_enabled, locals, scan, program>>

-----------------------------------------------------------------------------
(* Suspending. *)

midsched_can_suspend(v, cur) ==
  /\ state[v] \in {"RUNNABLE", "SLEEPING"} /\ ~midsched_suspending[v]
  /\ v \notin Exempt /\ v # cur

\* kalloc finds memory short and the loop of midsched_suspend_one a candidate.
midsched_suspend_pick(p) ==
  /\ Runs(p) /\ pc[p] = "user" /\ midsched_enabled
  /\ \E v \in Proc : midsched_can_suspend(v, p) /\ victim' = [victim EXCEPT ![p] = v]
  /\ pc' = [pc EXCEPT ![p] = "pick"]
  /\ UNCHANGED <<procs, midsched_enabled, prev, i, scan, due, program>>

\* The candidate is suspended if it still is one.
midsched_suspend_one(p) ==
  LET v == victim[p] IN
  /\ Runs(p) /\ pc[p] = "pick"
  /\ \/ /\ midsched_can_suspend(v, p)
        /\ state' = [state EXCEPT ![v] = IF @ = "SLEEPING" THEN "SUSPENDED_SLEEP" ELSE "SUSPENDED"]
        /\ prev' = [prev EXCEPT ![p] = state[v]]
        /\ midsched_suspending' = [midsched_suspending EXCEPT ![v] = TRUE]
        /\ pc' = [pc EXCEPT ![p] = "swap"] /\ UNCHANGED victim
     \/ /\ ~midsched_can_suspend(v, p)
        /\ pc' = [pc EXCEPT ![p] = "user"] /\ victim' = [victim EXCEPT ![p] = NoProc]
        /\ UNCHANGED <<state, prev, midsched_suspending>>
  /\ UNCHANGED <<chan, killed, midsched_enabled, i, scan, due, program>>

\* swapout_proc is done: without a page swapped out the victim gets back the
\* state it was found in.
midsched_suspend_done(p) ==
  LET v == victim[p] IN
  /\ Runs(p) /\ pc[p] = "swap"
  /\ midsched_suspending' = [midsched_suspending EXCEPT ![v] = FALSE]
  /\ \/ UNCHANGED state
     \/ /\ program.swapfails
        /\ state' = [state EXCEPT ![v] = IF @ \in {"SUSPENDED", "SUSPENDED_SLEEP"} THEN prev[p] ELSE @]
  /\ pc' = [pc EXCEPT ![p] = "user"] /\ victim' = [victim EXCEPT ![p] = NoProc]
  /\ prev' = [prev EXCEPT ![p] = "RUNNABLE"]
  /\ UNCHANGED <<chan, killed, midsched_enabled, i, scan, due, program>>

-----------------------------------------------------------------------------
(* Resuming. *)

Suspended(p) == state[p] \in {"SUSPENDED", "SUSPENDED_SLEEP"}

\* Mutant: a suspended process is made runnable, asleep or not.
ResumesRunnable(q) ==
  state' = [state EXCEPT ![q] = IF Suspended(q) THEN "RUNNABLE" ELSE @]

\* The process is what it was, unless a wakeup came.
Resume(q) ==
  state' = [state EXCEPT ![q] =
    CASE @ = "SUSPENDED" -> "RUNNABLE"
      [] @ = "SUSPENDED_SLEEP" -> IF chan[q] THEN "SLEEPING" ELSE "RUNNABLE"
      [] OTHER -> @]

\* midsched_maintain, in the scheduler of one CPU.
midsched_maintain ==
  /\ midsched_enabled /\ scan = 0 /\ scan' = 1
  /\ UNCHANGED <<procs, midsched_enabled, locals, due, program>>

\* One round of the loop; the first process that can be resumed ends it.
midsched_maybe_resume ==
  /\ scan \in Proc
  /\ IF Suspended(scan) /\ ~midsched_suspending[scan] THEN Resume(scan) /\ scan' = 0
     ELSE UNCHANGED state /\ scan' = (scan + 1) % (NPROC + 1)
  /\ UNCHANGED <<chan, killed, midsched_suspending, midsched_enabled, locals, due, program>>

midsched_set(p, on) ==
  /\ Runs(p) /\ pc[p] = "user"
  /\ midsched_enabled' = on
  /\ IF on THEN UNCHANGED <<pc, i>>
     ELSE pc' = [pc EXCEPT ![p] = "resume_all"] /\ i' = [i EXCEPT ![p] = 1]
  /\ UNCHANGED <<procs, victim, prev, scan, due, program>>

\* One round of the loop.
midsched_resume_all(p) ==
  LET q == i[p] IN
  /\ Runs(p) /\ pc[p] = "resume_all"
  /\ Resume(q) /\ midsched_suspending' = [midsched_suspending EXCEPT ![q] = FALSE]
  /\ i' = [i EXCEPT ![p] = (@ + 1) % (NPROC + 1)]
  /\ pc' = [pc EXCEPT ![p] = IF q = NPROC THEN "user" ELSE @]
  /\ UNCHANGED <<chan, killed, midsched_enabled, victim, prev, scan, due, program>>

Next ==
  \/ \E p \in Proc :
       \/ scheduler(p) \/ yield(p) \/ sleep(p) \/ sleep_awake(p) \/ wakeup(p)
       \/ mark_killed(p) \/ exit(p) \/ allocproc(p)
       \/ midsched_suspend_pick(p) \/ midsched_suspend_one(p) \/ midsched_suspend_done(p)
       \/ midsched_resume_all(p) \/ \E on \in program.switch : midsched_set(p, on)
  \/ midsched_maintain \/ midsched_maybe_resume

Spec == Init /\ [][Next]_vars

-----------------------------------------------------------------------------
(* Correctness. *)

\* Process states, the switch and the positions of the loops keep their types.
TypeOK ==
  /\ state \in [Proc -> {"UNUSED", "RUNNABLE", "RUNNING", "SLEEPING", "SUSPENDED", "SUSPENDED_SLEEP"}]
  /\ chan \in [Proc -> BOOLEAN] /\ killed \in [Proc -> BOOLEAN]
  /\ midsched_suspending \in [Proc -> BOOLEAN] /\ midsched_enabled \in BOOLEAN
  /\ pc \in [Proc -> {"user", "pick", "swap", "resume_all"}]
  /\ victim \in [Proc -> 0..NPROC]
  /\ prev \in [Proc -> {"RUNNABLE", "SLEEPING"}]
  /\ i \in [Proc -> 0..NPROC] /\ scan \in 0..NPROC /\ due \in [Proc -> BOOLEAN]
  /\ program \in Programs

\* Suspension swallows no wakeup: a process whose wakeup has been called is not
\* left asleep, whether it was suspended at the time or not.  Not so when
\* swapout_proc may fail: the state from before the wakeup is put back.
NoLostWakeup ==
  ~program.swapfails =>
    \A p \in Proc : chan[p] /\ due[p] => state[p] \notin {"SLEEPING", "SUSPENDED_SLEEP"}

\* And it invents none: sleep() returns because of a wakeup or a kill.
SleepsUntilWoken ==
  \A p \in Proc : chan[p] /\ state[p] \in {"RUNNABLE", "RUNNING", "SUSPENDED"} => due[p] \/ killed[p]

\* While its pages are written out a process is off the ready queue.  (Not when
\* it is killed, or all processes are resumed, in the meantime.)
OffReadyQueue ==
  \A p \in Proc : pc[p] = "swap" => state[victim[p]] \notin {"RUNNABLE", "RUNNING"}

\* Switching off resumes all suspended processes: once the call is over, and
\* nobody is about to suspend one, none is left behind.
ResumedWhenOff ==
  ~midsched_enabled /\ (\A p \in Proc : pc[p] = "user") => \A p \in Proc : ~Suspended(p)
=============================================================================
