----------------------------- MODULE SleepLock -----------------------------
(***************************************************************************)
(* Sleep locks (kernel/lock/sleeplock.c) with priority inheritance         *)
(* (pi_donate and pi_recalc in kernel/proc/proc.c).                        *)
(*                                                                         *)
(* The spin lock lk->lk makes the body of acquiresleep, from acquire or    *)
(* from the return of sleep to the next sleep or to release, one step, and *)
(* the body of releasesleep another.  pi_recalc comes after it and looks   *)
(* at one lock at a time, so others run in between.                        *)
(***************************************************************************)
EXTENDS Integers, FiniteSets

CONSTANTS NPROC,      \* processes 1..NPROC
          NLOCK,      \* locks 1..NLOCK, the order of the table sleeplocks[]
          priority    \* the priority of every process, 0..20

Proc == 1..NPROC
Lock == 1..NLOCK
NoProc == 0
NoLock == 0

ASSUME SleepLockAssumption ==
  /\ NPROC \in Nat \ {0} /\ NLOCK \in Nat \ {0}
  /\ priority \in [Proc -> 0..20]

VARIABLES
  locked, pid, pi_waiter_max,   \* struct sleeplock
  pi_boost, state,              \* struct proc
  pc,     \* "run" in the caller, "acquire" in acquiresleep, "recalc" in pi_recalc
  lk,     \* the lock p is acquiring or sleeps on; in pi_recalc, the lock it looks at next
  max,    \* pi_recalc's maximum
  holds   \* the locks whose acquiresleep has returned to p: what p relies on

vars == <<locked, pid, pi_waiter_max, pi_boost, state, pc, lk, max, holds>>

Larger(a, b) == IF a > b THEN a ELSE b

Init ==
  /\ locked = [l \in Lock |-> FALSE]
  /\ pid = [l \in Lock |-> NoProc]
  /\ pi_waiter_max = [l \in Lock |-> 0]
  /\ pi_boost = [p \in Proc |-> 0]
  /\ state = [p \in Proc |-> "RUNNABLE"]
  /\ pc = [p \in Proc |-> "run"]
  /\ lk = [p \in Proc |-> NoLock]
  /\ max = [p \in Proc |-> 0]
  /\ holds = [p \in Proc |-> {}]

\* A call of acquiresleep.  The callers of the model take locks in one order, as
\* those of the file system do: an inode before its buffers.
Call(p, l) ==
  /\ pc[p] = "run"
  /\ \A h \in holds[p] : h < l
  /\ pc' = [pc EXCEPT ![p] = "acquire"] /\ lk' = [lk EXCEPT ![p] = l]
  /\ UNCHANGED <<locked, pid, pi_waiter_max, pi_boost, state, max, holds>>

pi_donate(q, donated) ==
  pi_boost' = [pi_boost EXCEPT ![q] = Larger(@, donated)]

\* The lock is taken: p donates its priority to the holder and sleeps.
acquiresleep_wait(p) ==
  LET l == lk[p]
      donor == Larger(priority[p], pi_boost[p])
  IN
  /\ pc[p] = "acquire" /\ state[p] = "RUNNABLE" /\ locked[l]
  /\ pi_waiter_max' = [pi_waiter_max EXCEPT ![l] = Larger(@, donor)]
  /\ pi_donate(pid[l], donor)
  /\ state' = [state EXCEPT ![p] = "SLEEPING"]
  /\ UNCHANGED <<locked, pid, pc, lk, max, holds>>

\* Mutant: the while of acquiresleep is an if, so that a process woken from
\* its sleep does not look at locked again.
TakeUnchecked(p) ==
  LET l == lk[p] IN
  /\ pc[p] = "acquire" /\ state[p] = "RUNNABLE"
  /\ locked' = [locked EXCEPT ![l] = TRUE]
  /\ pid' = [pid EXCEPT ![l] = p]
  /\ pi_waiter_max' = [pi_waiter_max EXCEPT ![l] = 0]
  /\ holds' = [holds EXCEPT ![p] = @ \cup {l}]
  /\ pc' = [pc EXCEPT ![p] = "run"] /\ lk' = [lk EXCEPT ![p] = NoLock]
  /\ UNCHANGED <<pi_boost, state, max>>

acquiresleep_take(p) ==
  LET l == lk[p] IN
  /\ pc[p] = "acquire" /\ state[p] = "RUNNABLE" /\ ~locked[l]
  /\ locked' = [locked EXCEPT ![l] = TRUE]
  /\ pid' = [pid EXCEPT ![l] = p]
  /\ pi_waiter_max' = [pi_waiter_max EXCEPT ![l] = 0]
  /\ holds' = [holds EXCEPT ![p] = @ \cup {l}]
  /\ pc' = [pc EXCEPT ![p] = "run"] /\ lk' = [lk EXCEPT ![p] = NoLock]
  /\ UNCHANGED <<pi_boost, state, max>>

Sleeping(l) == {q \in Proc : state[q] = "SLEEPING" /\ lk[q] = l}

\* Mutant: one sleeper is woken, as wakeupOneProc does.
WakeOne(p, l) ==
  /\ pc[p] = "run" /\ l \in holds[p]
  /\ locked' = [locked EXCEPT ![l] = FALSE]
  /\ pid' = [pid EXCEPT ![l] = NoProc]
  /\ pi_waiter_max' = [pi_waiter_max EXCEPT ![l] = 0]
  /\ state' = [q \in Proc |-> IF q \in Sleeping(l) /\ \A r \in Sleeping(l) : q <= r
                              THEN "RUNNABLE" ELSE state[q]]
  /\ holds' = [holds EXCEPT ![p] = @ \ {l}]
  /\ pc' = [pc EXCEPT ![p] = "recalc"] /\ lk' = [lk EXCEPT ![p] = 1]
  /\ UNCHANGED <<pi_boost, max>>

\* Everybody who sleeps on the lock is woken and tries again.
releasesleep(p, l) ==
  /\ pc[p] = "run" /\ l \in holds[p]
  /\ locked' = [locked EXCEPT ![l] = FALSE]
  /\ pid' = [pid EXCEPT ![l] = NoProc]
  /\ pi_waiter_max' = [pi_waiter_max EXCEPT ![l] = 0]
  /\ state' = [q \in Proc |-> IF q \in Sleeping(l) THEN "RUNNABLE" ELSE state[q]]
  /\ holds' = [holds EXCEPT ![p] = @ \ {l}]
  /\ pc' = [pc EXCEPT ![p] = "recalc"] /\ lk' = [lk EXCEPT ![p] = 1]
  /\ UNCHANGED <<pi_boost, max>>

\* sleeplock_max_waiter_for_pid: one lock of the table.
recalc_scan(p) ==
  LET l == lk[p] IN
  /\ pc[p] = "recalc" /\ l <= NLOCK
  /\ max' = [max EXCEPT ![p] = IF locked[l] /\ pid[l] = p
                               THEN Larger(@, pi_waiter_max[l]) ELSE @]
  /\ lk' = [lk EXCEPT ![p] = l + 1]
  /\ UNCHANGED <<locked, pid, pi_waiter_max, pi_boost, state, pc, holds>>

\* Mutant: the boost only ever grows.
RecalcKeeps(p) ==
  /\ pc[p] = "recalc" /\ lk[p] > NLOCK
  /\ pi_boost' = [pi_boost EXCEPT ![p] = Larger(@, max[p])]
  /\ pc' = [pc EXCEPT ![p] = "run"] /\ lk' = [lk EXCEPT ![p] = NoLock]
  /\ max' = [max EXCEPT ![p] = 0]
  /\ UNCHANGED <<locked, pid, pi_waiter_max, state, holds>>

\* The end of pi_recalc, under the process's own lock.
pi_recalc(p) ==
  /\ pc[p] = "recalc" /\ lk[p] > NLOCK
  /\ pi_boost' = [pi_boost EXCEPT ![p] = max[p]]
  /\ pc' = [pc EXCEPT ![p] = "run"] /\ lk' = [lk EXCEPT ![p] = NoLock]
  /\ max' = [max EXCEPT ![p] = 0]
  /\ UNCHANGED <<locked, pid, pi_waiter_max, state, holds>>

Step(p) ==
  \/ \E l \in Lock : Call(p, l)
  \/ acquiresleep_wait(p) \/ acquiresleep_take(p)
  \/ \E l \in Lock : releasesleep(p, l)
  \/ recalc_scan(p) \/ pi_recalc(p)

Next == \E p \in Proc : Step(p)

Spec == Init /\ [][Next]_vars

-----------------------------------------------------------------------------
(* Correctness. *)

\* struct sleeplock and the boosts, at most the highest priority, keep their types.
TypeOK ==
  /\ locked \in [Lock -> BOOLEAN] /\ pid \in [Lock -> Proc \cup {NoProc}]
  /\ pi_waiter_max \in [Lock -> 0..20] /\ pi_boost \in [Proc -> 0..20]
  /\ state \in [Proc -> {"RUNNABLE", "SLEEPING"}]
  /\ pc \in [Proc -> {"run", "acquire", "recalc"}]
  /\ lk \in [Proc -> 0..NLOCK+1] /\ max \in [Proc -> 0..20]
  /\ holds \in [Proc -> SUBSET Lock]

\* A lock that acquiresleep has handed out is held by one process, the one that
\* the lock's pid names; holdingsleep answers by that pid.
Exclusive ==
  \A l \in Lock : \A p \in Proc : l \in holds[p] <=> locked[l] /\ pid[l] = p

\* No lost wakeup: whoever sleeps in acquiresleep sleeps on a lock that is held.
SleepersWait == \A p \in Proc : state[p] = "SLEEPING" => locked[lk[p]]

\* A process that has given its last lock back and is past pi_recalc runs at
\* its own priority again.
BoostReturned ==
  \A p \in Proc : pc[p] = "run" /\ holds[p] = {} => pi_boost[p] = 0

\* A process that blocks on a sleep lock has donated its priority to the holder.
Inherited ==
  \A p \in Proc : state[p] = "SLEEPING" => pi_boost[pid[lk[p]]] >= priority[p]
=============================================================================
