-------------------------------- MODULE Proc --------------------------------
(***************************************************************************)
(* The process table (kernel/proc/proc.c): fork, exit, wait, waitpid, kill,*)
(* killtree, the threads of clone and join, and sleep and wakeup.          *)
(*                                                                         *)
(* Every slot of proc[] has a spin lock.  What a process does under locks  *)
(* it takes and gives back at once is one step; locks that are held while  *)
(* another one is awaited are kept in the variable lock.  Fields that the  *)
(* code reads without the lock (parent, pthread) are read as they are.     *)
(* RUNNABLE stands for RUNNABLE and RUNNING: any such process may go on.   *)
(***************************************************************************)
EXTENDS Integers, FiniteSets

CONSTANTS NPROC,      \* size of the table; slot 1 is initproc
          Programs,   \* what the programs of a run may do: [calls, n], the system
                      \* calls they make, and how many slots and pids they use
          KillPids    \* the arguments of kill

Slot == 1..NPROC
initproc == 1

ASSUME ProcAssumption ==
  /\ NPROC \in Nat /\ NPROC > 1
  /\ Programs \subseteq
       [calls : SUBSET {"fork", "wait", "waitpid", "clone", "clone_in_thread", "join",
                        "sleep", "kill", "killtree", "nomem", "badaddr"},
        n : 1..NPROC]
  /\ KillPids \subseteq 0..NPROC

VARIABLES
  state, pid, parent, pthread, tgroup_ref, killed, chan,  \* struct proc
  nextpid,
  lock,      \* lock[q]: who holds the lock of slot q, 0 if nobody
  pc,        \* where each process is in the kernel
  i,         \* the slot its loop over proc[] has reached
  found,     \* havekids, found
  arg,       \* the pid waitpid waits for; clone's np; exit's original_parent
  ctrlc,     \* the killtree of the console: [pid, i]
  program    \* which of Programs runs

table == <<state, pid, parent, pthread, tgroup_ref, killed, chan>>
locals == <<pc, i, found, arg>>
vars == <<table, nextpid, lock, locals, ctrlc, program>>

States == {"UNUSED", "SLEEPING", "RUNNABLE", "ZOMBIE"}
Calls == program.calls
NoCtrlC == [pid |-> 0, i |-> 0]

On(p, label) == state[p] = "RUNNABLE" /\ pc[p] = label
Free(q) == lock[q] = 0

-----------------------------------------------------------------------------
Init ==
  /\ state = [p \in Slot |-> IF p = initproc THEN "RUNNABLE" ELSE "UNUSED"]
  /\ pid = [p \in Slot |-> IF p = initproc THEN 1 ELSE 0]
  /\ parent = [p \in Slot |-> 0] /\ pthread = [p \in Slot |-> 0]
  /\ tgroup_ref = [p \in Slot |-> IF p = initproc THEN 1 ELSE 0]
  /\ killed = [p \in Slot |-> FALSE] /\ chan = [p \in Slot |-> 0]
  /\ nextpid = 2
  /\ lock = [p \in Slot |-> 0]
  /\ pc = [p \in Slot |-> IF p = initproc THEN "user" ELSE "none"]
  /\ i = [p \in Slot |-> 1] /\ found = [p \in Slot |-> FALSE] /\ arg = [p \in Slot |-> 0]
  /\ ctrlc = NoCtrlC
  /\ program \in Programs

\* Mutant: killed survives the process.
FreeprocKeepsKilled(q, l) ==
  /\ tgroup_ref' = [p \in Slot |-> CASE p = q -> 0
                                    [] p = l /\ tgroup_ref[p] > 0 -> tgroup_ref[p] - 1
                                    [] OTHER -> tgroup_ref[p]]
  /\ state' = [state EXCEPT ![q] = "UNUSED"]
  /\ pid' = [pid EXCEPT ![q] = 0]
  /\ parent' = [parent EXCEPT ![q] = 0] /\ pthread' = [pthread EXCEPT ![q] = 0]
  /\ chan' = [chan EXCEPT ![q] = 0] /\ UNCHANGED killed

\* freeproc, and freethread with q's leader l: the slot as allocproc finds it.
freeproc(q, l) ==
  /\ tgroup_ref' = [p \in Slot |-> CASE p = q -> 0
                                    [] p = l /\ tgroup_ref[p] > 0 -> tgroup_ref[p] - 1
                                    [] OTHER -> tgroup_ref[p]]
  /\ state' = [state EXCEPT ![q] = "UNUSED"]
  /\ pid' = [pid EXCEPT ![q] = 0]
  /\ parent' = [parent EXCEPT ![q] = 0] /\ pthread' = [pthread EXCEPT ![q] = 0]
  /\ chan' = [chan EXCEPT ![q] = 0] /\ killed' = [killed EXCEPT ![q] = FALSE]

\* The slot allocproc takes, with a fresh pid; its lock is free.
Allocatable(np) ==
  state[np] = "UNUSED" /\ Free(np) /\ np <= program.n /\ nextpid <= program.n

\* The kernel is out of memory: allocproc gives up half way.
allocproc_nomem(p, np) ==
  /\ "nomem" \in Calls /\ On(p, "user") /\ Allocatable(np)
  /\ nextpid' = nextpid + 1
  /\ pid' = [pid EXCEPT ![np] = nextpid]
  /\ UNCHANGED <<state, parent, pthread, tgroup_ref, killed, chan, lock, locals, ctrlc, program>>

\* np's lock is held from allocproc to the end; no other lock is needed.
fork(p, np) ==
  /\ "fork" \in Calls /\ On(p, "user") /\ Allocatable(np)
  /\ nextpid' = nextpid + 1
  /\ pid' = [pid EXCEPT ![np] = nextpid]
  /\ state' = [state EXCEPT ![np] = "RUNNABLE"]
  /\ parent' = [parent EXCEPT ![np] = p] /\ pthread' = [pthread EXCEPT ![np] = 0]
  /\ tgroup_ref' = [tgroup_ref EXCEPT ![np] = 1]
  /\ pc' = [pc EXCEPT ![np] = "user"]
  /\ UNCHANGED <<killed, chan, lock, i, found, arg, ctrlc, program>>

leader(p) == IF pthread[p] # 0 THEN pthread[p] ELSE p

\* clone up to the point where it needs the leader's lock: np is locked, its
\* pthread is visible to everybody.
clone(p, np) ==
  /\ On(p, "user") /\ Allocatable(np)
  /\ IF pthread[p] = 0 THEN "clone" \in Calls ELSE "clone_in_thread" \in Calls
  /\ nextpid' = nextpid + 1
  /\ pid' = [pid EXCEPT ![np] = nextpid]
  /\ pthread' = [pthread EXCEPT ![np] = leader(p)] /\ parent' = [parent EXCEPT ![np] = 0]
  /\ tgroup_ref' = [tgroup_ref EXCEPT ![np] = 0]
  /\ lock' = [lock EXCEPT ![np] = p]
  /\ pc' = [pc EXCEPT ![p] = "clone"] /\ arg' = [arg EXCEPT ![p] = np]
  /\ UNCHANGED <<state, killed, chan, i, found, ctrlc, program>>

\* Mutant: the leader does not count the new thread.
CloneUncounted(p) ==
  /\ On(p, "clone") /\ Free(leader(p))
  /\ state' = [state EXCEPT ![arg[p]] = "RUNNABLE"]
  /\ lock' = [lock EXCEPT ![arg[p]] = 0]
  /\ pc' = [pc EXCEPT ![p] = "user", ![arg[p]] = "user"]
  /\ arg' = [arg EXCEPT ![p] = 0]
  /\ UNCHANGED <<pid, parent, pthread, tgroup_ref, killed, chan, nextpid, i, found, ctrlc, program>>

clone_done(p) ==
  /\ On(p, "clone") /\ Free(leader(p))
  /\ tgroup_ref' = [tgroup_ref EXCEPT ![leader(p)] = @ + 1]
  /\ state' = [state EXCEPT ![arg[p]] = "RUNNABLE"]
  /\ lock' = [lock EXCEPT ![arg[p]] = 0]
  /\ pc' = [pc EXCEPT ![p] = "user", ![arg[p]] = "user"]
  /\ arg' = [arg EXCEPT ![p] = 0]
  /\ UNCHANGED <<pid, parent, pthread, killed, chan, nextpid, i, found, ctrlc, program>>

\* Not enough memory for the new thread.
clone_fails(p) ==
  /\ "nomem" \in Calls /\ On(p, "clone")
  /\ freeproc(arg[p], 0)
  /\ lock' = [lock EXCEPT ![arg[p]] = 0]
  /\ pc' = [pc EXCEPT ![p] = "user"] /\ arg' = [arg EXCEPT ![p] = 0]
  /\ UNCHANGED <<nextpid, i, found, ctrlc, program>>

-----------------------------------------------------------------------------
(* sleep and wakeup: chan is the slot of a waiting parent, or Ticks; it is *)
(* read of sleeping processes only.                                        *)

Ticks == NPROC + 1

wakeup1(st, q) == IF st[q] = "SLEEPING" /\ chan[q] = q
                  THEN [st EXCEPT ![q] = "RUNNABLE"] ELSE st

\* sys_sleep: killed is looked at before p goes to sleep.
sys_sleep(p) ==
  /\ "sleep" \in Calls /\ On(p, "user") /\ ~killed[p]
  /\ pc' = [pc EXCEPT ![p] = "sleep"]
  /\ UNCHANGED <<table, nextpid, lock, i, found, arg, ctrlc, program>>

sleep(p) ==
  /\ On(p, "sleep") /\ Free(p)
  /\ state' = [state EXCEPT ![p] = "SLEEPING"] /\ chan' = [chan EXCEPT ![p] = Ticks]
  /\ pc' = [pc EXCEPT ![p] = "user"]
  /\ UNCHANGED <<pid, parent, pthread, tgroup_ref, killed, nextpid, lock, i, found, arg, ctrlc, program>>

\* clockintr: everybody in sys_sleep looks at the time again.
wakeup ==
  /\ \E p \in Slot : state[p] = "SLEEPING" /\ chan[p] = Ticks
  /\ \A p \in Slot : state[p] = "SLEEPING" /\ chan[p] = Ticks => Free(p)
  /\ state' = [p \in Slot |-> IF state[p] = "SLEEPING" /\ chan[p] = Ticks
                              THEN "RUNNABLE" ELSE state[p]]
  /\ UNCHANGED <<pid, parent, pthread, tgroup_ref, killed, chan, nextpid, lock, locals, ctrlc, program>>

-----------------------------------------------------------------------------
(* The loops of wait, waitpid, join and tgroup_kill_and_reap over proc[].  *)
(* The caller holds its own lock and takes that of every child it sees.    *)

Kid == [wait |-> "wait_kid", join |-> "join_kid", reap |-> "reap_kid"]
Loops == DOMAIN Kid

\* wait, and waitpid with a negative pid, take any child.
IsChild(p, k, q) == IF k = "wait" THEN parent[q] = p /\ arg[p] \in {0, pid[q]}
                                  ELSE pthread[q] = p

\* acquire(&p->lock), at the start and when sleep returns.
loop_start(p, k) ==
  /\ \/ On(p, "user") /\ k \in Calls
        /\ \E t \in (IF k = "wait" /\ "waitpid" \in Calls THEN 0..program.n ELSE {0}) :
             arg' = [arg EXCEPT ![p] = t]
     \/ On(p, k) /\ lock[p] # p /\ UNCHANGED arg
  /\ Free(p)
  /\ lock' = [lock EXCEPT ![p] = p]
  /\ chan' = [chan EXCEPT ![p] = 0]
  /\ pc' = [pc EXCEPT ![p] = k]
  /\ i' = [i EXCEPT ![p] = 1] /\ found' = [found EXCEPT ![p] = FALSE]
  /\ UNCHANGED <<state, pid, parent, pthread, tgroup_ref, killed, nextpid, ctrlc, program>>

\* The next slot, without its lock.
loop_look(p, k) ==
  /\ On(p, k) /\ lock[p] = p /\ i[p] <= NPROC
  /\ IF IsChild(p, k, i[p])
     THEN pc' = [pc EXCEPT ![p] = Kid[k]] /\ UNCHANGED i
     ELSE i' = [i EXCEPT ![p] = @ + 1] /\ UNCHANGED pc
  /\ UNCHANGED <<table, nextpid, lock, found, arg, ctrlc, program>>

\* release(&p->lock) and back to user space.
Return(p) ==
  /\ lock' = [lock EXCEPT ![p] = 0]
  /\ pc' = [pc EXCEPT ![p] = "user"]
  /\ i' = [i EXCEPT ![p] = 1] /\ found' = [found EXCEPT ![p] = FALSE]
  /\ arg' = [arg EXCEPT ![p] = 0]

\* A zombie child ends wait, waitpid and join; it stays when copyout fails.
loop_kid(p, k) ==
  LET q == i[p] IN
  /\ On(p, Kid[k]) /\ k # "reap" /\ Free(q)
  /\ \/ /\ state[q] = "ZOMBIE"
        /\ freeproc(q, IF k = "join" THEN p ELSE 0)
        /\ Return(p)
     \/ /\ state[q] = "ZOMBIE" /\ "badaddr" \in Calls
        /\ Return(p) /\ UNCHANGED table
     \/ /\ state[q] # "ZOMBIE"
        /\ found' = [found EXCEPT ![p] = TRUE]
        /\ i' = [i EXCEPT ![p] = @ + 1] /\ pc' = [pc EXCEPT ![p] = k]
        /\ UNCHANGED <<table, lock, arg>>
  /\ UNCHANGED <<nextpid, ctrlc, program>>

\* Mutant: threads are woken but not killed.
ReapWithoutKill(p) ==
  LET q == i[p] IN
  /\ On(p, Kid["reap"]) /\ Free(q)
  /\ IF state[q] = "ZOMBIE"
     THEN freeproc(q, p)
     ELSE /\ state' = [state EXCEPT ![q] = IF @ = "SLEEPING" THEN "RUNNABLE" ELSE @]
          /\ UNCHANGED <<pid, parent, pthread, tgroup_ref, killed, chan>>
  /\ found' = [found EXCEPT ![p] = TRUE]
  /\ i' = [i EXCEPT ![p] = @ + 1] /\ pc' = [pc EXCEPT ![p] = "reap"]
  /\ UNCHANGED <<nextpid, lock, arg, ctrlc, program>>

\* tgroup_kill_and_reap frees zombie threads and kills the others.
reap_kid(p) ==
  LET q == i[p] IN
  /\ On(p, Kid["reap"]) /\ Free(q)
  /\ IF state[q] = "ZOMBIE"
     THEN freeproc(q, p)
     ELSE /\ killed' = [killed EXCEPT ![q] = TRUE]
          /\ state' = [state EXCEPT ![q] = IF @ = "SLEEPING" THEN "RUNNABLE" ELSE @]
          /\ UNCHANGED <<pid, parent, pthread, tgroup_ref, chan>>
  /\ found' = [found EXCEPT ![p] = TRUE]
  /\ i' = [i EXCEPT ![p] = @ + 1] /\ pc' = [pc EXCEPT ![p] = "reap"]
  /\ UNCHANGED <<nextpid, lock, arg, ctrlc, program>>

GiveUp(p, k) == IF k = "reap" THEN ~found[p] \/ tgroup_ref[p] <= 1
                              ELSE ~found[p] \/ killed[p]

\* The whole table was seen: give up, or sleep until a child exits.
loop_end(p, k) ==
  /\ On(p, k) /\ lock[p] = p /\ i[p] > NPROC
  /\ IF GiveUp(p, k) /\ k # "reap"
     THEN Return(p) /\ UNCHANGED <<state, chan>>
     ELSE /\ lock' = [lock EXCEPT ![p] = 0]
          /\ i' = [i EXCEPT ![p] = 1] /\ found' = [found EXCEPT ![p] = FALSE]
          /\ UNCHANGED arg
          /\ IF GiveUp(p, k)
             THEN pc' = [pc EXCEPT ![p] = "exit"] /\ UNCHANGED <<state, chan>>
             ELSE /\ state' = [state EXCEPT ![p] = "SLEEPING"]
                  /\ chan' = [chan EXCEPT ![p] = p]
                  /\ UNCHANGED pc
  /\ UNCHANGED <<pid, parent, pthread, tgroup_ref, killed, nextpid, ctrlc, program>>

\* waitpid with WNOHANG does not sleep.
loop_nohang(p) ==
  /\ "waitpid" \in Calls /\ On(p, "wait") /\ lock[p] = p /\ i[p] > NPROC
  /\ Return(p)
  /\ UNCHANGED <<table, nextpid, ctrlc, program>>

-----------------------------------------------------------------------------
(* exit *)

\* A leader first gets rid of its threads; init never exits.
exit(p) ==
  /\ On(p, "user") /\ p # initproc
  /\ pc' = [pc EXCEPT ![p] = IF pthread[p] = 0 /\ tgroup_ref[p] > 1 THEN "reap" ELSE "exit"]
  /\ UNCHANGED <<table, nextpid, lock, i, found, arg, ctrlc, program>>

\* wakeup1(initproc), then, under p's own lock, the copy of p->parent.
exit_wake_init(p) ==
  /\ On(p, "exit") /\ Free(initproc)
  /\ state' = wakeup1(state, initproc)
  /\ pc' = [pc EXCEPT ![p] = "exit_parent"]
  /\ UNCHANGED <<pid, parent, pthread, tgroup_ref, killed, chan, nextpid, lock, i, found, arg, ctrlc, program>>

exit_parent(p) ==
  /\ On(p, "exit_parent") /\ Free(p)
  /\ arg' = [arg EXCEPT ![p] = IF parent[p] = 0 /\ pthread[p] # 0 THEN pthread[p] ELSE parent[p]]
  /\ pc' = [pc EXCEPT ![p] = "exit_lock"]
  /\ UNCHANGED <<table, nextpid, lock, i, found, ctrlc, program>>

\* acquire(&original_parent->lock); acquire(&p->lock).
exit_lock(p) ==
  /\ On(p, "exit_lock") /\ Free(arg[p])
  /\ lock' = [lock EXCEPT ![arg[p]] = p]
  /\ pc' = [pc EXCEPT ![p] = "exit_lock_self"]
  /\ UNCHANGED <<table, nextpid, i, found, arg, ctrlc, program>>

exit_lock_self(p) ==
  /\ On(p, "exit_lock_self") /\ Free(p)
  /\ lock' = [lock EXCEPT ![p] = p]
  /\ pc' = [pc EXCEPT ![p] = "reparent"] /\ i' = [i EXCEPT ![p] = 1]
  /\ UNCHANGED <<table, nextpid, found, arg, ctrlc, program>>

\* Mutant: the last slot of the table is left out.
ReparentShort(p) ==
  /\ On(p, "reparent") /\ i[p] <= NPROC
  /\ IF parent[i[p]] = p /\ i[p] < NPROC
     THEN Free(i[p]) /\ parent' = [parent EXCEPT ![i[p]] = initproc]
     ELSE UNCHANGED parent
  /\ i' = [i EXCEPT ![p] = @ + 1]
  /\ UNCHANGED <<state, pid, pthread, tgroup_ref, killed, chan, nextpid, lock, pc, found, arg, ctrlc, program>>

\* One slot of the loop: a child is locked and given to init.
reparent(p) ==
  /\ On(p, "reparent") /\ i[p] <= NPROC
  /\ IF parent[i[p]] = p
     THEN Free(i[p]) /\ parent' = [parent EXCEPT ![i[p]] = initproc]
     ELSE UNCHANGED parent
  /\ i' = [i EXCEPT ![p] = @ + 1]
  /\ UNCHANGED <<state, pid, pthread, tgroup_ref, killed, chan, nextpid, lock, pc, found, arg, ctrlc, program>>

\* Mutant: the parent is not woken.
ExitSilent(p) ==
  /\ On(p, "reparent") /\ i[p] > NPROC
  /\ state' = [state EXCEPT ![p] = "ZOMBIE"]
  /\ lock' = [lock EXCEPT ![arg[p]] = 0, ![p] = 0]
  /\ pc' = [pc EXCEPT ![p] = "none"] /\ arg' = [arg EXCEPT ![p] = 0] /\ i' = [i EXCEPT ![p] = 1]
  /\ UNCHANGED <<pid, parent, pthread, tgroup_ref, killed, chan, nextpid, found, ctrlc, program>>

exit_zombie(p) ==
  /\ On(p, "reparent") /\ i[p] > NPROC
  /\ state' = [wakeup1(state, arg[p]) EXCEPT ![p] = "ZOMBIE"]
  /\ lock' = [lock EXCEPT ![arg[p]] = 0, ![p] = 0]
  /\ pc' = [pc EXCEPT ![p] = "none"] /\ arg' = [arg EXCEPT ![p] = 0] /\ i' = [i EXCEPT ![p] = 1]
  /\ UNCHANGED <<pid, parent, pthread, tgroup_ref, killed, chan, nextpid, found, ctrlc, program>>

-----------------------------------------------------------------------------
(* kill and killtree *)

mark_killed(q) ==
  /\ killed' = [killed EXCEPT ![q] = TRUE]
  /\ state' = [state EXCEPT ![q] = IF @ = "SLEEPING" THEN "RUNNABLE" ELSE @]

\* The first slot with this pid.
kill(t) ==
  /\ "kill" \in Calls
  /\ \E q \in Slot :
       /\ pid[q] = t /\ \A r \in 1..q-1 : pid[r] # t
       /\ Free(q) /\ mark_killed(q)
  /\ UNCHANGED <<pid, parent, pthread, tgroup_ref, chan, nextpid, lock, locals, ctrlc, program>>

\* Ancestors, read without any lock.
is_descendant(q, t) ==
  LET cur[n \in 0..NPROC] == IF n = 0 THEN q
                             ELSE IF cur[n-1] = 0 THEN 0 ELSE parent[cur[n-1]]
  IN  \E n \in 0..NPROC : cur[n] # 0 /\ pid[cur[n]] = t

\* Ctrl-C at the console: a loop over the table, one lock at a time.
killtree(t) ==
  /\ "killtree" \in Calls /\ ctrlc = NoCtrlC
  /\ ctrlc' = [pid |-> t, i |-> 1]
  /\ UNCHANGED <<table, nextpid, lock, locals, program>>

killtree_slot ==
  LET q == ctrlc.i IN
  /\ q > 0 /\ Free(q)
  /\ IF state[q] # "UNUSED" /\ is_descendant(q, ctrlc.pid)
     THEN mark_killed(q) ELSE UNCHANGED <<killed, state>>
  /\ ctrlc' = IF q < NPROC THEN [ctrlc EXCEPT !.i = q + 1] ELSE NoCtrlC
  /\ UNCHANGED <<pid, parent, pthread, tgroup_ref, chan, nextpid, lock, locals, program>>

-----------------------------------------------------------------------------
Kernel(p) ==
  \/ clone_done(p)
  \/ sleep(p)
  \/ \E k \in Loops : loop_look(p, k) \/ loop_kid(p, k) \/ loop_end(p, k)
  \/ \E k \in Loops : pc[p] = k /\ loop_start(p, k)
  \/ loop_nohang(p) \/ reap_kid(p)
  \/ exit_wake_init(p) \/ exit_parent(p) \/ exit_lock(p) \/ exit_lock_self(p)
  \/ reparent(p) \/ exit_zombie(p)

Call(p) ==
  \/ \E np \in Slot : fork(p, np) \/ clone(p, np) \/ allocproc_nomem(p, np)
  \/ clone_fails(p)
  \/ \E k \in Loops : pc[p] = "user" /\ loop_start(p, k)
  \/ sys_sleep(p)
  \/ exit(p)

Next ==
  \/ \E p \in Slot : Kernel(p) \/ Call(p)
  \/ wakeup
  \/ \E t \in KillPids : kill(t) \/ killtree(t)
  \/ killtree_slot

Spec == Init /\ [][Next]_vars

\* Every CPU keeps running: a process in the kernel goes on, and gets a lock
\* that becomes free again and again; the clock ticks; a killed process exits
\* when it is back at the door to user space.
Fairness ==
  /\ \A p \in Slot : SF_vars(Kernel(p)) /\ SF_vars(killed[p] /\ exit(p))
  /\ WF_vars(wakeup)

FairSpec == Spec /\ Fairness

-----------------------------------------------------------------------------
(* Correctness. *)

Labels == {"none", "user", "clone", "sleep", "exit", "exit_parent", "exit_lock",
           "exit_lock_self", "reparent"} \cup Loops \cup {Kid[k] : k \in Loops}

\* The process table, the locks and the loops over it keep their types.
TypeOK ==
  /\ state \in [Slot -> States]
  /\ pid \in [Slot -> 0..NPROC] /\ nextpid \in 1..NPROC+1
  /\ parent \in [Slot -> 0..NPROC] /\ pthread \in [Slot -> 0..NPROC]
  /\ tgroup_ref \in [Slot -> 0..NPROC] /\ killed \in [Slot -> BOOLEAN]
  /\ chan \in [Slot -> 0..Ticks] /\ lock \in [Slot -> 0..NPROC]
  /\ pc \in [Slot -> Labels] /\ i \in [Slot -> 1..NPROC+1]
  /\ found \in [Slot -> BOOLEAN] /\ program \in Programs

Alive(q) == q # 0 /\ state[q] \in {"SLEEPING", "RUNNABLE"}

\* Nobody is left without somebody to wait for it: the parent of a process and
\* the leader of a thread are there, and not zombies, until it is freed.
Accompanied ==
  \A p \in Slot \ {initproc} : state[p] # "UNUSED" =>
    IF pthread[p] # 0 THEN Alive(pthread[p]) ELSE Alive(parent[p])

\* tgroup_ref of a leader counts itself and the slots of its threads.
GroupCounted ==
  \A p \in Slot : state[p] # "UNUSED" /\ pthread[p] = 0 =>
    tgroup_ref[p] = 1 + Cardinality({q \in Slot : pthread[q] = p /\ state[q] # "UNUSED"})

Waiting(p, k) == state[p] = "SLEEPING" /\ pc[p] = k
ZombieFor(p, k) == \E q \in Slot : state[q] = "ZOMBIE" /\ IsChild(p, k, q)

\* "hold p->lock for the whole time to avoid lost wakeups from a child's
\* exit()": nobody but init sleeps in wait, join or exit when there is a zombie
\* for it to collect.
ExitIsNoticed ==
  \A p \in Slot \ {initproc}, k \in Loops : Waiting(p, k) => ~ZombieFor(p, k)

\* "init may miss this wakeup, but that seems harmless": when no exit is under
\* way, init does not sleep while an orphan waits to be collected.
OrphansAreNoticed ==
  (\A p \in Slot : pc[p] \in {"none", "user", "sleep", "wait"})
    => ~(Waiting(initproc, "wait") /\ ZombieFor(initproc, "wait"))

\* The lock a process is spinning on, 0 if none.
Wants(p) ==
  CASE state[p] # "RUNNABLE" -> 0
    [] pc[p] = "clone" -> leader(p)
    [] pc[p] \in {Kid[k] : k \in Loops} -> i[p]
    [] pc[p] \in {"exit_lock"} -> arg[p]
    [] pc[p] = "exit_lock_self" -> p
    [] pc[p] = "reparent" /\ i[p] <= NPROC /\ parent[i[p]] = p -> i[p]
    [] OTHER -> 0

\* "the parent-then-child rule": no processes hold each other's locks up.
NoSpinDeadlock ==
  ~ \E S \in SUBSET Slot \ {{}} :
      \A p \in S : Wants(p) # 0 /\ lock[Wants(p)] \in S

\* A slot is handed out unkilled, unless an allocation that failed left its pid
\* there for kill to find: the mark of a dead process never reaches the next
\* one in its slot.
BornUnkilled == \A p \in Slot : state[p] = "UNUSED" /\ killed[p] => pid[p] # 0

\* A leader that exits gets rid of its threads and becomes a zombie.
ExitCompletes == \A p \in Slot : pc[p] = "reap" ~> pc[p] = "none"
=============================================================================
