------------------------------- MODULE Flock -------------------------------
(***************************************************************************)
(* File locks (fileflock and fileclose in kernel/filesystem/file.c): the   *)
(* open files of one inode take it shared or exclusively, convert their    *)
(* lock, and lose it when they are closed.                                 *)
(*                                                                         *)
(* What fileflock does under flock_lock up to its sleep or its return is   *)
(* one step.  fileclose takes the open file out of the file table in one   *)
(* step and gives its lock back in a second one; the table entry may be    *)
(* used for a new open file of the inode in between.                       *)
(***************************************************************************)
EXTENDS Integers, FiniteSets

CONSTANTS Proc, File,
          Programs   \* what the programs of a behaviour may do, see Program

\* uses: the pairs <<p, f>> where process p has a descriptor of f; relock: they
\* ask for a lock they already have; kills: processes may be killed.
Program == [uses : SUBSET (Proc \X File), relock : BOOLEAN, kills : BOOLEAN]

ASSUME FlockAssumption ==
  /\ IsFiniteSet(Proc) /\ IsFiniteSet(File) /\ Programs \subseteq Program

VARIABLES
  flock_type, flock_count,   \* struct inode; types are "UN", "SH" and "EX"
  flock_held,                \* struct file
  state,
  req,      \* req[p]: the <<file, lock>> p waits for
  closing,  \* closing[p]: p's local copy ff.flock_held, "UN" outside fileclose
  program   \* what the programs of this behaviour do

vars == <<flock_type, flock_count, flock_held, state, req, closing, program>>

NoReq == <<>>

Init ==
  /\ flock_type = "UN" /\ flock_count = 0 /\ flock_held = [f \in File |-> "UN"]
  /\ state = [p \in Proc |-> "RUNNABLE"] /\ req = [p \in Proc |-> NoReq]
  /\ closing = [p \in Proc |-> "UN"]
  /\ program \in Programs

Idle(p) == req[p] = NoReq /\ closing[p] = "UN"

-----------------------------------------------------------------------------
\* flock_type and flock_count after one lock has been given back.
TypeAfter(type, count) == IF type = "SH" /\ count - 1 # 0 THEN "SH" ELSE "UN"
CountAfter(type, count) ==
  CASE type = "SH" -> count - 1 [] type = "EX" -> 0 [] OTHER -> count

\* The waiting processes are woken when that leaves the inode free.
Woken(type, count) ==
  [p \in Proc |-> IF /\ type # "UN" /\ TypeAfter(type, count) = "UN"
                     /\ req[p] # NoReq
                  THEN "RUNNABLE" ELSE state[p]]

Conflicts(type, op) == IF op = "SH" THEN type = "EX" ELSE type # "UN"

\* Mutant: a shared lock keeps nobody out.
AcquireOverShared(p, f, op, nonblock, held, type, count, st) ==
  /\ flock_type' = op
  /\ flock_count' = IF op = "SH" THEN count + 1 ELSE 1
  /\ flock_held' = [held EXCEPT ![f] = op]
  /\ req' = [req EXCEPT ![p] = NoReq] /\ state' = st
  /\ type # "EX"

\* The end of fileflock: take the lock, fail, or sleep.  held, type, count and
\* st are what the part before has made of the variables.
Acquire(p, f, op, nonblock, held, type, count, st) ==
  \/ /\ ~Conflicts(type, op)
     /\ flock_type' = op
     /\ flock_count' = IF op = "SH" THEN count + 1 ELSE 1
     /\ flock_held' = [held EXCEPT ![f] = op]
     /\ req' = [req EXCEPT ![p] = NoReq] /\ state' = st
  \/ /\ Conflicts(type, op)
     /\ flock_type' = type /\ flock_count' = count /\ flock_held' = held
     /\ IF nonblock
        THEN req' = [req EXCEPT ![p] = NoReq] /\ state' = st
        ELSE req' = [req EXCEPT ![p] = <<f, op>>] /\ state' = [st EXCEPT ![p] = "SLEEPING"]

\* LOCK_UN.
unlock(p, f) ==
  /\ Idle(p) /\ <<p, f>> \in program.uses /\ flock_held[f] # "UN"
  /\ flock_type' = TypeAfter(flock_type, flock_count)
  /\ flock_count' = CountAfter(flock_type, flock_count)
  /\ state' = Woken(flock_type, flock_count)
  /\ flock_held' = [flock_held EXCEPT ![f] = "UN"]
  /\ UNCHANGED <<req, closing, program>>

\* LOCK_SH and LOCK_EX: an old lock of the other kind is given back first.
fileflock(p, f, op, nonblock) ==
  /\ Idle(p) /\ <<p, f>> \in program.uses /\ (program.relock \/ flock_held[f] # op)
  /\ IF flock_held[f] \notin {"UN", op}
     THEN Acquire(p, f, op, nonblock, [flock_held EXCEPT ![f] = "UN"],
                  TypeAfter(flock_type, flock_count), CountAfter(flock_type, flock_count),
                  Woken(flock_type, flock_count))
     ELSE Acquire(p, f, op, nonblock, flock_held, flock_type, flock_count, state)
  /\ UNCHANGED <<closing, program>>

\* Awake again, the loop looks at flock_type and at nothing else.
fileflock_awake(p) ==
  /\ req[p] # NoReq /\ state[p] = "RUNNABLE"
  /\ Acquire(p, req[p][1], req[p][2], FALSE, flock_held, flock_type, flock_count, state)
  /\ UNCHANGED <<closing, program>>

-----------------------------------------------------------------------------
\* The last close of f: nobody who has a descriptor of it is in a call with it.
\* The entry of the file table is free, and open again, without a lock.
fileclose(p, f) ==
  /\ Idle(p) /\ <<p, f>> \in program.uses /\ flock_held[f] # "UN"
  /\ \A q \in Proc : req[q] # NoReq => req[q][1] # f
  /\ closing' = [closing EXCEPT ![p] = flock_held[f]]
  /\ flock_held' = [flock_held EXCEPT ![f] = "UN"]
  /\ UNCHANGED <<flock_type, flock_count, state, req, program>>

\* Mutant: waiting processes are not woken.
CloseSilently(p) ==
  /\ closing[p] # "UN"
  /\ flock_type' = TypeAfter(flock_type, flock_count)
  /\ flock_count' = CountAfter(flock_type, flock_count)
  /\ closing' = [closing EXCEPT ![p] = "UN"]
  /\ UNCHANGED <<flock_held, state, req, program>>

\* Mutant: a shared lock is not taken off the count.
CloseForgetsCount(p) ==
  /\ closing[p] # "UN"
  /\ IF flock_type = "SH" THEN UNCHANGED <<flock_type, flock_count, state>>
     ELSE flock_type' = "UN" /\ flock_count' = 0 /\ state' = Woken(flock_type, flock_count)
  /\ closing' = [closing EXCEPT ![p] = "UN"]
  /\ UNCHANGED <<flock_held, req, program>>

fileclose_release(p) ==
  /\ closing[p] # "UN"
  /\ flock_type' = TypeAfter(flock_type, flock_count)
  /\ flock_count' = CountAfter(flock_type, flock_count)
  /\ state' = Woken(flock_type, flock_count)
  /\ closing' = [closing EXCEPT ![p] = "UN"]
  /\ UNCHANGED <<flock_held, req, program>>

\* A kill ends the sleep, not the call.
kill(p) ==
  /\ program.kills /\ state[p] = "SLEEPING" /\ state' = [state EXCEPT ![p] = "RUNNABLE"]
  /\ UNCHANGED <<flock_type, flock_count, flock_held, req, closing, program>>

Next ==
  \E p \in Proc :
    \/ \E f \in File : \/ unlock(p, f) \/ fileclose(p, f)
                       \/ \E op \in {"SH", "EX"}, nonblock \in BOOLEAN : fileflock(p, f, op, nonblock)
    \/ fileflock_awake(p) \/ fileclose_release(p) \/ kill(p)

Spec == Init /\ [][Next]_vars

-----------------------------------------------------------------------------
(* Correctness. *)

Lock == {"UN", "SH", "EX"}

\* The lock of the inode and what the open files hold of it keep their types.
TypeOK ==
  /\ flock_type \in Lock /\ flock_count \in Nat /\ flock_held \in [File -> Lock]
  /\ state \in [Proc -> {"RUNNABLE", "SLEEPING"}]
  /\ req \in [Proc -> {NoReq} \cup (File \X {"SH", "EX"})] /\ closing \in [Proc -> Lock]

\* A lock lasts from fileflock to the second step of fileclose: its holders are
\* open files and processes that are closing one.
Holders(op) == {<<"file", f>> : f \in {g \in File : flock_held[g] = op}}
               \cup {<<"closer", p>> : p \in {q \in Proc : closing[q] = op}}

\* Whoever has the lock exclusively has it alone.
Exclusive ==
  Holders("EX") # {} => Holders("SH") = {} /\ \A g, h \in Holders("EX") : g = h

\* Every process has open files of its own and asks for no lock twice.
Private ==
  /\ ~program.relock
  /\ \A u, v \in program.uses : u[2] = v[2] => u = v

\* flock_count is at least the number of shared holders, so that the lock is not
\* given away too early, and without relocking not more.
CountIsHolders ==
  flock_type = "SH" => /\ flock_count >= Cardinality(Holders("SH"))
                       /\ Private => flock_count = Cardinality(Holders("SH"))

\* Nobody sleeps who could have the lock: no wakeup is lost, whether the lock
\* was given back by LOCK_UN, by a conversion or by fileclose.
SleepersMustWait ==
  \A p \in Proc : state[p] = "SLEEPING" => Conflicts(flock_type, req[p][2])

\* An open file that already has a lock gives it back before it waits, unless it
\* waits for the lock it has.
WaitsWithoutLock ==
  \A p \in Proc : state[p] = "SLEEPING" => flock_held[req[p][1]] = "UN"
=============================================================================
