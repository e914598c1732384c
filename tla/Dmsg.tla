-------------------------------- MODULE Dmsg --------------------------------
(***************************************************************************)
(* Direct messages (kernel/sysproc.c, dmsg_close in kernel/proc/proc.c):   *)
(* each slot of the process table has a bounded queue; senders name a pid  *)
(* and sleep while its queue is full, the owner sleeps while it is empty,  *)
(* and all of them sleep on the same channel.                              *)
(*                                                                         *)
(* What a call does under dmsg_lock up to its sleep or its return is one   *)
(* step.  A message is the pair of the pids it goes from and to.           *)
(***************************************************************************)
EXTENDS Naturals, Sequences, FiniteSets

CONSTANTS NPROC,            \* slots 1..NPROC of the process table
          DMSG_QUEUE_MAX,
          MaxPid,           \* bound on the pids, which are handed out in order
          Programs          \* what may happen in a behaviour, see Program

Slot == 1..NPROC

\* slots: the slots of the table that are used, one process in each; reuse: they
\* are used again; kills: processes may be killed; nomem: kalloc may fail.
Program == [slots : SUBSET Slot, reuse : BOOLEAN, kills : BOOLEAN, nomem : BOOLEAN]

ASSUME DmsgAssumption ==
  /\ NPROC \in Nat \ {0} /\ DMSG_QUEUE_MAX \in Nat \ {0} /\ MaxPid \in Nat /\ MaxPid >= NPROC
  /\ Programs \subseteq Program

VARIABLES
  pid, state, killed,      \* struct proc; pid 0: the slot is UNUSED
  dmsg_queue, dmsg_closed, \* the list from dmsg_head to dmsg_tail
  op,      \* the call the process is in: "none", "send" or "rcv"
  chan,    \* the slot on whose dmsg_count it sleeps, 0 if none
  to,      \* the pid it sends to
  nextpid,
  program  \* what happens in this behaviour

queues == <<dmsg_queue, dmsg_closed>>
calls == <<op, chan, to>>
vars == <<pid, state, killed, queues, calls, nextpid, program>>

Init ==
  /\ program \in Programs
  /\ pid = [p \in Slot |-> IF p \in program.slots THEN p ELSE 0] /\ nextpid = NPROC + 1
  /\ state = [p \in Slot |-> "RUNNABLE"] /\ killed = [p \in Slot |-> FALSE]
  /\ dmsg_queue = [p \in Slot |-> <<>>] /\ dmsg_closed = [p \in Slot |-> FALSE]
  /\ op = [p \in Slot |-> "none"] /\ chan = [p \in Slot |-> 0] /\ to = [p \in Slot |-> 0]

Alive(p) == pid[p] # 0 /\ state[p] # "ZOMBIE"
Idle(p) == Alive(p) /\ op[p] = "none" /\ ~killed[p]
Full(t) == Len(dmsg_queue[t]) >= DMSG_QUEUE_MAX
SleepingOn(t) == {r \in Slot : state[r] = "SLEEPING" /\ chan[r] = t}

\* The first sleeper in the table, sender or receiver.
wakeupOneProc(t) ==
  [r \in Slot |-> IF r \in SleepingOn(t) /\ \A x \in SleepingOn(t) : r <= x
                  THEN "RUNNABLE" ELSE state[r]]

Return(p) ==
  /\ op' = [op EXCEPT ![p] = "none"] /\ chan' = [chan EXCEPT ![p] = 0]
  /\ to' = [to EXCEPT ![p] = 0]

-----------------------------------------------------------------------------
\* A free place in the queue of slot t: the message goes in and one sleeper is
\* woken, unless there is no memory for the message.
Send(p, t, target) ==
  \/ /\ dmsg_queue' = [dmsg_queue EXCEPT ![t] = Append(@, <<pid[p], target>>)]
     /\ state' = wakeupOneProc(t) /\ Return(p)
  \/ program.nomem /\ Return(p) /\ UNCHANGED <<dmsg_queue, state>>

\* Mutant: the sender does not wake anybody.
SendSilently(p, t, target) ==
  /\ ~Full(t)
  /\ dmsg_queue' = [dmsg_queue EXCEPT ![t] = Append(@, <<pid[p], target>>)]
  /\ Return(p) /\ UNCHANGED state

\* Mutant: the limit is off by one.
SendOneMore(p, t, target) ==
  /\ Len(dmsg_queue[t]) <= DMSG_QUEUE_MAX
  /\ dmsg_queue' = [dmsg_queue EXCEPT ![t] = Append(@, <<pid[p], target>>)]
  /\ state' = wakeupOneProc(t) /\ Return(p)

\* The loop of dmsgsend at the queue of slot t.
SendLoop(p, t, target) ==
  \/ ~Full(t) /\ Send(p, t, target)
  \/ /\ Full(t)
     /\ state' = [state EXCEPT ![p] = "SLEEPING"]
     /\ op' = [op EXCEPT ![p] = "send"] /\ chan' = [chan EXCEPT ![p] = t]
     /\ to' = [to EXCEPT ![p] = target] /\ UNCHANGED dmsg_queue

\* Mutant: dmsg_closed is not looked at.
LockAnyTarget(target) == {t \in Slot : pid[t] = target}

\* The open queue of the process with this pid.
dmsg_lock_target(target) == {t \in Slot : pid[t] = target /\ ~dmsg_closed[t]}

dmsgsend(p, target) ==
  /\ Idle(p)
  /\ \E t \in dmsg_lock_target(target) : SendLoop(p, t, target)
  /\ UNCHANGED <<pid, killed, dmsg_closed, nextpid, program>>

\* After the sleep only dmsg_closed is looked at; a kill changes nothing.
dmsgsend_awake(p) ==
  /\ op[p] = "send" /\ state[p] = "RUNNABLE"
  /\ \/ dmsg_closed[chan[p]] /\ Return(p) /\ UNCHANGED <<dmsg_queue, state>>
     \/ ~dmsg_closed[chan[p]] /\ SendLoop(p, chan[p], to[p])
  /\ UNCHANGED <<pid, killed, dmsg_closed, nextpid, program>>

\* The loop of dmsgrcv: sleep at an empty queue unless killed; else take the
\* first message, or leave it if it is longer than the buffer.
ReceiveLoop(p) ==
  \/ /\ dmsg_queue[p] = <<>> /\ (killed[p] \/ dmsg_closed[p])
     /\ Return(p) /\ UNCHANGED <<dmsg_queue, state>>
  \/ /\ dmsg_queue[p] = <<>> /\ ~killed[p] /\ ~dmsg_closed[p]
     /\ state' = [state EXCEPT ![p] = "SLEEPING"]
     /\ op' = [op EXCEPT ![p] = "rcv"] /\ chan' = [chan EXCEPT ![p] = p]
     /\ UNCHANGED <<dmsg_queue, to>>
  \/ dmsg_queue[p] # <<>> /\ Return(p) /\ UNCHANGED <<dmsg_queue, state>>
  \/ /\ dmsg_queue[p] # <<>>
     /\ dmsg_queue' = [dmsg_queue EXCEPT ![p] = Tail(@)]
     /\ state' = wakeupOneProc(p) /\ Return(p)

dmsgrcv(p) == Idle(p) /\ ReceiveLoop(p) /\ UNCHANGED <<pid, killed, dmsg_closed, nextpid, program>>

dmsgrcv_awake(p) ==
  /\ op[p] = "rcv" /\ state[p] = "RUNNABLE" /\ ReceiveLoop(p)
  /\ UNCHANGED <<pid, killed, dmsg_closed, nextpid, program>>

-----------------------------------------------------------------------------
\* exit, of its own accord or killed: dmsg_close wakes all senders.
exit(p) ==
  /\ Alive(p) /\ op[p] = "none"
  /\ dmsg_closed' = [dmsg_closed EXCEPT ![p] = TRUE]
  /\ dmsg_queue' = [dmsg_queue EXCEPT ![p] = <<>>]
  /\ state' = [r \in Slot |-> IF r = p THEN "ZOMBIE"
                              ELSE IF r \in SleepingOn(p) THEN "RUNNABLE" ELSE state[r]]
  /\ UNCHANGED <<pid, killed, calls, nextpid, program>>

\* The parent's wait frees the slot.
freeproc(p) ==
  /\ pid[p] # 0 /\ state[p] = "ZOMBIE"
  /\ pid' = [pid EXCEPT ![p] = 0] /\ killed' = [killed EXCEPT ![p] = FALSE]
  /\ UNCHANGED <<state, queues, calls, nextpid, program>>

\* A new process in the slot has an open, empty queue.
allocproc(p) ==
  /\ program.reuse /\ p \in program.slots /\ pid[p] = 0 /\ nextpid <= MaxPid
  /\ pid' = [pid EXCEPT ![p] = nextpid] /\ nextpid' = nextpid + 1
  /\ state' = [state EXCEPT ![p] = "RUNNABLE"]
  /\ dmsg_closed' = [dmsg_closed EXCEPT ![p] = FALSE]
  /\ dmsg_queue' = [dmsg_queue EXCEPT ![p] = <<>>]
  /\ UNCHANGED <<killed, calls, program>>

kill(p) ==
  /\ program.kills /\ Alive(p) /\ ~killed[p]
  /\ killed' = [killed EXCEPT ![p] = TRUE] /\ state' = [state EXCEPT ![p] = "RUNNABLE"]
  /\ UNCHANGED <<pid, queues, calls, nextpid, program>>

Next ==
  \E p \in Slot :
    \/ \E target \in 1..MaxPid : dmsgsend(p, target)
    \/ dmsgrcv(p) \/ dmsgsend_awake(p) \/ dmsgrcv_awake(p)
    \/ exit(p) \/ freeproc(p) \/ allocproc(p) \/ kill(p)

Spec == Init /\ [][Next]_vars

-----------------------------------------------------------------------------
(* Correctness. *)

\* No queue of direct messages grows past DMSG_QUEUE_MAX, and every message
\* is from a process to a process.
TypeOK ==
  /\ pid \in [Slot -> 0..MaxPid] /\ nextpid \in 1..MaxPid+1
  /\ state \in [Slot -> {"RUNNABLE", "SLEEPING", "ZOMBIE"}] /\ killed \in [Slot -> BOOLEAN]
  /\ \A p \in Slot : /\ Len(dmsg_queue[p]) <= DMSG_QUEUE_MAX
                     /\ \A x \in 1..Len(dmsg_queue[p]) :
                          dmsg_queue[p][x] \in (1..MaxPid) \X (1..MaxPid)
  /\ dmsg_closed \in [Slot -> BOOLEAN]
  /\ op \in [Slot -> {"none", "send", "rcv"}]
  /\ chan \in [Slot -> 0..NPROC] /\ to \in [Slot -> 0..MaxPid] /\ program \in Programs

\* No lost wakeup: with nobody on its way, a sender sleeps only at an open queue
\* and, where no third process takes the wakeups, only at a full one, and a
\* receiver only while it has no message.
NoLostWakeup ==
  (\A p \in Slot : op[p] # "none" => state[p] = "SLEEPING") =>
    \A p \in Slot : state[p] = "SLEEPING" =>
      /\ op[p] = "send" => ~dmsg_closed[chan[p]]
      /\ Cardinality(program.slots) = 2 =>
           IF op[p] = "send" THEN Full(chan[p]) ELSE dmsg_queue[p] = <<>>

\* A process that has exited leaves no message behind, and nobody adds one:
\* nobody would ever free it.
ClosedIsEmpty == \A p \in Slot : dmsg_closed[p] => dmsg_queue[p] = <<>>

\* A process gets the messages that were sent to its pid and no others.  (Not
\* when a sender sleeps while its target's slot goes to a new process.)
RightAddressee ==
  \A p \in Slot : \A x \in 1..Len(dmsg_queue[p]) : dmsg_queue[p][x][2] = pid[p]
=============================================================================
