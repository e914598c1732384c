-------------------------------- MODULE Pipe --------------------------------
(***************************************************************************)
(* Pipes (kernel/proc/pipe.c): a ring of PIPESIZE bytes with two counters  *)
(* that only grow and wrap around, readers and writers that sleep on them, *)
(* and ends that are closed while others use the pipe.                     *)
(*                                                                         *)
(* What a call does under the pipe's lock up to its sleep or its return is *)
(* one step.  One pipe is modelled; when both ends are closed its memory   *)
(* is freed and a new one may be made.  Each process holds at most one     *)
(* descriptor of each end.                                                 *)
(***************************************************************************)
EXTENDS Naturals, Sequences, FiniteSets

CONSTANTS Proc, Byte,
          PIPESIZE,    \* size of the ring
          UINT,        \* the counters are unsigned integers modulo UINT
          MaxCount,    \* the largest count passed to read and write
          Programs     \* what the programs of a behaviour may do, see Program

\* procs: the processes that take part; bytes: what they write; badaddr: user
\* addresses may be unmapped; kills: processes may be killed.
Program == [procs : SUBSET Proc, bytes : SUBSET Byte, badaddr : BOOLEAN, kills : BOOLEAN]

ASSUME PipeAssumption ==
  /\ PIPESIZE \in Nat \ {0} /\ UINT \in Nat /\ UINT > PIPESIZE /\ UINT % PIPESIZE = 0
  /\ MaxCount \in Nat /\ Programs \subseteq Program

VARIABLES
  data, nread, nwrite, readopen, writeopen,   \* struct pipe
  freed,                \* its memory has been given back
  ends,                 \* ends[p]: the ends p has a descriptor for
  state, killed,
  op,                   \* op[p]: "none", "read" or "write"
  buf,                  \* buf[p]: the bytes p's pipewrite still has to write
  count,                \* count[p]: the n of p's piperead
  moved,                \* the bytes the last step wrote or read
  program               \* what the programs of this behaviour do

pipe == <<data, nread, nwrite, readopen, writeopen, freed>>
procs == <<state, op, buf, count>>
vars == <<pipe, ends, procs, killed, moved, program>>

Init ==
  /\ program \in Programs
  /\ data \in [0..PIPESIZE-1 -> program.bytes] /\ nread = 0 /\ nwrite = 0
  /\ readopen = FALSE /\ writeopen = FALSE /\ freed = TRUE
  /\ ends = [p \in Proc |-> {}]
  /\ state = [p \in Proc |-> "RUNNABLE"] /\ killed = [p \in Proc |-> FALSE]
  /\ op = [p \in Proc |-> "none"] /\ buf = [p \in Proc |-> <<>>] /\ count = [p \in Proc |-> 0]
  /\ moved = <<>>

Idle(p) == p \in program.procs /\ op[p] = "none" /\ ~killed[p]
Used == (nwrite + UINT - nread) % UINT
Slot(c) == (c % UINT) % PIPESIZE
Least(m, n) == IF m < n THEN m ELSE n

\* wakeup(&pi->nread) wakes those in piperead, wakeup(&pi->nwrite) the writers.
wakeup(st, kind) == [p \in Proc |-> IF op[p] = kind THEN "RUNNABLE" ELSE st[p]]

-----------------------------------------------------------------------------
\* pipe(): a new pipe with both ends in p's hands.
pipealloc(p) ==
  /\ Idle(p) /\ freed
  /\ freed' = FALSE /\ readopen' = TRUE /\ writeopen' = TRUE
  /\ nread' = 0 /\ nwrite' = 0 /\ moved' = <<>>
  /\ ends' = [ends EXCEPT ![p] = {"r", "w"}]
  /\ UNCHANGED <<data, procs, killed, program>>

\* A child shares the descriptors.
fork(p, q) ==
  /\ Idle(p) /\ Idle(q) /\ ends[p] # {} /\ ends[q] = {}
  /\ ends' = [ends EXCEPT ![q] = ends[p]]
  /\ UNCHANGED <<pipe, procs, killed, moved, program>>

\* Mutant: the pipe is freed as soon as one of its ends is closed.
CloseFrees(p, e) ==
  LET last == \A q \in Proc \ {p} : e \notin ends[q] IN
  /\ ends' = [ends EXCEPT ![p] = @ \ {e}]
  /\ readopen' = (readopen /\ ~(last /\ e = "r"))
  /\ writeopen' = (writeopen /\ ~(last /\ e = "w"))
  /\ state' = IF last THEN wakeup(state, IF e = "w" THEN "read" ELSE "write") ELSE state
  /\ freed' = (~readopen' \/ ~writeopen')
  /\ moved' = <<>>
  /\ UNCHANGED <<data, nread, nwrite, op, buf, count, killed, program>>

\* fileclose drops p's descriptor for the end e; the last one of an end closes
\* it, wakes the other side and, with both ends closed, frees the pipe.
pipeclose(p, e) ==
  LET last == \A q \in Proc \ {p} : e \notin ends[q] IN
  /\ ends' = [ends EXCEPT ![p] = @ \ {e}]
  /\ readopen' = (readopen /\ ~(last /\ e = "r"))
  /\ writeopen' = (writeopen /\ ~(last /\ e = "w"))
  /\ state' = IF last THEN wakeup(state, IF e = "w" THEN "read" ELSE "write") ELSE state
  /\ freed' = (~readopen' /\ ~writeopen')
  /\ moved' = <<>>
  /\ UNCHANGED <<data, nread, nwrite, op, buf, count, killed, program>>

\* By the system call, or by exit, which closes one descriptor after another.
close(p, e) ==
  /\ p \in program.procs /\ op[p] = "none" /\ e \in ends[p] /\ pipeclose(p, e)

\* A killed process has closed what it had open; its slot is reused.
exit(p) ==
  /\ op[p] = "none" /\ killed[p] /\ ends[p] = {}
  /\ killed' = [killed EXCEPT ![p] = FALSE]
  /\ UNCHANGED <<pipe, procs, ends, moved, program>>

kill(p) ==
  /\ program.kills /\ p \in program.procs /\ ~killed[p]
  /\ killed' = [killed EXCEPT ![p] = TRUE] /\ state' = [state EXCEPT ![p] = "RUNNABLE"]
  /\ UNCHANGED <<pipe, ends, op, buf, count, moved, program>>

-----------------------------------------------------------------------------
\* k bytes of s go into the ring.
PutBytes(s, k) ==
  /\ data' = [x \in 0..PIPESIZE-1 |->
                IF \E b \in 1..k : Slot(nwrite + b - 1) = x
                THEN s[CHOOSE b \in 1..k : Slot(nwrite + b - 1) = x]
                ELSE data[x]]
  /\ nwrite' = (nwrite + k) % UINT
  /\ moved' = SubSeq(s, 1, k)

Done(p) ==
  /\ op' = [op EXCEPT ![p] = "none"] /\ buf' = [buf EXCEPT ![p] = <<>>]
  /\ count' = [count EXCEPT ![p] = 0]

\* Mutant: the ring is full one byte later.
WriteOverFull(p, s) ==
  LET k == Least(Len(s), PIPESIZE + 1 - Used) IN
  \/ /\ k = Len(s) /\ PutBytes(s, k) /\ state' = wakeup(state, "read") /\ Done(p)
  \/ /\ k < Len(s) /\ readopen /\ ~killed[p]
     /\ PutBytes(s, k)
     /\ state' = [wakeup(state, "read") EXCEPT ![p] = "SLEEPING"]
     /\ op' = [op EXCEPT ![p] = "write"]
     /\ buf' = [buf EXCEPT ![p] = SubSeq(s, k + 1, Len(s))]
     /\ UNCHANGED count

\* Mutant: a writer that finds the ring full sleeps without waking the readers.
WriteSleepsSilently(p, s) ==
  LET k == Least(Len(s), PIPESIZE - Used) IN
  \/ /\ k = Len(s) /\ PutBytes(s, k) /\ state' = wakeup(state, "read") /\ Done(p)
  \/ /\ k < Len(s) /\ readopen /\ ~killed[p]
     /\ PutBytes(s, k)
     /\ state' = [state EXCEPT ![p] = "SLEEPING"]
     /\ op' = [op EXCEPT ![p] = "write"]
     /\ buf' = [buf EXCEPT ![p] = SubSeq(s, k + 1, Len(s))]
     /\ UNCHANGED count

\* The loop of pipewrite with the bytes s to go: all of them fit; or p gives up
\* at a full ring that nobody reads, or because it is killed; or it wakes the
\* readers and sleeps; or its memory cannot be read.
WriteLoop(p, s) ==
  LET k == Least(Len(s), PIPESIZE - Used) IN
  \/ /\ k = Len(s) /\ PutBytes(s, k) /\ state' = wakeup(state, "read") /\ Done(p)
  \/ /\ k < Len(s) /\ (~readopen \/ killed[p])
     /\ PutBytes(s, k) /\ Done(p) /\ UNCHANGED state
  \/ /\ k < Len(s) /\ readopen /\ ~killed[p]
     /\ PutBytes(s, k)
     /\ state' = [wakeup(state, "read") EXCEPT ![p] = "SLEEPING"]
     /\ op' = [op EXCEPT ![p] = "write"]
     /\ buf' = [buf EXCEPT ![p] = SubSeq(s, k + 1, Len(s))]
     /\ UNCHANGED count
  \/ /\ program.badaddr /\ \E j \in 0..k-1 : PutBytes(s, j)
     /\ state' = wakeup(state, "read") /\ Done(p)

pipewrite(p, s) ==
  /\ Idle(p) /\ "w" \in ends[p] /\ WriteLoop(p, s)
  /\ UNCHANGED <<nread, readopen, writeopen, freed, ends, killed, program>>

pipewrite_awake(p) ==
  /\ op[p] = "write" /\ state[p] = "RUNNABLE" /\ WriteLoop(p, buf[p])
  /\ UNCHANGED <<nread, readopen, writeopen, freed, ends, killed, program>>

\* Mutant: reading starts one byte too far.
GetBytesAhead(k) ==
  /\ nread' = (nread + k) % UINT
  /\ moved' = [b \in 1..k |-> data[Slot(nread + b)]]

\* k bytes leave the ring.
GetBytes(k) ==
  /\ nread' = (nread + k) % UINT
  /\ moved' = [b \in 1..k |-> data[Slot(nread + b - 1)]]

\* piperead: wait for bytes or for the last writer to go; then take what is
\* there.  A byte that cannot be stored is taken all the same.
ReadLoop(p, n) ==
  \/ /\ Used = 0 /\ writeopen /\ killed[p]
     /\ Done(p) /\ moved' = <<>> /\ UNCHANGED <<nread, state>>
  \/ /\ Used = 0 /\ writeopen /\ ~killed[p]
     /\ state' = [state EXCEPT ![p] = "SLEEPING"]
     /\ op' = [op EXCEPT ![p] = "read"] /\ count' = [count EXCEPT ![p] = n]
     /\ moved' = <<>> /\ UNCHANGED <<nread, buf>>
  \/ /\ ~(Used = 0 /\ writeopen)
     /\ \/ GetBytes(Least(n, Used))
        \/ program.badaddr /\ \E j \in 1..Least(n, Used) : GetBytes(j)
     /\ state' = wakeup(state, "write") /\ Done(p)

piperead(p, n) ==
  /\ Idle(p) /\ "r" \in ends[p] /\ ReadLoop(p, n)
  /\ UNCHANGED <<data, nwrite, readopen, writeopen, freed, ends, killed, program>>

piperead_awake(p) ==
  /\ op[p] = "read" /\ state[p] = "RUNNABLE" /\ ReadLoop(p, count[p])
  /\ UNCHANGED <<data, nwrite, readopen, writeopen, freed, ends, killed, program>>

Next ==
  \E p \in Proc :
    \/ pipealloc(p) \/ exit(p) \/ kill(p) \/ pipewrite_awake(p) \/ piperead_awake(p)
    \/ \E q \in Proc : fork(p, q)
    \/ \E e \in {"r", "w"} : close(p, e)
    \/ \E n \in 0..MaxCount : piperead(p, n)
    \/ \E n \in 0..MaxCount : \E s \in [1..n -> program.bytes] : pipewrite(p, s)

Spec == Init /\ [][Next]_vars

-----------------------------------------------------------------------------
(* Correctness. *)

\* The fields of struct pipe keep their types, and the unsigned counters are
\* never further apart than the ring is long.
TypeOK ==
  /\ data \in [0..PIPESIZE-1 -> Byte] /\ nread \in 0..UINT-1 /\ nwrite \in 0..UINT-1
  /\ Used <= PIPESIZE
  /\ readopen \in BOOLEAN /\ writeopen \in BOOLEAN /\ freed \in BOOLEAN
  /\ ends \in [Proc -> SUBSET {"r", "w"}]
  /\ state \in [Proc -> {"RUNNABLE", "SLEEPING"}] /\ killed \in [Proc -> BOOLEAN]
  /\ op \in [Proc -> {"none", "read", "write"}] /\ count \in [Proc -> 0..MaxCount]
  /\ \A p \in Proc : buf[p] \in UNION {[1..n -> Byte] : n \in 0..MaxCount}
  /\ program \in Programs

\* The pipe lives as long as somebody has a descriptor of it, a sleeper in
\* particular: nobody comes back from sleep() to freed memory.
NotFreedInUse ==
  \A p \in Proc : (ends[p] # {} => ~freed) /\ (op[p] = "read" => "r" \in ends[p])
                                           /\ (op[p] = "write" => "w" \in ends[p])

\* No lost wakeup: a writer sleeps only at a full pipe that has a reader, a
\* reader only at an empty one that has a writer.  So never both, and closing
\* the last descriptor of one end frees the sleepers at the other.  Readers may
\* sleep on when a writer is killed at the full pipe.
SleepersMustWait ==
  \A p \in Proc : state[p] = "SLEEPING" =>
    /\ op[p] = "write" => Used = PIPESIZE /\ readopen
    /\ op[p] = "read" => writeopen /\ (~program.kills => Used = 0)

\* The counters, wrapping around, and the ring are a first-in-first-out queue.
Contents == [k \in 1..(IF freed THEN 0 ELSE Used) |-> data[Slot(nread + k - 1)]]
Queue == INSTANCE Fifo WITH q <- Contents, Capacity <- PIPESIZE

\* Pipes keep what Fifo promises.
IsFifo == Queue!Spec
=============================================================================
