-------------------------------- MODULE Log ---------------------------------
(***************************************************************************)
(* The redo log of kernel/filesystem/log.c over the buffer cache: file     *)
(* system calls run between begin_op and end_op and record the blocks they *)
(* change with log_write; the last one to end commits them all.  Every     *)
(* write of one block to the disk is a step, so a crash can fall between   *)
(* any two, and recovery itself can crash.                                 *)
(*                                                                         *)
(* The buffer cache appears as cache, the content a bread of a block would *)
(* return, and refcnt, the pins that keep a buffer from being recycled; a  *)
(* recycled buffer is read again from the disk.                            *)
(***************************************************************************)
EXTENDS Integers, Sequences, FiniteSets

CONSTANTS Proc, Block, Val,
          LOGSIZE, MAXOPBLOCKS,   \* param.h
          NLOG,                   \* sb.nlog: log blocks on the disk, header included
          OpBlocks,               \* most blocks one operation changes
          UINT,                   \* refcnt is an unsigned int: it counts modulo UINT
          MaxCrashes,             \* bound on the number of crashes
          PressureUntil           \* idle buffers are recycled until that many crashes

ASSUME LogAssumption ==
  /\ LOGSIZE \in Nat /\ MAXOPBLOCKS \in Nat /\ NLOG \in Nat /\ OpBlocks \in Nat
  /\ 0 < MAXOPBLOCKS /\ MAXOPBLOCKS <= LOGSIZE /\ OpBlocks <= MAXOPBLOCKS
  /\ UINT \in Nat /\ UINT > 2 /\ MaxCrashes \in Nat
  /\ PressureUntil \in Nat

ASSUME FiniteAssumption == IsFiniteSet(Proc) /\ IsFiniteSet(Block)

VARIABLES
  outstanding, committing,  \* log.outstanding, log.committing
  lh,                       \* log.lh.block[0 .. log.lh.n-1]
  pc,                       \* where each process is
  wrote,                    \* blocks the current operation of a process changed
  phase, tail,              \* the commit or the recovery in progress
  cache, refcnt,            \* struct buf: data, refcnt
  disk, logblk, head,       \* on disk: home blocks, log blocks, log header
  panicked, crashes

procvars == <<outstanding, committing, pc, wrote>>
diskvars == <<disk, logblk, head>>
vars == <<procvars, lh, phase, tail, cache, refcnt, diskvars, panicked, crashes>>

n == Len(lh)
Logged == {lh[i] : i \in 1..n}
LogSlots == 1..LOGSIZE

Increment(x) == (x + 1) % UINT
Decrement(x) == (x + UINT - 1) % UINT

\* Processes sleeping on &log try again.
wakeup == [p \in Proc |-> IF pc[p] = "sleep" THEN "begin" ELSE pc[p]]

Running == phase # "read_head" /\ phase # "recover" /\ phase # "clear" /\ ~panicked

-----------------------------------------------------------------------------
Init ==
  /\ outstanding = 0 /\ committing = FALSE
  /\ lh = << >>
  /\ pc = [p \in Proc |-> "idle"]
  /\ wrote = [p \in Proc |-> {}]
  /\ phase = "none" /\ tail = 0
  /\ disk \in [Block -> Val] /\ cache = disk
  /\ refcnt = [b \in Block |-> 0]
  /\ logblk \in {[i \in LogSlots |-> v] : v \in Val}
  /\ head = << >>
  /\ panicked = FALSE /\ crashes = 0

\* Mutant: the blocks reserved by running operations are not counted.
BeginIgnoringOthers(p) ==
  /\ Running /\ pc[p] \in {"idle", "begin"}
  /\ IF committing \/ n + MAXOPBLOCKS > LOGSIZE
     THEN /\ pc' = [pc EXCEPT ![p] = "sleep"]
          /\ UNCHANGED <<outstanding, wrote>>
     ELSE /\ outstanding' = outstanding + 1
          /\ pc' = [pc EXCEPT ![p] = "op"]
          /\ wrote' = [wrote EXCEPT ![p] = {}]
  /\ UNCHANGED <<committing, lh, phase, tail, cache, refcnt, diskvars, panicked, crashes>>

begin_op(p) ==
  /\ Running /\ pc[p] \in {"idle", "begin"}
  /\ IF committing \/ n + (outstanding + 1) * MAXOPBLOCKS > LOGSIZE
     THEN /\ pc' = [pc EXCEPT ![p] = "sleep"]
          /\ UNCHANGED <<outstanding, wrote>>
     ELSE /\ outstanding' = outstanding + 1
          /\ pc' = [pc EXCEPT ![p] = "op"]
          /\ wrote' = [wrote EXCEPT ![p] = {}]
  /\ UNCHANGED <<committing, lh, phase, tail, cache, refcnt, diskvars, panicked, crashes>>

\* bread, the change of b's data, log_write and brelse: the buffer is locked
\* throughout.
log_write(p, b, v) ==
  /\ Running /\ pc[p] = "op"
  /\ Cardinality(wrote[p] \cup {b}) <= OpBlocks
  /\ IF n >= LOGSIZE \/ n >= NLOG - 1
     THEN panicked' = TRUE /\ UNCHANGED <<lh, cache, refcnt, wrote>>
     ELSE /\ cache' = [cache EXCEPT ![b] = v]
          /\ wrote' = [wrote EXCEPT ![p] = @ \cup {b}]
          /\ IF b \in Logged
             THEN UNCHANGED <<lh, refcnt>>
             ELSE /\ lh' = Append(lh, b)
                  /\ refcnt' = [refcnt EXCEPT ![b] = Increment(@)]
          /\ UNCHANGED panicked
  /\ UNCHANGED <<outstanding, committing, pc, phase, tail, diskvars, crashes>>

end_op(p) ==
  /\ Running /\ pc[p] = "op"
  /\ outstanding' = outstanding - 1
  /\ IF outstanding' = 0
     THEN /\ committing' = TRUE
          /\ pc' = [pc EXCEPT ![p] = "commit"]
          /\ phase' = IF n > 0 THEN "write_log" ELSE "end"
     ELSE /\ pc' = [wakeup EXCEPT ![p] = "idle"]
          /\ UNCHANGED <<committing, phase>>
  /\ wrote' = [wrote EXCEPT ![p] = {}]
  /\ tail' = 0
  /\ UNCHANGED <<lh, cache, refcnt, diskvars, panicked, crashes>>

\* One block of the transaction is copied from the cache to the log.
write_log ==
  /\ Running /\ phase = "write_log"
  /\ logblk' = [logblk EXCEPT ![tail + 1] = cache[lh[tail + 1]]]
  /\ IF tail + 1 < n THEN tail' = tail + 1 /\ UNCHANGED phase
                     ELSE tail' = 0 /\ phase' = "write_head"
  /\ UNCHANGED <<procvars, lh, cache, refcnt, disk, head, panicked, crashes>>

\* The header on the disk becomes the one in memory.
write_head(from, to) ==
  /\ ~panicked /\ phase = from
  /\ head' = lh
  /\ phase' = to /\ tail' = 0
  /\ UNCHANGED <<procvars, cache, refcnt, disk, logblk, panicked, crashes>>

\* One block of the transaction is copied from the log to its home and
\* unpinned; recovery does the same for blocks nobody pinned.
install_trans(from, to) ==
  /\ ~panicked /\ phase = from /\ tail < n
  /\ LET b == lh[tail + 1] IN
       /\ cache' = [cache EXCEPT ![b] = logblk[tail + 1]]
       /\ disk' = [disk EXCEPT ![b] = logblk[tail + 1]]
       /\ refcnt' = [refcnt EXCEPT ![b] = Decrement(@)]
  /\ IF tail + 1 < n
     THEN tail' = tail + 1 /\ UNCHANGED <<phase, lh>>
     ELSE tail' = 0 /\ phase' = to /\ lh' = << >>      \* log.lh.n = 0
  /\ UNCHANGED <<procvars, logblk, head, panicked, crashes>>

\* Mutant: the end of a commit wakes nobody.
FinishSilent(p) ==
  /\ Running /\ phase = "end" /\ pc[p] = "commit"
  /\ committing' = FALSE
  /\ pc' = [pc EXCEPT ![p] = "idle"]
  /\ phase' = "none"
  /\ UNCHANGED <<outstanding, wrote, lh, tail, cache, refcnt, diskvars, panicked, crashes>>

\* Mutant: committing is not reset.
FinishStillCommitting(p) ==
  /\ Running /\ phase = "end" /\ pc[p] = "commit"
  /\ pc' = [wakeup EXCEPT ![p] = "idle"]
  /\ phase' = "none"
  /\ UNCHANGED <<outstanding, committing, wrote, lh, tail, cache, refcnt, diskvars, panicked, crashes>>

\* end_op after commit().
finish(p) ==
  /\ Running /\ phase = "end" /\ pc[p] = "commit"
  /\ committing' = FALSE
  /\ pc' = [wakeup EXCEPT ![p] = "idle"]
  /\ phase' = "none"
  /\ UNCHANGED <<outstanding, wrote, lh, tail, cache, refcnt, diskvars, panicked, crashes>>

\* Mutant: blocks go home without the header that commits them.
CommitWithoutHeader ==
  \/ write_log
  \/ install_trans("write_head", "erase")
  \/ write_head("erase", "end") /\ UNCHANGED lh

commit ==
  \/ write_log
  \/ write_head("write_head", "install") /\ UNCHANGED lh
  \/ install_trans("install", "erase")
  \/ write_head("erase", "end") /\ UNCHANGED lh

-----------------------------------------------------------------------------
(* Crash and recovery. *)

read_head ==
  /\ phase = "read_head"
  /\ lh' = head
  /\ phase' = IF head = << >> THEN "clear" ELSE "recover"
  /\ tail' = 0
  /\ UNCHANGED <<procvars, cache, refcnt, diskvars, panicked, crashes>>

recover_from_log ==
  \/ read_head
  \/ install_trans("recover", "clear")
  \/ write_head("clear", "none") /\ UNCHANGED lh

Crash ==
  /\ crashes < MaxCrashes /\ ~panicked
  /\ crashes' = crashes + 1
  /\ outstanding' = 0 /\ committing' = FALSE /\ lh' = << >>
  /\ pc' = [p \in Proc |-> "idle"] /\ wrote' = [p \in Proc |-> {}]
  /\ phase' = "read_head" /\ tail' = 0
  /\ cache' = disk /\ refcnt' = [b \in Block |-> 0]
  /\ UNCHANGED <<diskvars, panicked>>

\* A buffer nobody references is recycled; the next bread reads the disk.
Recycle(b) ==
  /\ crashes < PressureUntil /\ refcnt[b] = 0
  /\ cache' = [cache EXCEPT ![b] = disk[b]]
  /\ UNCHANGED <<procvars, lh, phase, tail, refcnt, diskvars, panicked, crashes>>

ProcStep(p) ==
  \/ begin_op(p)
  \/ end_op(p)
  \/ finish(p)
  \/ \E b \in Block, v \in Val : log_write(p, b, v)

Next ==
  \/ \E p \in Proc : ProcStep(p)
  \/ commit
  \/ recover_from_log
  \/ Crash
  \/ \E b \in Block : Recycle(b)

Spec == Init /\ [][Next]_vars

\* A running operation ends, a commit or a recovery goes on: disk requests
\* complete and the scheduler runs every runnable process.
Fairness ==
  /\ \A p \in Proc : WF_vars(end_op(p)) /\ WF_vars(finish(p))
  /\ WF_vars(commit) /\ WF_vars(recover_from_log)

FairSpec == Spec /\ Fairness

-----------------------------------------------------------------------------
(* Correctness. *)

Phases == {"none", "write_log", "write_head", "install", "erase", "end",
           "read_head", "recover", "clear"}

\* log.lh, the header on the disk and the reference counts keep their types.
TypeOK ==
  /\ outstanding \in Nat /\ committing \in BOOLEAN
  /\ lh \in Seq(Block) /\ head \in Seq(Block)
  /\ pc \in [Proc -> {"idle", "begin", "sleep", "op", "commit"}]
  /\ wrote \in [Proc -> SUBSET Block]
  /\ phase \in Phases /\ tail \in Nat
  /\ cache \in [Block -> Val] /\ disk \in [Block -> Val]
  /\ logblk \in [LogSlots -> Val]
  /\ refcnt \in [Block -> 0..UINT-1]
  /\ panicked \in BOOLEAN /\ crashes \in Nat

\* What begin_op reserves is enough: log_write never panics with "too big a
\* transaction".
NoPanic == ~panicked

\* No lost wakeup: a process sleeps on &log only while begin_op would still
\* have to wait; whoever makes room or ends the commit wakes it.
NoOverslept ==
  \A p \in Proc : pc[p] = "sleep" =>
    committing \/ n + (outstanding + 1) * MAXOPBLOCKS > LOGSIZE

\* A block that is in the current transaction and not yet home is pinned: its
\* buffer, the only place that holds the change, is not recycled.
DirtyIsPinned ==
  \A i \in 1..n : phase \in {"none", "write_log", "write_head"} => refcnt[lh[i]] # 0

\* What recovery would make of the disk as it is now.
Recovered ==
  [b \in Block |-> IF \E i \in 1..Len(head) : head[i] = b
                   THEN logblk[CHOOSE i \in 1..Len(head) : head[i] = b]
                   ELSE disk[b]]

\* What a read returns: while the log is replayed, nobody reads.
View == IF phase \in {"read_head", "recover", "clear"} THEN Recovered ELSE cache

Abstract == INSTANCE AtomicDisk
              WITH current <- View, stable <- Recovered,
                   ops <- {p \in Proc : pc[p] = "op"}

\* The log implements atomic group commit: every crash, also one during a
\* commit or during recovery, leaves the image of a moment at which no
\* operation was running, with every committed change in it.
Atomic == Abstract!ASpec

\* A process that waits in begin_op is woken again.
SleepersWake == \A p \in Proc : pc[p] = "sleep" ~> pc[p] # "sleep"
=============================================================================
