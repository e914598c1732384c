----------------------------- MODULE AtomicDisk -----------------------------
(***************************************************************************)
(* What the log promises to the file system above it: blocks change in     *)
(* memory while operations run, and the memory image becomes stable as a   *)
(* whole at a moment when no operation is in progress.  A crash loses      *)
(* everything since the last such moment and nothing before it.            *)
(***************************************************************************)
CONSTANTS Proc, Block, Val

VARIABLES current,   \* what the system reads now
          stable,    \* what it reads after a crash
          ops        \* operations between begin_op and end_op

avars == <<current, stable, ops>>

AInit ==
  /\ stable \in [Block -> Val] /\ current = stable
  /\ ops = {}

Begin(p) == p \notin ops /\ ops' = ops \cup {p} /\ UNCHANGED <<current, stable>>

Write(p, b, v) ==
  /\ p \in ops
  /\ current' = [current EXCEPT ![b] = v]
  /\ UNCHANGED <<stable, ops>>

End(p) == p \in ops /\ ops' = ops \ {p} /\ UNCHANGED <<current, stable>>

MakeStable == ops = {} /\ stable' = current /\ UNCHANGED <<current, ops>>

LoseVolatile == current' = stable /\ ops' = {} /\ UNCHANGED stable

ANext ==
  \/ \E p \in Proc : Begin(p) \/ End(p) \/ \E b \in Block, v \in Val : Write(p, b, v)
  \/ MakeStable
  \/ LoseVolatile

ASpec == AInit /\ [][ANext]_avars
=============================================================================
