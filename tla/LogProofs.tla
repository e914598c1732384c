------------------------------ MODULE LogProofs -----------------------------
(***************************************************************************)
(* Proofs about Log for any number of processes and blocks, any log size   *)
(* and any number of crashes.                                              *)
(*                                                                         *)
(* Room in the log: begin_op reserves MAXOPBLOCKS units for an operation.  *)
(* The units are pairs <<p, k>>; an operation that changed j blocks has    *)
(* used up the units 1..j, and what is logged plus the units left never    *)
(* exceeds LOGSIZE.                                                        *)
(***************************************************************************)
EXTENDS Log, FiniteSetTheorems, TLAPS

Committing == {"write_log", "write_head", "install", "erase", "end"}
Recovering == {"read_head", "recover", "clear"}

Ops == {p \in Proc : pc[p] = "op"}
UnitsLeft(o, w) == {u \in o \X (1..MAXOPBLOCKS) : u[2] > Cardinality(w[u[1]])}
Unused == UnitsLeft(Ops, wrote)

\* Who may run in which phase.
Control ==
  /\ committing <=> phase \in Committing
  /\ phase \in Committing \cup Recovering => Ops = {}
  /\ phase \in Recovering => \A p \in Proc : pc[p] = "idle"
  /\ phase \in {"write_log", "write_head", "install", "recover"} => tail < n
  /\ outstanding = Cardinality(Ops)
  /\ Len(head) <= LOGSIZE

Room ==
  /\ \A p \in Ops : wrote[p] \subseteq Logged /\ IsFiniteSet(wrote[p])
  /\ n + Cardinality(Unused) <= LOGSIZE

SpaceInv == TypeOK /\ Control /\ NoOverslept /\ Room

-----------------------------------------------------------------------------
\* At most MAXOPBLOCKS units are left for each of a set of operations.
LEMMA UnitsBound ==
  ASSUME NEW o \in SUBSET Proc, NEW w
  PROVE  /\ IsFiniteSet(o) /\ Cardinality(o) \in Nat
         /\ IsFiniteSet(UnitsLeft(o, w)) /\ Cardinality(UnitsLeft(o, w)) \in Nat
         /\ Cardinality(UnitsLeft(o, w)) <= Cardinality(o) * MAXOPBLOCKS
<1>1. IsFiniteSet(1..MAXOPBLOCKS) /\ Cardinality(1..MAXOPBLOCKS) = MAXOPBLOCKS
  BY FS_Interval, LogAssumption
<1>2. IsFiniteSet(o) /\ Cardinality(o) \in Nat
  BY FS_Subset, FS_CardinalityType, FiniteAssumption
<1>3. /\ IsFiniteSet(o \X (1..MAXOPBLOCKS))
      /\ Cardinality(o \X (1..MAXOPBLOCKS)) = Cardinality(o) * MAXOPBLOCKS
  BY <1>1, <1>2, FS_Product
<1>4. UnitsLeft(o, w) \in SUBSET (o \X (1..MAXOPBLOCKS))
  BY DEF UnitsLeft
<1>5. /\ IsFiniteSet(UnitsLeft(o, w))
      /\ Cardinality(UnitsLeft(o, w)) <= Cardinality(o \X (1..MAXOPBLOCKS))
  BY <1>3, <1>4, FS_Subset
<1> QED BY <1>2, <1>3, <1>5, FS_CardinalityType

\* At the start the log is empty and nobody runs.
LEMMA SpaceInit == Init => SpaceInv
<1> SUFFICES ASSUME Init PROVE SpaceInv
  OBVIOUS
<1>1. TypeOK
  <2>1. logblk \in [LogSlots -> Val] /\ cache \in [Block -> Val] /\ disk \in [Block -> Val]
    BY DEF Init
  <2>2. refcnt \in [Block -> 0..UINT-1]
    BY LogAssumption DEF Init
  <2>3. /\ lh \in Seq(Block) /\ head \in Seq(Block) /\ phase \in Phases
        /\ outstanding \in Nat /\ tail \in Nat /\ crashes \in Nat
    BY DEF Init, Phases
  <2>4. /\ committing \in BOOLEAN /\ panicked \in BOOLEAN
        /\ pc \in [Proc -> {"idle", "begin", "sleep", "op", "commit"}]
        /\ wrote \in [Proc -> SUBSET Block]
    BY DEF Init
  <2> QED BY <2>1, <2>2, <2>3, <2>4 DEF TypeOK
<1>2. Ops = {} /\ Unused = {}
  BY DEF Init, Ops, UnitsLeft, Unused
<1>3. n = 0 /\ Len(head) = 0 /\ Cardinality({}) = 0
  BY FS_EmptySet DEF Init, n
<1>4. Control
  BY <1>2, <1>3, LogAssumption DEF Init, Control, Committing, Recovering
<1>5. Room /\ NoOverslept
  BY <1>2, <1>3, LogAssumption DEF Init, Room, NoOverslept
<1> QED BY <1>1, <1>4, <1>5 DEF SpaceInv

\* Steps that leave the processes and the size of the transaction alone.
LEMMA SpaceFrame ==
  ASSUME SpaceInv, TypeOK', Control', lh' = lh,
         UNCHANGED <<pc, wrote, outstanding, committing>>
  PROVE  SpaceInv'
<1>1. NoOverslept'
  BY DEF SpaceInv, NoOverslept, n
<1>2. Ops' = Ops /\ Unused' = Unused
  BY DEF Ops, Unused, UnitsLeft
<1>3. Room'
  BY <1>2 DEF SpaceInv, Room, Logged, n
<1> QED BY <1>1, <1>3 DEF SpaceInv

\* begin_op: a sleeper has reason to sleep; a new operation gets
\* MAXOPBLOCKS units that were free.
LEMMA SpaceBegin ==
  ASSUME SpaceInv, NEW p \in Proc, begin_op(p)
  PROVE  SpaceInv'
<1>1. TypeOK /\ Control /\ NoOverslept /\ Room
  BY DEF SpaceInv
<1>2. n \in Nat /\ outstanding \in Nat /\ n' = n
  BY <1>1 DEF TypeOK, n, begin_op
<1>3. CASE committing \/ n + (outstanding + 1) * MAXOPBLOCKS > LOGSIZE
  <2>1. /\ pc' = [pc EXCEPT ![p] = "sleep"] /\ pc[p] \in {"idle", "begin"} /\ Running
        /\ UNCHANGED <<outstanding, wrote, committing, lh, phase, tail, cache, refcnt, disk,
                       logblk, head, panicked, crashes>>
    BY <1>3 DEF begin_op, diskvars
  <2>2. TypeOK'
    BY <1>1, <2>1 DEF TypeOK
  <2>3. Ops' = Ops /\ Unused' = Unused
    BY <1>1, <2>1 DEF TypeOK, Ops, Unused, UnitsLeft
  <2>4. Control'
    BY <1>1, <2>1, <2>3 DEF Control, Running, Recovering, n
  <2>5. NoOverslept'
    BY <1>1, <1>3, <2>1 DEF NoOverslept, TypeOK, n
  <2>6. Room'
    BY <1>1, <2>1, <2>3 DEF Room, Logged, n
  <2> QED BY <2>2, <2>4, <2>5, <2>6 DEF SpaceInv
<1>4. CASE ~(committing \/ n + (outstanding + 1) * MAXOPBLOCKS > LOGSIZE)
  <2>1. /\ outstanding' = outstanding + 1
        /\ pc' = [pc EXCEPT ![p] = "op"] /\ wrote' = [wrote EXCEPT ![p] = {}]
        /\ pc[p] \in {"idle", "begin"} /\ Running
        /\ UNCHANGED <<committing, lh, phase, tail, cache, refcnt, disk,
                       logblk, head, panicked, crashes>>
    BY <1>4 DEF begin_op, diskvars
  <2>2. TypeOK'
    BY <1>1, <2>1 DEF TypeOK
  <2>3. Ops' = Ops \cup {p} /\ p \notin Ops
    BY <1>1, <2>1 DEF TypeOK, Ops
  <2>4. outstanding' = Cardinality(Ops')
    BY <1>1, <2>1, <2>3, UnitsBound, FS_AddElement DEF Control, Ops
  <2>5. phase \notin Committing \cup Recovering
    BY <1>1, <1>4, <2>1 DEF Control, Running, Recovering
  <2>6. Control'
    BY <1>1, <2>1, <2>4, <2>5 DEF Control, Recovering, n
  <2>7. NoOverslept'
    <3> SUFFICES ASSUME NEW q \in Proc, pc'[q] = "sleep"
                 PROVE  committing' \/ n' + (outstanding' + 1) * MAXOPBLOCKS > LOGSIZE
      BY DEF NoOverslept
    <3>1. pc[q] = "sleep"
      BY <1>1, <2>1 DEF TypeOK
    <3>2. n + (outstanding + 1) * MAXOPBLOCKS > LOGSIZE
      BY <1>1, <1>4, <3>1 DEF NoOverslept
    <3> QED BY <1>4, <3>2
  <2>8. Cardinality(Unused') <= (outstanding + 1) * MAXOPBLOCKS
    <3>1. Cardinality(UnitsLeft(Ops', wrote')) <= Cardinality(Ops') * MAXOPBLOCKS
      BY UnitsBound DEF Ops
    <3> QED BY <3>1, <2>1, <2>4 DEF Unused, UnitsLeft
  <2>9. Room'
    <3>1. n' + Cardinality(Unused') <= LOGSIZE
      <4>1. Cardinality(Unused') \in Nat
        BY UnitsBound DEF Ops, Unused, UnitsLeft
      <4>2. n + (outstanding + 1) * MAXOPBLOCKS <= LOGSIZE
        BY <1>2, <1>4, LogAssumption
      <4>3. (outstanding + 1) * MAXOPBLOCKS \in Nat
        BY <1>2, LogAssumption
      <4> QED BY <4>1, <4>2, <4>3, <1>2, <2>8, LogAssumption
    <3>2. \A q \in Ops' : wrote'[q] \subseteq Logged' /\ IsFiniteSet(wrote'[q])
      BY <1>1, <2>1, <2>3, FS_EmptySet DEF Room, TypeOK, Logged, n, Ops
    <3> QED BY <3>1, <3>2 DEF Room
  <2> QED BY <2>2, <2>6, <2>7, <2>9 DEF SpaceInv
<1> QED BY <1>3, <1>4

\* What Append does.
LEMMA AppendFacts ==
  ASSUME NEW S, NEW s \in Seq(S), NEW e \in S
  PROVE  /\ Append(s, e) \in Seq(S) /\ Len(Append(s, e)) = Len(s) + 1
         /\ Append(s, e)[Len(s) + 1] = e
         /\ \A i \in 1..Len(s) : Append(s, e)[i] = s[i]
OBVIOUS

\* log_write: a newly logged block uses up a unit of its operation.
LEMMA SpaceWrite ==
  ASSUME SpaceInv, NEW p \in Proc, NEW b \in Block, NEW v \in Val, log_write(p, b, v)
  PROVE  SpaceInv'
<1>1. TypeOK /\ Control /\ NoOverslept /\ Room
  BY DEF SpaceInv
<1>2. /\ Running /\ pc[p] = "op" /\ Cardinality(wrote[p] \cup {b}) <= OpBlocks
      /\ UNCHANGED <<outstanding, committing, pc, phase, tail, disk, logblk, head, crashes>>
  BY DEF log_write, diskvars
<1>3. CASE n >= LOGSIZE \/ n >= NLOG - 1
  <2>1. panicked' = TRUE /\ UNCHANGED <<lh, cache, refcnt, wrote>>
    BY <1>3 DEF log_write
  <2>2. TypeOK' /\ Control'
    BY <1>1, <1>2, <2>1 DEF TypeOK, Control, Ops, n
  <2> QED BY <1>2, <2>1, <2>2, SpaceFrame
<1>4. CASE ~(n >= LOGSIZE \/ n >= NLOG - 1)
  <2>1. /\ cache' = [cache EXCEPT ![b] = v] /\ wrote' = [wrote EXCEPT ![p] = @ \cup {b}]
        /\ UNCHANGED panicked
        /\ b \in Logged => UNCHANGED <<lh, refcnt>>
        /\ b \notin Logged => /\ lh' = Append(lh, b)
                              /\ refcnt' = [refcnt EXCEPT ![b] = Increment(@)]
    BY <1>4 DEF log_write
  <2>2. TypeOK'
    <3>1. refcnt' \in [Block -> 0..UINT-1]
      <4>1. \A x \in 0..UINT-1 : Increment(x) \in 0..UINT-1
        BY LogAssumption DEF Increment
      <4>2. refcnt \in [Block -> 0..UINT-1]
        BY <1>1 DEF TypeOK
      <4>3. CASE b \in Logged
        BY <4>2, <4>3, <2>1
      <4>4. CASE b \notin Logged
        <5>1. refcnt[b] \in 0..UINT-1
          BY <4>2
        <5>2. refcnt' = [refcnt EXCEPT ![b] = Increment(refcnt[b])]
          BY <4>4, <2>1
        <5> QED BY <4>1, <4>2, <5>1, <5>2
      <4> QED BY <4>3, <4>4
    <3>2. lh' \in Seq(Block)
      <4>1. lh \in Seq(Block)
        BY <1>1 DEF TypeOK
      <4>2. CASE b \in Logged
        BY <4>1, <4>2, <2>1
      <4>3. CASE b \notin Logged
        BY <4>1, <4>3, <2>1, AppendFacts
      <4> QED BY <4>2, <4>3
    <3> QED BY <1>1, <1>2, <2>1, <3>1, <3>2 DEF TypeOK
  <2>3. Ops' = Ops /\ p \in Ops
    BY <1>2 DEF Ops
  <2>4. n \in Nat /\ n' \in Nat /\ n' >= n /\ Logged \subseteq Logged' /\ b \in Logged'
    <3>1. CASE b \in Logged
      BY <1>1, <2>1, <3>1 DEF n, Logged, TypeOK
    <3>2. CASE b \notin Logged
      <4>1. /\ lh' = Append(lh, b) /\ Len(lh') = Len(lh) + 1 /\ lh'[Len(lh) + 1] = b
            /\ \A i \in 1..Len(lh) : lh'[i] = lh[i]
        <5>1. lh \in Seq(Block)
          BY <1>1 DEF TypeOK
        <5>2. lh' = Append(lh, b)
          BY <2>1, <3>2
        <5> QED BY <5>1, <5>2, AppendFacts
      <4>2. Len(lh) \in Nat
        BY <1>1 DEF TypeOK
      <4> QED BY <4>1, <4>2 DEF n, Logged
    <3> QED BY <3>1, <3>2
  <2>5. phase = "none"
    BY <1>1, <2>3 DEF Control, TypeOK, Phases, Committing, Recovering
  <2>6. Control'
    BY <1>1, <1>2, <2>3, <2>5 DEF Control, Committing, Recovering
  <2>7. NoOverslept'
    <3> SUFFICES ASSUME NEW q \in Proc, pc[q] = "sleep", ~committing
                 PROVE  n' + (outstanding + 1) * MAXOPBLOCKS > LOGSIZE
      BY <1>2 DEF NoOverslept
    <3>1. n + (outstanding + 1) * MAXOPBLOCKS > LOGSIZE
      BY <1>1 DEF NoOverslept
    <3>2. (outstanding + 1) * MAXOPBLOCKS \in Nat
      BY <1>1, LogAssumption DEF TypeOK
    <3> QED BY <3>1, <3>2, <2>4, LogAssumption
  <2>8. \A q \in Ops' : wrote'[q] \subseteq Logged' /\ IsFiniteSet(wrote'[q])
    BY <1>1, <2>1, <2>3, <2>4, FS_AddElement DEF Room, TypeOK, Ops
  <2>9. n' + Cardinality(Unused') <= LOGSIZE
    <3>1. /\ IsFiniteSet(wrote[p]) /\ wrote[p] \subseteq Logged
          /\ n + Cardinality(Unused) <= LOGSIZE
      BY <1>1, <2>3 DEF Room
    <3>2. /\ Cardinality(wrote[p]) \in Nat
          /\ Cardinality(wrote'[p]) = IF b \in wrote[p] THEN Cardinality(wrote[p])
                                                      ELSE Cardinality(wrote[p]) + 1
      BY <1>1, <2>1, <3>1, FS_AddElement, FS_CardinalityType DEF TypeOK
    <3>3. \A q \in Proc \ {p} : wrote'[q] = wrote[q]
      BY <1>1, <2>1 DEF TypeOK
    <3>4. Unused' \subseteq Unused
      <4> SUFFICES ASSUME NEW u \in Unused' PROVE u \in Unused
        OBVIOUS
      <4>1. /\ u \in Ops \X (1..MAXOPBLOCKS) /\ u[1] \in Proc /\ u[2] \in Nat
            /\ u[2] > Cardinality(wrote'[u[1]])
        BY <2>3 DEF Unused, UnitsLeft, Ops
      <4>2. u[2] > Cardinality(wrote[u[1]])
        BY <4>1, <3>2, <3>3
      <4> QED BY <4>1, <4>2 DEF Unused, UnitsLeft
    <3>5. /\ IsFiniteSet(Unused) /\ Cardinality(Unused) \in Nat
          /\ IsFiniteSet(Unused') /\ Cardinality(Unused') \in Nat
      BY UnitsBound DEF Ops, Unused, UnitsLeft
    <3>6. CASE b \in Logged
      <4>1. n' = n
        BY <2>1, <3>6 DEF n
      <4>2. Cardinality(Unused') <= Cardinality(Unused)
        BY <3>4, <3>5, FS_Subset
      <4> QED BY <4>1, <4>2, <3>1, <3>5, <2>4, LogAssumption
    <3>7. CASE b \notin Logged
      <4> DEFINE u == <<p, Cardinality(wrote[p]) + 1>>
      <4>1. n' = n + 1 /\ b \notin wrote[p]
        BY <1>1, <2>1, <3>1, <3>7 DEF n, TypeOK
      <4>2. Cardinality(wrote'[p]) = Cardinality(wrote[p]) + 1
        BY <4>1, <3>2
      <4>3. Cardinality(wrote[p]) + 1 <= MAXOPBLOCKS
        BY <4>2, <1>2, <1>1, <2>1, <3>2, LogAssumption DEF TypeOK
      <4>4. u \in Unused
        BY <4>3, <2>3, <3>2, LogAssumption DEF Unused, UnitsLeft
      <4>5. u \notin Unused'
        BY <4>2, <3>2 DEF Unused, UnitsLeft
      <4> HIDE DEF u
      <4>6. Unused' \in SUBSET (Unused \ {u})
        BY <4>5, <3>4
      <4>7. IsFiniteSet(Unused \ {u}) /\ Cardinality(Unused \ {u}) = Cardinality(Unused) - 1
        BY <4>4, <3>5, FS_RemoveElement
      <4>8. Cardinality(Unused') <= Cardinality(Unused \ {u})
        BY <4>6, <4>7, FS_Subset
      <4> QED BY <4>1, <4>7, <4>8, <3>1, <3>5, <2>4, LogAssumption
    <3> QED BY <3>6, <3>7
  <2> QED BY <2>2, <2>6, <2>7, <2>8, <2>9 DEF SpaceInv, Room
<1> QED BY <1>3, <1>4

\* Fewer running operations have fewer units left.
LEMMA UnitsShrink ==
  ASSUME NEW o \in SUBSET Proc, NEW o2 \in SUBSET o, NEW w, NEW w2,
         \A q \in o2 : w2[q] = w[q]
  PROVE  Cardinality(UnitsLeft(o2, w2)) <= Cardinality(UnitsLeft(o, w))
<1>1. UnitsLeft(o2, w2) \in SUBSET UnitsLeft(o, w)
  BY DEF UnitsLeft
<1> QED BY <1>1, UnitsBound, FS_Subset

\* end_op: the last operation starts the commit, any other wakes the sleepers.
LEMMA SpaceEnd ==
  ASSUME SpaceInv, NEW p \in Proc, end_op(p)
  PROVE  SpaceInv'
<1>1. TypeOK /\ Control /\ NoOverslept /\ Room
  BY DEF SpaceInv
<1>2. /\ Running /\ pc[p] = "op" /\ outstanding' = outstanding - 1
      /\ wrote' = [wrote EXCEPT ![p] = {}] /\ tail' = 0
      /\ UNCHANGED <<lh, cache, refcnt, disk, logblk, head, panicked, crashes>>
  BY DEF end_op, diskvars
<1>3. /\ outstanding' = 0 => /\ committing' = TRUE /\ pc' = [pc EXCEPT ![p] = "commit"]
                             /\ phase' = IF n > 0 THEN "write_log" ELSE "end"
      /\ outstanding' # 0 => /\ pc' = [wakeup EXCEPT ![p] = "idle"]
                             /\ UNCHANGED <<committing, phase>>
  BY DEF end_op
<1>4. p \in Ops /\ phase = "none" /\ ~committing
  BY <1>1, <1>2 DEF Ops, Control, TypeOK, Phases, Committing, Recovering
<1>5. Ops' = Ops \ {p}
  BY <1>1, <1>2, <1>3 DEF Ops, TypeOK, wakeup
<1>6. /\ outstanding' = Cardinality(Ops') /\ outstanding' \in Nat
      /\ outstanding' = 0 <=> Ops' = {}
  <2>1. IsFiniteSet(Ops) /\ Cardinality(Ops') = Cardinality(Ops) - 1
    BY <1>4, <1>5, UnitsBound, FS_RemoveElement DEF Ops
  <2>2. IsFiniteSet(Ops') /\ Cardinality(Ops') \in Nat
    BY UnitsBound DEF Ops
  <2> QED BY <2>1, <2>2, <1>1, <1>2, FS_EmptySet DEF Control
<1>7. n' = n /\ Logged' = Logged /\ n \in Nat
  BY <1>1, <1>2 DEF n, Logged, TypeOK
<1>8. TypeOK'
  BY <1>1, <1>2, <1>3, <1>6 DEF TypeOK, Phases, wakeup
<1>9. Control'
  BY <1>1, <1>2, <1>3, <1>4, <1>6, <1>7 DEF Control, Committing, Recovering
<1>10. NoOverslept'
  BY <1>1, <1>3 DEF NoOverslept, TypeOK, wakeup
<1>11. Room'
  <2>1. \A q \in Ops' : wrote'[q] = wrote[q]
    BY <1>1, <1>2, <1>5 DEF TypeOK, Ops
  <2>2. Cardinality(Unused') <= Cardinality(Unused)
    <3>1. Cardinality(UnitsLeft(Ops', wrote')) <= Cardinality(UnitsLeft(Ops, wrote))
      BY <1>5, <2>1, UnitsShrink DEF Ops
    <3> QED BY <3>1 DEF Unused, UnitsLeft
  <2>3. Cardinality(Unused) \in Nat /\ Cardinality(Unused') \in Nat
    BY UnitsBound DEF Ops, Unused, UnitsLeft
  <2>4. n' + Cardinality(Unused') <= LOGSIZE
    BY <1>1, <1>7, <2>2, <2>3, LogAssumption DEF Room
  <2> QED BY <1>1, <1>5, <1>7, <2>1, <2>4 DEF Room
<1> QED BY <1>8, <1>9, <1>10, <1>11 DEF SpaceInv

\* The log in memory, hence the header, fits into the log.
LEMMA LogFits ==
  ASSUME SpaceInv
  PROVE  n \in Nat /\ n <= LOGSIZE
<1>1. n \in Nat /\ n + Cardinality(Unused) <= LOGSIZE
  BY DEF SpaceInv, TypeOK, Room, n
<1>2. Cardinality(Unused) \in Nat
  BY UnitsBound DEF Ops, Unused
<1> QED BY <1>1, <1>2, LogAssumption

\* Steps that empty or reload the log while no operation runs.
LEMMA SpaceIdle ==
  ASSUME SpaceInv, TypeOK', Control', Ops' = {}, n' <= LOGSIZE,
         committing' \/ \A p \in Proc : pc'[p] # "sleep"
  PROVE  SpaceInv'
<1>1. NoOverslept'
  BY DEF NoOverslept
<1>2. Unused' = {}
  BY DEF Unused, UnitsLeft
<1>3. n' + Cardinality(Unused') <= LOGSIZE
  BY <1>2, FS_EmptySet, LogAssumption DEF TypeOK, n
<1>4. Room'
  BY <1>3 DEF Room
<1> QED BY <1>1, <1>4 DEF SpaceInv

\* The writes of commit() and of recovery keep the phases in order.
LEMMA SpaceDisk ==
  ASSUME SpaceInv, commit \/ recover_from_log
  PROVE  SpaceInv'
<1>1. TypeOK /\ Control
  BY DEF SpaceInv
<1>2. UNCHANGED <<outstanding, committing, pc, wrote>> /\ Ops' = Ops
  BY DEF commit, recover_from_log, write_log, write_head, install_trans, read_head,
         procvars, Ops
<1>3. n \in Nat /\ n <= LOGSIZE
  BY LogFits
<1>4. ASSUME write_log PROVE SpaceInv'
  <2>1. tail < n /\ tail + 1 \in LogSlots /\ tail + 1 \in 1..n
    BY <1>1, <1>3, <1>4, LogAssumption DEF write_log, Control, TypeOK, LogSlots
  <2>2. cache[lh[tail + 1]] \in Val
    BY <1>1, <2>1 DEF TypeOK, n
  <2>3. TypeOK'
    BY <1>1, <1>4, <2>1, <2>2 DEF write_log, TypeOK, Phases, procvars
  <2>4. Control'
    BY <1>1, <1>2, <1>3, <1>4, <2>1 DEF write_log, Control, Committing, Recovering, n, TypeOK
  <2> QED BY <1>2, <1>4, <2>3, <2>4, SpaceFrame DEF write_log
<1>5. ASSUME NEW from, NEW to, write_head(from, to), UNCHANGED lh,
             <<from, to>> \in {<<"write_head", "install">>, <<"erase", "end">>, <<"clear", "none">>}
      PROVE  SpaceInv'
  <2>1. TypeOK'
    BY <1>1, <1>5 DEF write_head, TypeOK, Phases, procvars
  <2>2. Control'
    BY <1>1, <1>2, <1>3, <1>5 DEF write_head, Control, Committing, Recovering, n, TypeOK
  <2> QED BY <1>2, <1>5, <2>1, <2>2, SpaceFrame DEF write_head
<1>6. ASSUME NEW from, NEW to, install_trans(from, to),
             <<from, to>> \in {<<"install", "erase">>, <<"recover", "clear">>}
      PROVE  SpaceInv'
  <2>1. tail + 1 \in 1..n /\ tail + 1 \in LogSlots /\ lh[tail + 1] \in Block
    BY <1>1, <1>3, <1>6, LogAssumption DEF install_trans, TypeOK, LogSlots, n
  <2>2. refcnt' \in [Block -> 0..UINT-1]
    <3>1. \A x \in 0..UINT-1 : Decrement(x) \in 0..UINT-1
      BY LogAssumption DEF Decrement
    <3>2. refcnt[lh[tail + 1]] \in 0..UINT-1
      BY <1>1, <2>1 DEF TypeOK
    <3>3. refcnt' = [refcnt EXCEPT ![lh[tail + 1]] = Decrement(refcnt[lh[tail + 1]])]
      BY <1>6 DEF install_trans
    <3> QED BY <1>1, <3>1, <3>2, <3>3 DEF TypeOK
  <2>3. logblk[tail + 1] \in Val
    BY <1>1, <2>1 DEF TypeOK
  <2>4. lh' = lh \/ lh' = << >>
    BY <1>6 DEF install_trans
  <2>5. TypeOK'
    <3>1. cache' \in [Block -> Val] /\ disk' \in [Block -> Val]
      BY <1>1, <1>6, <2>1, <2>3 DEF install_trans, TypeOK
    <3>2. lh' \in Seq(Block)
      <4>1. lh \in Seq(Block) /\ << >> \in Seq(Block)
        BY <1>1 DEF TypeOK
      <4> QED BY <4>1, <2>4
    <3>3. phase' \in Phases /\ tail' \in Nat
      BY <1>1, <1>6 DEF install_trans, TypeOK, Phases
    <3> QED BY <1>1, <1>6, <2>2, <3>1, <3>2, <3>3 DEF install_trans, TypeOK, procvars
  <2>6. Ops = {} /\ (committing \/ \A p \in Proc : pc[p] # "sleep")
    BY <1>1, <1>6 DEF install_trans, Control, Committing, Recovering
  <2>7. Control'
    BY <1>1, <1>2, <1>3, <1>6, <2>1, <2>6 DEF install_trans, Control, Committing, Recovering, n, TypeOK
  <2>8. n' <= LOGSIZE
    BY <1>3, <2>4, LogAssumption DEF n
  <2> QED BY <1>2, <2>5, <2>6, <2>7, <2>8, SpaceIdle
<1>7. ASSUME read_head PROVE SpaceInv'
  <2>1. TypeOK'
    BY <1>1, <1>7 DEF read_head, TypeOK, Phases, procvars, diskvars
  <2>2. Ops = {} /\ \A p \in Proc : pc[p] # "sleep"
    BY <1>1, <1>7 DEF read_head, Control, Recovering
  <2>3. head # << >> => 0 < Len(head)
    BY <1>1 DEF TypeOK
  <2>4. Control'
    BY <1>1, <1>2, <1>7, <2>2, <2>3 DEF read_head, Control, Committing, Recovering, n, diskvars, TypeOK
  <2>5. n' <= LOGSIZE
    BY <1>1, <1>7 DEF read_head, n, Control
  <2> QED BY <1>2, <2>1, <2>2, <2>4, <2>5, SpaceIdle
<1> QED BY <1>4, <1>5, <1>6, <1>7 DEF commit, recover_from_log

\* end_op's second half wakes everyone; a crash forgets everyone.
LEMMA SpaceRest ==
  ASSUME SpaceInv, Crash \/ (\E p \in Proc : finish(p)) \/ (\E b \in Block : Recycle(b))
  PROVE  SpaceInv'
<1>1. TypeOK /\ Control
  BY DEF SpaceInv
<1>2. ASSUME NEW p \in Proc, finish(p) PROVE SpaceInv'
  <2>1. TypeOK'
    BY <1>1, <1>2 DEF finish, wakeup, TypeOK, Phases, diskvars
  <2>2. Ops = {} /\ Ops' = {} /\ \A q \in Proc : pc'[q] # "sleep"
    BY <1>1, <1>2 DEF finish, wakeup, TypeOK, Control, Committing, Ops
  <2>3. Control'
    BY <1>1, <1>2, <2>2 DEF finish, Control, Committing, Recovering, diskvars
  <2>4. n' <= LOGSIZE
    BY <1>2, LogFits DEF finish, n
  <2> QED BY <2>1, <2>2, <2>3, <2>4, SpaceIdle
<1>3. ASSUME Crash PROVE SpaceInv'
  <2>1. TypeOK'
    <3>1. lh' \in Seq(Block) /\ refcnt' \in [Block -> 0..UINT-1]
      BY <1>3, LogAssumption DEF Crash
    <3>2. pc' \in [Proc -> {"idle", "begin", "sleep", "op", "commit"}] /\ wrote' \in [Proc -> SUBSET Block]
      BY <1>3 DEF Crash
    <3>3. crashes' \in Nat
      BY <1>1, <1>3 DEF Crash, TypeOK
    <3> QED BY <1>1, <1>3, <3>1, <3>2, <3>3 DEF Crash, TypeOK, Phases, diskvars
  <2>2. Ops' = {} /\ \A q \in Proc : pc'[q] # "sleep"
    BY <1>3 DEF Crash, Ops
  <2>3. Control'
    BY <1>1, <1>3, <2>2, FS_EmptySet DEF Crash, Control, Committing, Recovering, diskvars
  <2>4. n' <= LOGSIZE
    BY <1>3, LogAssumption DEF Crash, n
  <2> QED BY <2>1, <2>2, <2>3, <2>4, SpaceIdle
<1>4. ASSUME NEW b \in Block, Recycle(b) PROVE SpaceInv'
  <2>1. TypeOK'
    BY <1>1, <1>4 DEF Recycle, TypeOK, procvars, diskvars
  <2>2. Control'
    BY <1>1, <1>4 DEF Recycle, Control, Ops, n, procvars, diskvars
  <2> QED BY <1>4, <2>1, <2>2, SpaceFrame DEF Recycle, procvars
<1> QED BY <1>2, <1>3, <1>4

\* Every step keeps the space invariant.
LEMMA SpaceNext == SpaceInv /\ [Next]_vars => SpaceInv'
<1> SUFFICES ASSUME SpaceInv, [Next]_vars PROVE SpaceInv'
  OBVIOUS
<1>1. ASSUME NEW p \in Proc, ProcStep(p) PROVE SpaceInv'
  BY <1>1, SpaceBegin, SpaceWrite, SpaceEnd, SpaceRest DEF ProcStep
<1>2. CASE UNCHANGED vars
  <2>1. TypeOK' /\ Control'
    BY <1>2 DEF vars, procvars, diskvars, SpaceInv, TypeOK, Control, Ops, n
  <2> QED BY <1>2, <2>1, SpaceFrame DEF vars, procvars
<1> QED BY <1>1, <1>2, SpaceDisk, SpaceRest DEF Next

\* No lost wakeup in begin_op: nobody sleeps on &log when there is room and no
\* commit is running, whatever the sizes and the crashes.
THEOREM SleepersMustWait == Spec => []NoOverslept
<1>1. SpaceInv => NoOverslept
  BY DEF SpaceInv
<1> QED BY <1>1, SpaceInit, SpaceNext, PTL DEF Spec

\* What begin_op reserves is enough: with a log area of at least LOGSIZE blocks
\* an operation that changes at most MAXOPBLOCKS - 2 blocks never runs into the
\* panic of log_write.
THEOREM ReservationSuffices ==
  ASSUME OpBlocks + 2 <= MAXOPBLOCKS, LOGSIZE <= NLOG
  PROVE  Spec => []NoPanic
<1>1. Init => NoPanic
  BY DEF Init, NoPanic
<1>2. ASSUME SpaceInv, NoPanic, [Next]_vars PROVE NoPanic'
  <2>1. ASSUME NEW p \in Proc, NEW b \in Block, NEW v \in Val, log_write(p, b, v)
        PROVE  NoPanic'
    <3>1. pc[p] = "op" /\ Cardinality(wrote[p] \cup {b}) <= OpBlocks /\ p \in Ops
      BY <2>1 DEF log_write, Ops
    <3>2. IsFiniteSet(wrote[p]) /\ Cardinality(wrote[p]) \in Nat
      BY <1>2, <3>1, FS_CardinalityType DEF SpaceInv, Room
    <3>3. Cardinality(wrote[p]) <= Cardinality(wrote[p] \cup {b})
      <4>1. \/ Cardinality(wrote[p] \cup {b}) = Cardinality(wrote[p])
            \/ Cardinality(wrote[p] \cup {b}) = Cardinality(wrote[p]) + 1
        BY <3>2, FS_AddElement
      <4> QED BY <4>1, <3>2
    <3>4. IsFiniteSet(wrote[p] \cup {b}) /\ Cardinality(wrote[p] \cup {b}) \in Nat
      BY <3>2, FS_AddElement, FS_CardinalityType
    <3>5. Cardinality(wrote[p]) < MAXOPBLOCKS - 1
      BY <3>1, <3>2, <3>3, <3>4, LogAssumption
    <3> DEFINE two == {<<p, MAXOPBLOCKS>>, <<p, MAXOPBLOCKS - 1>>}
    <3>6. two \in SUBSET Unused
      BY <3>1, <3>2, <3>5, LogAssumption DEF Unused, UnitsLeft
    <3>7. Cardinality(two) = 2
      <4>1. MAXOPBLOCKS # MAXOPBLOCKS - 1
        BY LogAssumption
      <4>2. <<p, MAXOPBLOCKS>> # <<p, MAXOPBLOCKS - 1>>
        BY <4>1
      <4>3. /\ IsFiniteSet({<<p, MAXOPBLOCKS>>}) /\ Cardinality({<<p, MAXOPBLOCKS>>}) = 1
            /\ two = {<<p, MAXOPBLOCKS>>} \cup {<<p, MAXOPBLOCKS - 1>>}
        BY FS_Singleton
      <4>4. <<p, MAXOPBLOCKS - 1>> \notin {<<p, MAXOPBLOCKS>>}
        BY <4>2
      <4>5. \A S, x : IsFiniteSet(S) /\ x \notin S => Cardinality(S \cup {x}) = Cardinality(S) + 1
        BY FS_AddElement
      <4>6. Cardinality(two) = Cardinality({<<p, MAXOPBLOCKS>>}) + 1
        BY <4>3, <4>4, <4>5, Zenon
      <4> QED BY <4>3, <4>6
    <3>8. Cardinality(Unused) \in Nat /\ Cardinality(two) <= Cardinality(Unused)
      BY <3>6, UnitsBound, FS_Subset DEF Ops, Unused
    <3> HIDE DEF two
    <3>9. n \in Nat /\ n + Cardinality(Unused) <= LOGSIZE
      BY <1>2, LogFits DEF SpaceInv, Room
    <3>10. ~(n >= LOGSIZE \/ n >= NLOG - 1)
      BY <3>7, <3>8, <3>9, LogAssumption
    <3> QED BY <1>2, <2>1, <3>10 DEF log_write, NoPanic
  <2>2. ASSUME NEW p \in Proc, begin_op(p) \/ end_op(p) \/ finish(p) PROVE NoPanic'
    BY <1>2, <2>2 DEF begin_op, end_op, finish, NoPanic
  <2>3. ASSUME commit \/ recover_from_log \/ Crash \/ (\E b \in Block : Recycle(b))
               \/ UNCHANGED vars
        PROVE  NoPanic'
    BY <1>2, <2>3 DEF commit, recover_from_log, write_log, write_head, install_trans,
                      read_head, Crash, Recycle, NoPanic, vars
  <2> QED BY <1>2, <2>1, <2>2, <2>3 DEF Next, ProcStep
<1> QED BY <1>1, <1>2, SpaceInit, SpaceNext, PTL DEF Spec
=============================================================================
