-------------------------- MODULE SleepLockProofs --------------------------
(***************************************************************************)
(* Proofs about SleepLock, for any number of processes and locks: sleep    *)
(* locks are exclusive, nobody sleeps on a free lock, and boosts go away   *)
(* with the last lock.                                                     *)
(***************************************************************************)
EXTENDS SleepLock, TLAPS

\* Where a process is, and what it then knows of the lock it points at.
Control ==
  /\ \A p \in Proc : state[p] = "SLEEPING" => pc[p] = "acquire"
  /\ \A p \in Proc : pc[p] = "acquire" => lk[p] \in Lock
  /\ \A p \in Proc : pc[p] = "recalc" => lk[p] # NoLock

\* Boosts come from waiters for a lock that the boosted process holds, and so
\* does the maximum pi_recalc collects.
Boosts ==
  /\ \A p \in Proc : pc[p] # "recalc" => max[p] = 0
  /\ \A p \in Proc : holds[p] = {} => max[p] = 0
  /\ \A p \in Proc : pc[p] # "recalc" /\ holds[p] = {} => pi_boost[p] = 0

IInv == TypeOK /\ Exclusive /\ SleepersWait /\ Control /\ Boosts

\* At the start all locks are free and nobody is boosted.
LEMMA InitInv == Init => IInv
BY SleepLockAssumption DEF Init, IInv, TypeOK, Exclusive, SleepersWait, Control, Boosts,
                           Proc, Lock, NoProc, NoLock

\* The larger of two priorities is a priority.
LEMMA LargerType == \A a, b \in 0..20 : Larger(a, b) \in 0..20
BY DEF Larger

\* A step of one process keeps the invariant.
LEMMA StepInv ==
  ASSUME IInv, NEW p \in Proc, Step(p)
  PROVE  IInv'
<1>0. /\ TypeOK /\ Exclusive /\ SleepersWait /\ Control /\ Boosts
      /\ p # NoProc /\ NLOCK \in Nat \ {0} /\ 1 \in 0..NLOCK+1 /\ 0 \in 0..NLOCK+1
      /\ Lock \subseteq 0..NLOCK+1 /\ NoProc \notin Proc
  BY SleepLockAssumption DEF IInv, Proc, Lock, NoProc
<1>1. CASE \E l \in Lock : Call(p, l)
  <2>1. PICK l \in Lock : Call(p, l)
    BY <1>1
  <2>2. TypeOK'
    BY <1>0, <2>1 DEF Call, TypeOK
  <2>3. Exclusive' /\ SleepersWait' /\ Control' /\ Boosts'
    BY <1>0, <2>1 DEF Call, TypeOK, Exclusive, SleepersWait, Control, Boosts
  <2> QED
    BY <2>2, <2>3 DEF IInv
<1>2. CASE acquiresleep_wait(p)
  <2> DEFINE l == lk[p]
  <2>1. /\ pc[p] = "acquire" /\ state[p] = "RUNNABLE" /\ locked[l] /\ l \in Lock
        /\ pi_waiter_max' = [pi_waiter_max EXCEPT ![l] = Larger(@, Larger(priority[p], pi_boost[p]))]
        /\ pi_boost' = [pi_boost EXCEPT ![pid[l]] = Larger(@, Larger(priority[p], pi_boost[p]))]
        /\ state' = [state EXCEPT ![p] = "SLEEPING"]
        /\ UNCHANGED <<locked, pid, pc, lk, max, holds>>
    BY <1>2, <1>0 DEF acquiresleep_wait, pi_donate, Control
  <2>2. PICK d \in 0..20 : d = Larger(priority[p], pi_boost[p])
    BY <1>0, LargerType, SleepLockAssumption DEF TypeOK
  <2>3. /\ Larger(pi_waiter_max[l], d) \in 0..20
        /\ \A q \in Proc : Larger(pi_boost[q], d) \in 0..20
    BY <1>0, <2>1, <2>2, LargerType DEF TypeOK
  <2>4. TypeOK'
    BY <1>0, <2>1, <2>2, <2>3 DEF TypeOK
  <2>5. Exclusive' /\ SleepersWait' /\ Control'
    BY <1>0, <2>1 DEF TypeOK, Exclusive, SleepersWait, Control
  <2>6. \A q \in Proc : holds[q] = {} => pi_boost'[q] = pi_boost[q]
    BY <1>0, <2>1 DEF TypeOK, Exclusive
  <2>7. Boosts'
    BY <1>0, <2>1, <2>6 DEF Boosts
  <2> QED
    BY <2>4, <2>5, <2>7 DEF IInv
<1>3. CASE acquiresleep_take(p)
  <2>1. lk[p] \in Lock
    BY <1>0, <1>3 DEF acquiresleep_take, Control
  <2>2. TypeOK'
    BY <1>0, <1>3, <2>1 DEF acquiresleep_take, TypeOK, NoLock
  <2>3. Exclusive'
    BY <1>0, <1>3, <2>1 DEF acquiresleep_take, TypeOK, Exclusive
  <2>4. SleepersWait' /\ Control' /\ Boosts'
    BY <1>0, <1>3, <2>1 DEF acquiresleep_take, TypeOK, SleepersWait, Control, Boosts
  <2> QED
    BY <2>2, <2>3, <2>4 DEF IInv
<1>4. CASE \E l \in Lock : releasesleep(p, l)
  <2>1. PICK l \in Lock : releasesleep(p, l)
    BY <1>4
  <2>2. TypeOK'
    BY <1>0, <2>1 DEF releasesleep, TypeOK
  <2>3. Exclusive'
    BY <1>0, <2>1 DEF releasesleep, TypeOK, Exclusive
  <2>4. SleepersWait'
    BY <1>0, <2>1 DEF releasesleep, TypeOK, SleepersWait, Sleeping, Control
  <2>5. Control' /\ Boosts'
    BY <1>0, <2>1 DEF releasesleep, TypeOK, Control, Boosts, Sleeping, NoLock
  <2> QED
    BY <2>2, <2>3, <2>4, <2>5 DEF IInv
<1>5. CASE recalc_scan(p)
  <2>1. lk[p] \in Lock /\ lk[p] + 1 \in 0..NLOCK+1 /\ lk[p] + 1 # NoLock
    BY <1>0, <1>5 DEF recalc_scan, TypeOK, Control, Lock, NoLock
  <2>2. max'[p] \in 0..20 /\ (holds[p] = {} => max'[p] = 0)
    <3>1. CASE locked[lk[p]] /\ pid[lk[p]] = p
      <4>1. max'[p] = Larger(max[p], pi_waiter_max[lk[p]])
        BY <1>0, <1>5, <3>1 DEF recalc_scan, TypeOK
      <4> QED
        BY <1>0, <2>1, <3>1, <4>1, LargerType DEF TypeOK, Exclusive
    <3>2. CASE ~(locked[lk[p]] /\ pid[lk[p]] = p)
      <4> QED
        BY <1>0, <1>5, <3>2 DEF recalc_scan, TypeOK, Boosts
    <3> QED
      BY <3>1, <3>2
  <2>3. TypeOK'
    BY <1>0, <1>5, <2>1, <2>2 DEF recalc_scan, TypeOK
  <2>4. Exclusive' /\ SleepersWait' /\ Control'
    BY <1>0, <1>5, <2>1 DEF recalc_scan, TypeOK, Exclusive, SleepersWait, Control
  <2>5. Boosts'
    BY <1>0, <1>5, <2>2 DEF recalc_scan, TypeOK, Boosts
  <2> QED
    BY <2>3, <2>4, <2>5 DEF IInv
<1>6. CASE pi_recalc(p)
  <2>1. TypeOK'
    BY <1>0, <1>6 DEF pi_recalc, TypeOK, NoLock
  <2>2. Exclusive' /\ SleepersWait' /\ Control' /\ Boosts'
    BY <1>0, <1>6 DEF pi_recalc, TypeOK, Exclusive, SleepersWait, Control, Boosts
  <2> QED
    BY <2>1, <2>2 DEF IInv
<1> QED
  BY <1>1, <1>2, <1>3, <1>4, <1>5, <1>6 DEF Step

\* Every step keeps the invariant.
LEMMA NextInv == IInv /\ [Next]_vars => IInv'
<1> SUFFICES ASSUME IInv, [Next]_vars PROVE IInv'
  OBVIOUS
<1>1. CASE Next
  BY <1>1, StepInv DEF Next
<1>2. CASE UNCHANGED vars
  BY <1>2 DEF vars, IInv, TypeOK, Exclusive, SleepersWait, Control, Boosts
<1> QED
  BY <1>1, <1>2

\* For any number of processes and locks: a sleep lock is held by one process,
\* the one its pid names.
THEOREM LocksExclude == Spec => []Exclusive
<1>1. IInv => Exclusive
  BY DEF IInv
<1> QED
  BY InitInv, NextInv, <1>1, PTL DEF Spec

\* releasesleep's wakeup reaches everybody: nobody sleeps on a free lock.
THEOREM NobodyOversleeps == Spec => []SleepersWait
<1>1. IInv => SleepersWait
  BY DEF IInv
<1> QED
  BY InitInv, NextInv, <1>1, PTL DEF Spec

\* pi_recalc takes every boost back: who holds no lock runs at its own priority.
THEOREM BoostsEnd == Spec => []BoostReturned
<1>1. IInv => BoostReturned
  BY DEF IInv, Boosts, BoostReturned
<1> QED
  BY InitInv, NextInv, <1>1, PTL DEF Spec
=============================================================================
