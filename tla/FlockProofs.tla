---------------------------- MODULE FlockProofs ----------------------------
(***************************************************************************)
(* Exclusive and SleepersMustWait for any processes, open files and shared *)
(* descriptors, with locks asked for twice.                                *)
(*                                                                         *)
(* Exclusive is not inductive: that giving back the last counted shared    *)
(* lock leaves no shared holder needs flock_count to be at least the       *)
(* number of holders.  (It may be more: see CountIsHolders.)  A conversion *)
(* gives a lock back and takes one in a single step, so the invariant is   *)
(* stated for values, not for variables, and carried through the middle of *)
(* the step.                                                               *)
(***************************************************************************)
EXTENDS Flock, FiniteSetTheorems, TLAPS

\* E and S are the exclusive and the shared holders of an inode.
Sound(type, count, E, S) ==
  /\ type \in Lock /\ count \in Nat /\ IsFiniteSet(S)
  /\ E # {} => type = "EX"
  /\ S # {} => type = "SH"
  /\ \A g, h \in E : g = h
  /\ type = "SH" => count >= 1 /\ count >= Cardinality(S)

\* The sleepers of st cannot have the lock.
Waits(type, st, rq) ==
  \A p \in Proc : st[p] = "SLEEPING" => rq[p] # NoReq /\ Conflicts(type, rq[p][2])

HoldersOf(held, cl, op) ==
  {<<"file", f>> : f \in {g \in File : held[g] = op}}
    \cup {<<"closer", p>> : p \in {q \in Proc : cl[q] = op}}

IInv ==
  /\ TypeOK
  /\ Sound(flock_type, flock_count, HoldersOf(flock_held, closing, "EX"),
           HoldersOf(flock_held, closing, "SH"))
  /\ Waits(flock_type, state, req)

-----------------------------------------------------------------------------
\* Giving back a lock (the three copies of that code in file.c) keeps the
\* account right.
LEMMA ReleaseSound ==
  ASSUME NEW type, NEW count, NEW E, NEW S, NEW h, Sound(type, count, E, S), h \in E \cup S
  PROVE  Sound(TypeAfter(type, count), CountAfter(type, count), E \ {h}, S \ {h})
<1>1. /\ type \in Lock /\ count \in Nat /\ IsFiniteSet(S)
      /\ E # {} => type = "EX"
      /\ S # {} => type = "SH"
      /\ \A g, k \in E : g = k
      /\ type = "SH" => count >= 1 /\ count >= Cardinality(S)
  BY DEF Sound
<1>2. /\ IsFiniteSet(S \ {h}) /\ Cardinality(S) \in Nat /\ Cardinality(S \ {h}) \in Nat
      /\ Cardinality(S \ {h}) = IF h \in S THEN Cardinality(S) - 1 ELSE Cardinality(S)
  <2>1. /\ IsFiniteSet(S \ {h})
        /\ Cardinality(S \ {h}) = IF h \in S THEN Cardinality(S) - 1 ELSE Cardinality(S)
    BY <1>1, FS_RemoveElement
  <2> QED
    BY <1>1, <2>1, FS_CardinalityType
<1>3. CASE h \in S
  <2>1. type = "SH" /\ E = {}
    BY <1>1, <1>3
  <2>2. CASE count - 1 = 0
    <3>1. Cardinality(S \ {h}) = 0
      BY <1>1, <1>2, <1>3, <2>1, <2>2
    <3>2. S \ {h} = {}
      BY <3>1, <1>2, FS_EmptySet
    <3> QED
      BY <1>1, <1>2, <2>1, <2>2, <3>2 DEF Sound, TypeAfter, CountAfter, Lock
  <2>3. CASE count - 1 # 0
    BY <1>1, <1>2, <1>3, <2>1, <2>3 DEF Sound, TypeAfter, CountAfter, Lock
  <2> QED
    BY <2>2, <2>3
<1>4. CASE h \notin S
  <2>1. h \in E /\ type = "EX" /\ S = {} /\ E \ {h} = {}
    BY <1>1, <1>4
  <2> QED
    BY <1>1, <1>2, <2>1 DEF Sound, TypeAfter, CountAfter, Lock
<1> QED
  BY <1>3, <1>4

\* Taking the lock when flock_type allows it keeps the account right, also for
\* an open file that has the shared lock already.
LEMMA AcquireSound ==
  ASSUME NEW type, NEW count, NEW E, NEW S, NEW h, NEW op \in {"SH", "EX"},
         Sound(type, count, E, S), ~Conflicts(type, op)
  PROVE  IF op = "SH" THEN Sound("SH", count + 1, E, S \cup {h})
                      ELSE Sound("EX", 1, {h}, S) /\ E = {}
<1>1. /\ type \in Lock /\ count \in Nat /\ IsFiniteSet(S)
      /\ E # {} => type = "EX"
      /\ S # {} => type = "SH"
      /\ \A g, k \in E : g = k
      /\ type = "SH" => count >= 1 /\ count >= Cardinality(S)
  BY DEF Sound
<1>2. /\ IsFiniteSet(S \cup {h}) /\ Cardinality(S) \in Nat
      /\ Cardinality(S \cup {h}) = IF h \in S THEN Cardinality(S) ELSE Cardinality(S) + 1
  BY <1>1, FS_AddElement, FS_CardinalityType
<1>3. CASE op = "SH"
  <2>1. E = {} /\ type \in {"UN", "SH"}
    BY <1>1, <1>3 DEF Conflicts, Lock
  <2>2. Cardinality(S) <= count
    <3>1. CASE type = "SH"
      BY <1>1, <1>2, <3>1
    <3>2. CASE type = "UN"
      <4>1. S = {}
        BY <1>1, <3>2
      <4>2. Cardinality(S) = 0
        BY <4>1, FS_EmptySet
      <4> QED
        BY <4>2, <1>1
    <3> QED
      BY <2>1, <3>1, <3>2
  <2> QED
    BY <1>1, <1>2, <1>3, <2>1, <2>2 DEF Sound, Lock
<1>4. CASE op = "EX"
  <2>1. E = {} /\ S = {}
    BY <1>1, <1>4 DEF Conflicts, Lock
  <2> QED
    BY <1>1, <1>4, <2>1 DEF Sound, Lock
<1> QED
  BY <1>3, <1>4
\* The end of fileflock keeps the invariant, whatever the part before it has
\* made of the variables.
LEMMA AcquireKeeps ==
  ASSUME NEW p \in Proc, NEW f \in File, NEW op \in {"SH", "EX"}, NEW nonblock \in BOOLEAN,
         NEW held \in [File -> Lock], NEW type, NEW count,
         NEW st \in [Proc -> {"RUNNABLE", "SLEEPING"}],
         Sound(type, count, HoldersOf(held, closing, "EX"), HoldersOf(held, closing, "SH")),
         Waits(type, st, req), st[p] = "RUNNABLE",
         req \in [Proc -> {NoReq} \cup (File \X {"SH", "EX"})], closing \in [Proc -> Lock],
         Acquire(p, f, op, nonblock, held, type, count, st), UNCHANGED closing
  PROVE  IInv'
<1>0. type \in Lock /\ count \in Nat
  BY DEF Sound
<1>1. CASE ~Conflicts(type, op)
  <2>1. /\ flock_type' = op
        /\ flock_count' = IF op = "SH" THEN count + 1 ELSE 1
        /\ flock_held' = [held EXCEPT ![f] = op]
        /\ req' = [req EXCEPT ![p] = NoReq] /\ state' = st /\ closing' = closing
    BY <1>1 DEF Acquire
  <2>2. TypeOK'
    BY <1>0, <2>1 DEF TypeOK, Lock
  <2>3. Waits(flock_type', state', req')
    BY <1>1, <2>1, <1>0 DEF Waits, Conflicts, Lock
  <2>4. CASE op = "SH"
    <3>1. Sound("SH", count + 1, HoldersOf(held, closing, "EX"),
                HoldersOf(held, closing, "SH") \cup {<<"file", f>>})
      BY <1>1, <2>4, AcquireSound
    <3>2. HoldersOf(held, closing, "EX") = {}
      BY <3>1 DEF Sound
    <3>3. HoldersOf([held EXCEPT ![f] = op], closing, "EX") = HoldersOf(held, closing, "EX")
      BY <2>4, <3>2 DEF HoldersOf
    <3>4. HoldersOf([held EXCEPT ![f] = op], closing, "SH")
            = HoldersOf(held, closing, "SH") \cup {<<"file", f>>}
      BY <2>4 DEF HoldersOf
    <3> QED
      BY <2>1, <2>2, <2>3, <2>4, <3>1, <3>3, <3>4 DEF IInv
  <2>5. CASE op = "EX"
    <3>1. /\ Sound("EX", 1, {<<"file", f>>}, HoldersOf(held, closing, "SH"))
          /\ HoldersOf(held, closing, "EX") = {}
      BY <1>1, <2>5, AcquireSound
    <3>2. HoldersOf(held, closing, "SH") = {}
      BY <3>1 DEF Sound
    <3>3. HoldersOf([held EXCEPT ![f] = op], closing, "EX") = {<<"file", f>>}
      BY <2>5, <3>1 DEF HoldersOf
    <3>4. HoldersOf([held EXCEPT ![f] = op], closing, "SH") = HoldersOf(held, closing, "SH")
      BY <2>5, <3>2 DEF HoldersOf
    <3> QED
      BY <2>1, <2>2, <2>3, <2>5, <3>1, <3>3, <3>4 DEF IInv
  <2> QED
    BY <2>4, <2>5
<1>2. CASE Conflicts(type, op)
  <2>1. /\ flock_type' = type /\ flock_count' = count /\ flock_held' = held
        /\ closing' = closing
        /\ \/ req' = [req EXCEPT ![p] = NoReq] /\ state' = st
           \/ req' = [req EXCEPT ![p] = <<f, op>>] /\ state' = [st EXCEPT ![p] = "SLEEPING"]
    BY <1>2 DEF Acquire
  <2>2. TypeOK'
    BY <1>0, <2>1 DEF TypeOK, Lock
  <2>3. Waits(flock_type', state', req')
    BY <1>2, <2>1 DEF Waits, NoReq
  <2> QED
    BY <2>1, <2>2, <2>3 DEF IInv
<1> QED
  BY <1>1, <1>2

\* Waiting processes are woken when a lock given back leaves the inode free.
LEMMA ReleaseWakes ==
  ASSUME TypeOK, Waits(flock_type, state, req)
  PROVE  /\ Waits(TypeAfter(flock_type, flock_count), Woken(flock_type, flock_count), req)
         /\ Woken(flock_type, flock_count) \in [Proc -> {"RUNNABLE", "SLEEPING"}]
  BY DEF TypeOK, Waits, TypeAfter, Woken, Conflicts, Lock

\* At the start nobody holds the lock.
LEMMA InitIInv == Init => IInv
<1> SUFFICES ASSUME Init PROVE IInv
  OBVIOUS
<1>1. TypeOK
  BY DEF Init, TypeOK, Lock, NoReq
<1>2. HoldersOf(flock_held, closing, "EX") = {} /\ HoldersOf(flock_held, closing, "SH") = {}
  BY DEF Init, HoldersOf
<1>3. Sound(flock_type, flock_count, {}, {})
  BY FS_EmptySet DEF Init, Sound, Lock
<1>4. Waits(flock_type, state, req)
  BY DEF Init, Waits
<1> QED
  BY <1>1, <1>2, <1>3, <1>4 DEF IInv

\* Every step keeps the invariant.
LEMMA NextIInv == IInv /\ [Next]_vars => IInv'
<1> SUFFICES ASSUME IInv, [Next]_vars PROVE IInv'
  OBVIOUS
<1> DEFINE E == HoldersOf(flock_held, closing, "EX")
           S == HoldersOf(flock_held, closing, "SH")
<1>0. TypeOK /\ Sound(flock_type, flock_count, E, S) /\ Waits(flock_type, state, req)
  BY DEF IInv
<1>a. /\ flock_type \in Lock /\ flock_count \in Nat /\ flock_held \in [File -> Lock]
      /\ state \in [Proc -> {"RUNNABLE", "SLEEPING"}]
      /\ req \in [Proc -> {NoReq} \cup (File \X {"SH", "EX"})] /\ closing \in [Proc -> Lock]
  BY <1>0 DEF TypeOK
<1>b. /\ Waits(TypeAfter(flock_type, flock_count), Woken(flock_type, flock_count), req)
      /\ Woken(flock_type, flock_count) \in [Proc -> {"RUNNABLE", "SLEEPING"}]
  BY <1>0, ReleaseWakes
<1>c. \A p \in Proc : req[p] = NoReq => state[p] = "RUNNABLE"
  BY <1>0, <1>a DEF Waits
\* Without its lock f is no holder any more; the other holders stay.
<1>d. ASSUME NEW f \in File, flock_held[f] # "UN"
      PROVE  /\ <<"file", f>> \in E \cup S
             /\ HoldersOf([flock_held EXCEPT ![f] = "UN"], closing, "EX") = E \ {<<"file", f>>}
             /\ HoldersOf([flock_held EXCEPT ![f] = "UN"], closing, "SH") = S \ {<<"file", f>>}
  BY <1>a, <1>d DEF HoldersOf, Lock
<1>1. ASSUME NEW p \in Proc, NEW f \in File, unlock(p, f)
      PROVE  IInv'
  <2>1. /\ flock_type' = TypeAfter(flock_type, flock_count)
        /\ flock_count' = CountAfter(flock_type, flock_count)
        /\ state' = Woken(flock_type, flock_count)
        /\ flock_held' = [flock_held EXCEPT ![f] = "UN"]
        /\ req' = req /\ closing' = closing /\ flock_held[f] # "UN"
    BY <1>1 DEF unlock
  <2>2. Sound(flock_type', flock_count', E \ {<<"file", f>>}, S \ {<<"file", f>>})
    BY <1>0, <1>d, <2>1, ReleaseSound
  <2>3. TypeOK'
    <3>1. flock_type' \in Lock /\ flock_count' \in Nat
      BY <2>2 DEF Sound
    <3> QED
      BY <1>a, <1>b, <2>1, <3>1 DEF TypeOK, Lock
  <2> QED
    BY <1>b, <1>d, <2>1, <2>2, <2>3 DEF IInv
<1>2. ASSUME NEW p \in Proc, NEW f \in File, fileclose(p, f)
      PROVE  IInv'
  <2>1. /\ flock_held[f] # "UN" /\ closing[p] = "UN"
        /\ flock_type' = flock_type /\ flock_count' = flock_count
        /\ closing' = [closing EXCEPT ![p] = flock_held[f]]
        /\ flock_held' = [flock_held EXCEPT ![f] = "UN"]
        /\ state' = state /\ req' = req
    BY <1>2 DEF fileclose, Idle
  <2>2. TypeOK'
    BY <1>a, <2>1 DEF TypeOK, Lock
  <2>3. CASE flock_held[f] = "EX"
    <3>1. <<"file", f>> \in E
      BY <2>3 DEF HoldersOf
    <3>2. E = {<<"file", f>>} /\ S = {} /\ flock_type = "EX"
      BY <1>0, <3>1 DEF Sound
    <3>3. HoldersOf(flock_held', closing', "EX") = (E \ {<<"file", f>>}) \cup {<<"closer", p>>}
      BY <1>a, <2>1, <2>3 DEF HoldersOf
    <3>4. HoldersOf(flock_held', closing', "SH") = S
      BY <1>a, <2>1, <2>3 DEF HoldersOf
    <3>5. Sound(flock_type', flock_count', {<<"closer", p>>}, S)
      BY <1>0, <2>1, <3>2 DEF Sound
    <3> QED
      BY <1>0, <2>1, <2>2, <3>2, <3>3, <3>4, <3>5 DEF IInv
  <2>4. CASE flock_held[f] = "SH"
    <3>1. <<"file", f>> \in S /\ <<"closer", p>> \notin S
      BY <2>1, <2>4 DEF HoldersOf
    <3>2. E = {} /\ flock_type = "SH" /\ IsFiniteSet(S)
      BY <1>0, <3>1 DEF Sound
    <3>3. HoldersOf(flock_held', closing', "SH") = (S \ {<<"file", f>>}) \cup {<<"closer", p>>}
      BY <1>a, <2>1, <2>4 DEF HoldersOf
    <3>4. HoldersOf(flock_held', closing', "EX") = E
      BY <1>a, <2>1, <2>4 DEF HoldersOf
    <3>5. /\ IsFiniteSet(S \ {<<"file", f>>})
          /\ Cardinality(S \ {<<"file", f>>}) = Cardinality(S) - 1
      BY <3>1, <3>2, FS_RemoveElement
    <3>6. /\ IsFiniteSet((S \ {<<"file", f>>}) \cup {<<"closer", p>>})
          /\ Cardinality((S \ {<<"file", f>>}) \cup {<<"closer", p>>}) = Cardinality(S) - 1 + 1
      BY <3>1, <3>5, FS_AddElement
    <3>7. Cardinality(S) \in Nat
      BY <3>2, FS_CardinalityType
    <3>8. Sound(flock_type', flock_count', E, (S \ {<<"file", f>>}) \cup {<<"closer", p>>})
      BY <1>0, <2>1, <3>2, <3>6, <3>7 DEF Sound
    <3> QED
      BY <1>0, <2>1, <2>2, <3>3, <3>4, <3>8 DEF IInv
  <2> QED
    BY <1>a, <2>1, <2>3, <2>4 DEF Lock
<1>3. ASSUME NEW p \in Proc, NEW f \in File, NEW op \in {"SH", "EX"}, NEW nonblock \in BOOLEAN,
             fileflock(p, f, op, nonblock)
      PROVE  IInv'
  <2>1. req[p] = NoReq /\ state[p] = "RUNNABLE" /\ UNCHANGED closing
    BY <1>3, <1>c DEF fileflock, Idle
  <2>2. CASE flock_held[f] \notin {"UN", op}
    <3>1. Acquire(p, f, op, nonblock, [flock_held EXCEPT ![f] = "UN"],
                  TypeAfter(flock_type, flock_count), CountAfter(flock_type, flock_count),
                  Woken(flock_type, flock_count))
      BY <1>3, <2>2 DEF fileflock
    <3>2. Sound(TypeAfter(flock_type, flock_count), CountAfter(flock_type, flock_count),
                HoldersOf([flock_held EXCEPT ![f] = "UN"], closing, "EX"),
                HoldersOf([flock_held EXCEPT ![f] = "UN"], closing, "SH"))
      <4>1. flock_held[f] # "UN"
        BY <2>2
      <4>2. Sound(TypeAfter(flock_type, flock_count), CountAfter(flock_type, flock_count),
                  E \ {<<"file", f>>}, S \ {<<"file", f>>})
        BY <1>0, <1>d, <4>1, ReleaseSound
      <4> QED
        BY <1>d, <4>1, <4>2
    <3>3. [flock_held EXCEPT ![f] = "UN"] \in [File -> Lock]
      BY <1>a DEF Lock
    <3>4. Woken(flock_type, flock_count)[p] = "RUNNABLE"
      BY <2>1 DEF Woken
    <3> DEFINE held == [flock_held EXCEPT ![f] = "UN"]
               type == TypeAfter(flock_type, flock_count)
               count == CountAfter(flock_type, flock_count)
               st == Woken(flock_type, flock_count)
    <3>5. /\ Acquire(p, f, op, nonblock, held, type, count, st)
          /\ Sound(type, count, HoldersOf(held, closing, "EX"), HoldersOf(held, closing, "SH"))
          /\ Waits(type, st, req) /\ st[p] = "RUNNABLE"
          /\ held \in [File -> Lock] /\ st \in [Proc -> {"RUNNABLE", "SLEEPING"}]
      BY <1>b, <3>1, <3>2, <3>3, <3>4
    <3> HIDE DEF E, S, held, type, count, st
    <3> QED
      BY <1>a, <2>1, <3>5, AcquireKeeps
  <2>3. CASE flock_held[f] \in {"UN", op}
    <3>1. Acquire(p, f, op, nonblock, flock_held, flock_type, flock_count, state)
      BY <1>3, <2>3 DEF fileflock
    <3> QED
      BY <1>0, <1>a, <2>1, <3>1, AcquireKeeps
  <2> QED
    BY <2>2, <2>3
<1>4. ASSUME NEW p \in Proc, fileflock_awake(p)
      PROVE  IInv'
  <2>1. /\ req[p] # NoReq /\ state[p] = "RUNNABLE" /\ UNCHANGED closing
        /\ Acquire(p, req[p][1], req[p][2], FALSE, flock_held, flock_type, flock_count, state)
    BY <1>4 DEF fileflock_awake
  <2>2. req[p][1] \in File /\ req[p][2] \in {"SH", "EX"}
    BY <1>a, <2>1
  <2> QED
    BY <1>0, <1>a, <2>1, <2>2, AcquireKeeps
<1>5. ASSUME NEW p \in Proc, fileclose_release(p)
      PROVE  IInv'
  <2>1. /\ flock_type' = TypeAfter(flock_type, flock_count)
        /\ flock_count' = CountAfter(flock_type, flock_count)
        /\ state' = Woken(flock_type, flock_count)
        /\ closing' = [closing EXCEPT ![p] = "UN"]
        /\ req' = req /\ flock_held' = flock_held /\ closing[p] # "UN"
    BY <1>5 DEF fileclose_release
  <2>2. /\ <<"closer", p>> \in E \cup S
        /\ HoldersOf(flock_held', closing', "EX") = E \ {<<"closer", p>>}
        /\ HoldersOf(flock_held', closing', "SH") = S \ {<<"closer", p>>}
    BY <1>a, <2>1 DEF HoldersOf, Lock
  <2>3. Sound(flock_type', flock_count', E \ {<<"closer", p>>}, S \ {<<"closer", p>>})
    BY <1>0, <2>1, <2>2, ReleaseSound
  <2>4. TypeOK'
    <3>1. flock_type' \in Lock /\ flock_count' \in Nat
      BY <2>3 DEF Sound
    <3> QED
      BY <1>a, <1>b, <2>1, <3>1 DEF TypeOK, Lock
  <2> QED
    BY <1>b, <2>1, <2>2, <2>3, <2>4 DEF IInv
<1>6. ASSUME NEW p \in Proc, kill(p)
      PROVE  IInv'
  <2>1. /\ flock_type' = flock_type /\ flock_count' = flock_count /\ flock_held' = flock_held
        /\ req' = req /\ closing' = closing /\ state' = [state EXCEPT ![p] = "RUNNABLE"]
    BY <1>6 DEF kill
  <2>2. TypeOK' /\ Waits(flock_type', state', req')
    BY <1>0, <1>a, <2>1 DEF TypeOK, Waits
  <2> QED
    BY <1>0, <2>1, <2>2 DEF IInv
<1>7. CASE UNCHANGED vars
  BY <1>0, <1>7 DEF IInv, TypeOK, vars
<1> QED
  BY <1>1, <1>2, <1>3, <1>4, <1>5, <1>6, <1>7 DEF Next

-----------------------------------------------------------------------------
\* fileflock gives the exclusive lock to one open file at a time, and to none
\* while there are shared holders, also while a lock is being given back.
THEOREM LocksAreExclusive == Spec => []Exclusive
<1>1. IInv => Exclusive
  BY DEF IInv, Exclusive, Sound, HoldersOf, Holders
<1> QED
  BY InitIInv, NextIInv, <1>1, PTL DEF Spec

\* No wakeup is lost: whoever sleeps in fileflock cannot have the lock.
THEOREM NobodySleepsInVain == Spec => []SleepersMustWait
<1>1. IInv => SleepersMustWait
  BY DEF IInv, Waits, SleepersMustWait
<1> QED
  BY InitIInv, NextIInv, <1>1, PTL DEF Spec
=============================================================================
