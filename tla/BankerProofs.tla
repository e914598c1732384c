---------------------------- MODULE BankerProofs ----------------------------
(***************************************************************************)
(* Proofs about Banker for any table size, number of resources and totals. *)
(*                                                                         *)
(* What the slots hold of a resource is a sum over the process table.  A   *)
(* sum is represented by its prefix sums: a function pre on 0..NPROC whose *)
(* steps are the summands.  An operation changes one summand, so the new   *)
(* prefix sums are the old ones shifted from that slot on; no induction    *)
(* over the table is needed.  The prefix sums are kept monotone, which is  *)
(* what shows that a partial sum never drops below zero.                   *)
(***************************************************************************)
EXTENDS Banker, TLAPS

\* s is the sum of the summands a[1], ..., a[NPROC].
SumsTo(a, s) ==
  \E pre \in [0..NPROC -> 0..MaxTotal] :
    /\ pre[0] = 0
    /\ \A i \in Slots : pre[i] = pre[i-1] + a[i]
    /\ \A i, j \in 0..NPROC : i <= j => pre[i] <= pre[j]
    /\ pre[NPROC] = s

\* What each slot holds of resource r.
Holdings(r) == [p \in Slots |-> alloc[p][r]]

Ledger(r) ==
  \E s \in 0..MaxTotal :
    /\ SumsTo(Holdings(r), s)
    /\ s + avail[r] + lost[r] = total[r]

\* Before banker_init nobody has a claim, a slot without a claim holds
\* nothing, the entries beyond nres are unused, and a free slot that never
\* holds a thread has no claim.
Idle ==
  /\ ~inited => \A p \in Slots : ~active[p]
  /\ \A p \in Slots : ~active[p] => alloc[p] = Zero
  /\ \A r \in Res : r > nres => total[r] = 0
  /\ \A p \in Slots : p \notin ThreadSlots =>
       pthread[p] = 0 /\ (state[p] = "UNUSED" => ~active[p])

IInv ==
  /\ TypeOK
  /\ WithinClaim
  /\ Idle
  /\ \A r \in Res : Ledger(r)

-----------------------------------------------------------------------------
\* Changing one summand changes the sum by the difference.
LEMMA SumUpdate ==
  ASSUME NEW a \in [Slots -> Nat], NEW s \in 0..MaxTotal, SumsTo(a, s),
         NEW p \in Slots, NEW v \in Nat, s - a[p] + v <= MaxTotal
  PROVE  SumsTo([a EXCEPT ![p] = v], s - a[p] + v)
<1> USE DEF Slots
<1>1. PICK pre \in [0..NPROC -> 0..MaxTotal] :
         /\ pre[0] = 0
         /\ \A i \in Slots : pre[i] = pre[i-1] + a[i]
         /\ \A i, j \in 0..NPROC : i <= j => pre[i] <= pre[j]
         /\ pre[NPROC] = s
  BY DEF SumsTo
<1>2. /\ \A i \in 0..NPROC : pre[i] \in Nat /\ pre[i] <= s
      /\ \A i \in Slots : a[i] \in Nat
      /\ p \in Int /\ p-1 \in 0..NPROC /\ p \in 0..NPROC /\ s \in Nat
      /\ pre[p] = pre[p-1] + a[p]
  <2>1. NPROC \in 0..NPROC /\ \A i \in 0..NPROC : i <= NPROC
    BY BankerAssumption
  <2>2. ASSUME NEW i \in 0..NPROC
        PROVE  pre[i] \in Nat /\ pre[i] <= s
    <3>1. pre[i] \in 0..MaxTotal
      OBVIOUS
    <3>2. pre[i] <= pre[NPROC]
      BY <1>1, <2>1
    <3> QED BY <3>1, <3>2, <1>1, BankerAssumption
  <2>3. \A i \in Slots : a[i] \in Nat
    OBVIOUS
  <2>4. p \in Int /\ p-1 \in 0..NPROC /\ p \in 0..NPROC /\ s \in Nat
    BY BankerAssumption
  <2>5. pre[p] = pre[p-1] + a[p]
    BY <1>1
  <2> QED BY <2>2, <2>3, <2>4, <2>5
<1> DEFINE new == [i \in 0..NPROC |-> IF i >= p THEN pre[i] - a[p] + v ELSE pre[i]]
<1>a. PICK ap \in Nat : ap = a[p]
  BY <1>2
<1>b. PICK before \in Nat : before = pre[p-1]
  BY <1>2
<1>3. ASSUME NEW i \in 0..NPROC
      PROVE  /\ pre[i] \in Nat /\ pre[i] <= s
             /\ i >= p => new[i] = pre[i] - ap + v /\ pre[i] >= before + ap
             /\ i < p => new[i] = pre[i] /\ pre[i] <= before
  <2>1. pre[i] \in Nat /\ pre[i] <= s
    BY <1>2
  <2>2. ASSUME i >= p
        PROVE  new[i] = pre[i] - ap + v /\ pre[i] >= before + ap
    <3>1. pre[p] <= pre[i]
      BY <1>1, <1>2, <2>2
    <3>2. new[i] = pre[i] - ap + v
      BY <1>a, <2>2
    <3>3. pre[p] = before + ap
      BY <1>2, <1>a, <1>b
    <3> QED BY <3>1, <3>2, <3>3
  <2>3. ASSUME i < p
        PROVE  new[i] = pre[i] /\ pre[i] <= before
    <3>1. pre[i] <= pre[p-1]
      BY <1>1, <1>2, <2>3
    <3>2. new[i] = pre[i]
      BY <2>3
    <3> QED BY <3>1, <3>2, <1>b
  <2> QED BY <2>1, <2>2, <2>3
<1>c. s - ap + v <= MaxTotal /\ s \in Nat /\ p \in Int
  BY <1>a, <1>2
<1>d. /\ new = [i \in 0..NPROC |-> new[i]]
      /\ new[0] = 0 /\ new[NPROC] = s - ap + v
  BY <1>1, <1>2, <1>a, BankerAssumption
<1> HIDE DEF new
<1>4. ASSUME NEW i \in 0..NPROC
      PROVE  new[i] \in 0..MaxTotal
  <2>1. CASE i >= p
    <3>1. PICK x \in Nat : x = pre[i]
      BY <1>3
    <3>2. new[i] = x - ap + v /\ x >= before + ap /\ x <= s
      BY <2>1, <3>1, <1>3
    <3> QED BY <3>2, <1>c, BankerAssumption
  <2>2. CASE i < p
    BY <2>2, <1>3, <1>c
  <2> QED BY <2>1, <2>2, <1>c
<1>5. new \in [0..NPROC -> 0..MaxTotal]
  BY <1>4, <1>d
<1>7. ASSUME NEW i \in Slots
      PROVE  new[i] = new[i-1] + [a EXCEPT ![p] = v][i]
  <2>1. PICK j \in 0..NPROC : j = i - 1
    BY BankerAssumption
  <2>2. i \in 0..NPROC /\ pre[i] = pre[j] + a[i] /\ a[i] \in Nat
    BY <1>1, <1>2, <2>1
  <2>3. CASE i = p
    <3>1. j < p /\ i >= p
      BY <2>1, <2>3
    <3>2. new[j] = pre[j] /\ pre[j] \in Nat /\ new[i] = pre[i] - ap + v
      BY <3>1, <2>2, <1>3
    <3>3. pre[i] = pre[j] + ap /\ [a EXCEPT ![p] = v][i] = v
      BY <2>2, <2>3, <1>a
    <3> QED BY <3>2, <3>3, <2>1
  <2>4. CASE i > p
    BY <2>1, <2>2, <2>4, <1>3, <1>c
  <2>5. CASE i < p
    BY <2>1, <2>2, <2>5, <1>3, <1>c
  <2> QED BY <2>3, <2>4, <2>5, <1>c
<1>8. ASSUME NEW i \in 0..NPROC, NEW j \in 0..NPROC, i <= j
      PROVE  new[i] <= new[j]
  <2>1. pre[i] <= pre[j]
    BY <1>1, <1>8
  <2>2. CASE i >= p
    BY <2>1, <2>2, <1>8, <1>3, <1>c
  <2>3. CASE i < p /\ j >= p
    BY <2>3, <1>3
  <2>4. CASE i < p /\ j < p
    BY <2>1, <2>4, <1>3
  <2> QED BY <2>2, <2>3, <2>4, <1>c
<1> QED BY <1>5, <1>7, <1>8, <1>a, <1>d DEF SumsTo

\* The sum of zeros.
LEMMA EmptySum == SumsTo([p \in Slots |-> 0], 0)
<1> DEFINE pre == [i \in 0..NPROC |-> 0]
<1>1. pre \in [0..NPROC -> 0..MaxTotal]
  BY BankerAssumption
<1>2. pre[0] = 0 /\ pre[NPROC] = 0 /\ \A i \in Slots : pre[i] = pre[i-1] + [p \in Slots |-> 0][i]
  BY BankerAssumption DEF Slots
<1>3. \A i, j \in 0..NPROC : pre[i] <= pre[j]
  OBVIOUS
<1> HIDE DEF pre
<1> QED BY <1>1, <1>2, <1>3 DEF SumsTo

\* An operation that replaces what one slot holds and returns the difference
\* to the pool, or loses it, keeps the books.
LEMMA LedgerStep ==
  ASSUME TypeOK, NEW r \in Res, Ledger(r), NEW p \in Slots, NEW w \in Vectors,
         alloc' = [alloc EXCEPT ![p] = w], total' = total, avail'[r] \in Nat,
         lost'[r] \in Nat,
         avail'[r] + lost'[r] + w[r] = avail[r] + lost[r] + alloc[p][r]
  PROVE  Ledger(r)'
<1>1. PICK s \in 0..MaxTotal :
         /\ SumsTo(Holdings(r), s)
         /\ s + avail[r] + lost[r] = total[r]
  BY DEF Ledger
<1>2. /\ alloc[p][r] \in Nat /\ avail[r] \in Nat /\ lost[r] \in Nat
      /\ total[r] \in 0..MaxTotal /\ w[r] \in Nat
  BY BankerAssumption DEF TypeOK, Vectors
<1>3. Holdings(r) \in [Slots -> Nat] /\ Holdings(r)[p] = alloc[p][r]
  BY BankerAssumption DEF Holdings, TypeOK, Vectors
<1>4. Holdings(r)' = [Holdings(r) EXCEPT ![p] = w[r]]
  BY DEF Holdings, TypeOK, Vectors
<1>5. PICK t \in Int : t = s - alloc[p][r] + w[r]
  BY <1>2, BankerAssumption
<1>6. t + avail'[r] + lost'[r] = total[r]
  BY <1>1, <1>2, <1>5, BankerAssumption
<1>7. t <= MaxTotal
  BY <1>6, <1>2, BankerAssumption
<1>8. SumsTo([Holdings(r) EXCEPT ![p] = w[r]], s - Holdings(r)[p] + w[r])
  BY <1>1, <1>2, <1>3, <1>5, <1>7, SumUpdate
<1>9. SumsTo(Holdings(r)', t)
  BY <1>8, <1>3, <1>4, <1>5
<1>10. t \in 0..MaxTotal
  BY <1>9, BankerAssumption DEF SumsTo
<1> QED BY <1>6, <1>9, <1>10 DEF Ledger, SumsTo

-----------------------------------------------------------------------------
\* Initially the pool is empty and nobody holds anything.
LEMMA InitIInv == Init => IInv
<1> SUFFICES ASSUME Init PROVE IInv
  OBVIOUS
<1> USE DEF Init
<1>1. Zero \in Vectors /\ \A r \in Res : Zero[r] = 0
  BY BankerAssumption DEF Zero, Vectors
<1>2. TypeOK
  <2>1. nres \in 0..BANKER_RES_MAX /\ 0 \in 0..NPROC
    BY BankerAssumption
  <2> QED BY <1>1, <2>1 DEF TypeOK
<1>3. WithinClaim /\ Idle
  BY <1>1, BankerAssumption DEF WithinClaim, Idle, Slots, initproc
<1>4. ASSUME NEW r \in Res PROVE Ledger(r)
  <2>1. /\ Holdings(r) = [p \in Slots |-> 0]
        /\ avail[r] = 0 /\ lost[r] = 0 /\ total[r] = 0 /\ 0 \in 0..MaxTotal
    BY <1>1, BankerAssumption DEF Holdings
  <2> QED BY <2>1, EmptySum DEF Ledger
<1> QED BY <1>2, <1>3, <1>4 DEF IInv

\* banker_init starts a new pool with nothing handed out.
LEMMA InitStep ==
  ASSUME IInv, NEW n \in Res, NEW t \in Arrays(n), banker_init(n, t)
  PROVE  IInv'
<1> USE DEF banker_init
<1>1. /\ Zero \in Vectors /\ \A r \in Res : Zero[r] = 0
      /\ t \in Vectors /\ \A r \in Res : t[r] \in Nat /\ (r > n => t[r] = 0)
  BY BankerAssumption DEF Zero, Vectors, Arrays
<1>2. TypeOK'
  BY <1>1, BankerAssumption DEF IInv, TypeOK, Res
<1>3. WithinClaim' /\ Idle'
  BY <1>1, BankerAssumption DEF IInv, Idle, WithinClaim
<1>4. ASSUME NEW r \in Res PROVE Ledger(r)'
  <2>1. /\ Holdings(r)' = [p \in Slots |-> 0]
        /\ avail'[r] = total'[r] /\ total'[r] \in Nat /\ lost'[r] = 0
    BY <1>1, BankerAssumption DEF Holdings
  <2>2. SumsTo(Holdings(r)', 0)
    BY <2>1, EmptySum
  <2>3. 0 + avail'[r] + lost'[r] = total'[r] /\ 0 \in 0..MaxTotal
    BY <2>1, BankerAssumption
  <2> HIDE DEF banker_init
  <2> QED BY <2>2, <2>3 DEF Ledger, SumsTo
<1> QED BY <1>2, <1>3, <1>4 DEF IInv

\* What a step on slot p must satisfy to keep the invariant.
LEMMA SlotStep ==
  ASSUME IInv, NEW p \in Slots,
         alloc' \in [Slots -> Vectors], \A q \in Slots \ {p} : alloc'[q] = alloc[q],
         max' \in [Slots -> Vectors], \A q \in Slots \ {p} : max'[q] = max[q],
         active' \in [Slots -> BOOLEAN], \A q \in Slots \ {p} : active'[q] = active[q],
         UNCHANGED <<inited, nres, total>>,
         avail' \in [Res -> Nat], lost' \in [Res -> Nat],
         \A r \in Res : /\ alloc'[p][r] <= max'[p][r] /\ max'[p][r] <= total[r]
                        /\ avail'[r] + lost'[r] + alloc'[p][r]
                             = avail[r] + lost[r] + alloc[p][r],
         ~active'[p] => alloc'[p] = Zero, inited \/ ~active'[p],
         state' \in [Slots -> {"UNUSED", "USED", "ZOMBIE"}],
         pthread' \in [Slots -> 0..NPROC],
         \A q \in Slots : q \notin ThreadSlots =>
         pthread'[q] = 0 /\ (state'[q] = "UNUSED" => ~active'[q])
  PROVE  IInv'
<1>1. TypeOK /\ WithinClaim /\ Idle /\ \A r \in Res : Ledger(r)
  BY DEF IInv
<1>2. ASSUME NEW r \in Res PROVE Ledger(r)'
  <2>1. alloc' = [alloc EXCEPT ![p] = alloc'[p]] /\ alloc'[p] \in Vectors
    BY <1>1 DEF TypeOK
  <2> QED BY <1>1, <2>1, LedgerStep
<1>3. ASSUME NEW r \in Res
      PROVE  avail'[r] \in 0..MaxTotal /\ lost'[r] \in 0..MaxTotal
  <2>1. PICK s \in Nat : s + avail'[r] + lost'[r] = total[r]
    BY <1>2, BankerAssumption DEF Ledger
  <2>2. total[r] \in 0..MaxTotal /\ avail'[r] \in Nat /\ lost'[r] \in Nat
    BY <1>1 DEF TypeOK, Vectors
  <2> QED BY <2>1, <2>2, BankerAssumption
<1>4. TypeOK'
  <2>1. avail' \in Vectors /\ lost' \in Vectors
    BY <1>3 DEF Vectors
  <2> QED BY <1>1, <2>1 DEF TypeOK
<1>5. WithinClaim'
  BY <1>1 DEF WithinClaim, TypeOK
<1>6. Idle'
  BY <1>1 DEF Idle, TypeOK
<1> QED BY <1>2, <1>4, <1>5, <1>6 DEF IInv

\* A claim is raised or lowered; a slot without a claim holds nothing.
LEMMA SetMaxStep ==
  ASSUME IInv, NEW p \in Slots, state[p] = "USED", NEW n \in Res, NEW m \in Arrays(n),
         banker_set_max(p, n, m)
  PROVE  IInv'
<1> USE DEF banker_set_max
<1>1. TypeOK /\ WithinClaim /\ Idle
  BY DEF IInv
<1>2. /\ alloc[p] \in Vectors /\ m \in Vectors
      /\ \A r \in Res : /\ alloc[p][r] \in Nat /\ m[r] \in Nat
                        /\ avail[r] \in Nat /\ lost[r] \in Nat
  BY <1>1, BankerAssumption DEF TypeOK, Vectors, Arrays
<1>3. /\ alloc' = alloc /\ avail' = avail /\ lost' = lost
      /\ max' = [max EXCEPT ![p] = m] /\ active' = [active EXCEPT ![p] = TRUE]
  BY <1>1 DEF TypeOK, Idle
<1>4. /\ alloc' \in [Slots -> Vectors] /\ \A q \in Slots \ {p} : alloc'[q] = alloc[q]
      /\ max' \in [Slots -> Vectors] /\ \A q \in Slots \ {p} : max'[q] = max[q]
      /\ active' \in [Slots -> BOOLEAN] /\ \A q \in Slots \ {p} : active'[q] = active[q]
      /\ max'[p] = m /\ active'[p]
  BY <1>1, <1>2, <1>3 DEF TypeOK
<1>5. avail' \in [Res -> Nat] /\ lost' \in [Res -> Nat]
  BY <1>1, <1>2, <1>3 DEF TypeOK, Vectors
<1>6. ASSUME NEW r \in Res
      PROVE  alloc[p][r] <= m[r] /\ m[r] <= total[r]
  <2>1. CASE r <= n
    BY <2>1, <1>6, BankerAssumption DEF Res
  <2>2. CASE r > n
    <3>1. m[r] = 0 /\ total[r] = 0
      BY <2>2, <1>1 DEF Arrays, Idle
    <3>2. alloc[p][r] <= total[r]
      BY <1>1, <1>2, <3>1, BankerAssumption DEF WithinClaim, TypeOK, Vectors
    <3> QED BY <3>1, <3>2
  <2> QED BY <2>1, <2>2, BankerAssumption DEF Res
<1>7. state' \in [Slots -> {"UNUSED", "USED", "ZOMBIE"}] /\ pthread' \in [Slots -> 0..NPROC]
  BY <1>1 DEF TypeOK
<1>8. \A q \in Slots : q \notin ThreadSlots =>
         pthread'[q] = 0 /\ (state'[q] = "UNUSED" => ~active'[q])
  BY <1>1 DEF Idle, TypeOK
<1>9. \A r \in Res : /\ alloc'[p][r] <= max'[p][r] /\ max'[p][r] <= total[r]
                     /\ avail'[r] + lost'[r] + alloc'[p][r] = avail[r] + lost[r] + alloc[p][r]
  BY <1>2, <1>3, <1>4, <1>6
<1>10. inited /\ UNCHANGED <<inited, nres, total>>
  OBVIOUS
<1> HIDE DEF banker_set_max
<1> QED BY <1>4, <1>5, <1>7, <1>8, <1>9, <1>10, SlotStep

\* A granted request moves units from the pool to the slot.
LEMMA RequestStep ==
  ASSUME IInv, NEW p \in Slots, state[p] = "USED", NEW n \in Res, NEW req \in Arrays(n),
         banker_request(p, n, req)
  PROVE  IInv'
<1> DEFINE w == [r \in Res |-> alloc[p][r] + req[r]]
<1>1. TypeOK /\ WithinClaim /\ Idle
  BY DEF IInv
<1>2. /\ inited /\ n = nres /\ active[p]
      /\ \A r \in 1..n : req[r] <= max[p][r] - alloc[p][r] /\ req[r] <= avail[r]
      /\ avail' = [r \in Res |-> avail[r] - req[r]]
      /\ alloc' = [alloc EXCEPT ![p] = w]
      /\ UNCHANGED <<inited, nres, total, state, pthread, active, max, lost>>
  BY DEF banker_request
<1>3. ASSUME NEW r \in Res
      PROVE  /\ alloc[p][r] \in Nat /\ req[r] \in Nat /\ avail[r] \in Nat /\ lost[r] \in Nat
             /\ max[p][r] \in 0..MaxTotal /\ max[p][r] <= total[r]
             /\ req[r] <= max[p][r] - alloc[p][r] /\ req[r] <= avail[r]
  <2>1. /\ alloc[p][r] \in Nat /\ req[r] \in Nat /\ avail[r] \in Nat /\ lost[r] \in Nat
        /\ max[p][r] \in 0..MaxTotal /\ max[p][r] <= total[r] /\ alloc[p][r] <= max[p][r]
    BY <1>1, BankerAssumption DEF TypeOK, Vectors, Arrays, WithinClaim
  <2>2. CASE r <= n
    BY <2>1, <2>2, <1>2, BankerAssumption DEF Res
  <2>3. CASE r > n
    <3>1. req[r] = 0
      BY <2>3 DEF Arrays
    <3> QED BY <2>1, <3>1, BankerAssumption
  <2> QED BY <2>2, <2>3, BankerAssumption DEF Res
<1>4. w \in Vectors
  BY <1>3, BankerAssumption DEF Vectors
<1>5. /\ alloc' \in [Slots -> Vectors] /\ \A q \in Slots \ {p} : alloc'[q] = alloc[q]
      /\ alloc'[p] = w
  BY <1>1, <1>2, <1>4 DEF TypeOK
<1>6. /\ max' \in [Slots -> Vectors] /\ \A q \in Slots \ {p} : max'[q] = max[q]
      /\ active' \in [Slots -> BOOLEAN] /\ \A q \in Slots \ {p} : active'[q] = active[q]
      /\ max' = max /\ active'[p]
      /\ state' \in [Slots -> {"UNUSED", "USED", "ZOMBIE"}] /\ pthread' \in [Slots -> 0..NPROC]
  BY <1>1, <1>2 DEF TypeOK
<1>7. ASSUME NEW r \in Res
      PROVE  /\ alloc'[p][r] <= max'[p][r] /\ max'[p][r] <= total[r]
             /\ avail'[r] \in Nat
             /\ avail'[r] + lost'[r] + alloc'[p][r] = avail[r] + lost[r] + alloc[p][r]
  BY <1>2, <1>3, <1>5, <1>6, BankerAssumption
<1>8. avail' \in [Res -> Nat] /\ lost' \in [Res -> Nat]
  BY <1>1, <1>2, <1>3, <1>7 DEF TypeOK, Vectors
<1>9. \A q \in Slots : q \notin ThreadSlots =>
         pthread'[q] = 0 /\ (state'[q] = "UNUSED" => ~active'[q])
  BY <1>1, <1>2 DEF Idle, TypeOK
<1>10. inited /\ UNCHANGED <<inited, nres, total>>
  BY <1>2
<1> QED BY <1>5, <1>6, <1>7, <1>8, <1>9, <1>10, SlotStep

\* A release moves units back from the slot to the pool.
LEMMA ReleaseStep ==
  ASSUME IInv, NEW p \in Slots, state[p] = "USED", NEW n \in Res, NEW rel \in Arrays(n),
         banker_release(p, n, rel)
  PROVE  IInv'
<1> DEFINE w == [r \in Res |-> alloc[p][r] - rel[r]]
<1>1. TypeOK /\ WithinClaim /\ Idle
  BY DEF IInv
<1>2. /\ inited /\ n = nres /\ active[p]
      /\ \A r \in 1..n : rel[r] <= alloc[p][r]
      /\ avail' = [r \in Res |-> avail[r] + rel[r]]
      /\ alloc' = [alloc EXCEPT ![p] = w]
      /\ UNCHANGED <<inited, nres, total, state, pthread, active, max, lost>>
  BY DEF banker_release
<1>3. ASSUME NEW r \in Res
      PROVE  /\ alloc[p][r] \in 0..MaxTotal /\ rel[r] \in Nat
             /\ avail[r] \in Nat /\ lost[r] \in Nat
             /\ max[p][r] \in Nat /\ max[p][r] <= total[r] /\ alloc[p][r] <= max[p][r]
             /\ rel[r] <= alloc[p][r]
  <2>1. /\ alloc[p][r] \in 0..MaxTotal /\ rel[r] \in Nat
        /\ avail[r] \in Nat /\ lost[r] \in Nat
        /\ max[p][r] \in Nat /\ max[p][r] <= total[r] /\ alloc[p][r] <= max[p][r]
    BY <1>1, BankerAssumption DEF TypeOK, Vectors, Arrays, WithinClaim
  <2>2. CASE r <= n
    BY <2>1, <2>2, <1>2, BankerAssumption DEF Res
  <2>3. CASE r > n
    <3>1. rel[r] = 0
      BY <2>3 DEF Arrays
    <3> QED BY <2>1, <3>1, BankerAssumption
  <2> QED BY <2>2, <2>3, BankerAssumption DEF Res
<1>4. w \in Vectors
  BY <1>3, BankerAssumption DEF Vectors
<1>5. /\ alloc' \in [Slots -> Vectors] /\ \A q \in Slots \ {p} : alloc'[q] = alloc[q]
      /\ alloc'[p] = w
  BY <1>1, <1>2, <1>4 DEF TypeOK
<1>6. /\ max' \in [Slots -> Vectors] /\ \A q \in Slots \ {p} : max'[q] = max[q]
      /\ active' \in [Slots -> BOOLEAN] /\ \A q \in Slots \ {p} : active'[q] = active[q]
      /\ max' = max /\ active'[p]
      /\ state' \in [Slots -> {"UNUSED", "USED", "ZOMBIE"}] /\ pthread' \in [Slots -> 0..NPROC]
  BY <1>1, <1>2 DEF TypeOK
<1>7. ASSUME NEW r \in Res
      PROVE  /\ alloc'[p][r] <= max'[p][r] /\ max'[p][r] <= total[r]
             /\ avail'[r] \in Nat
             /\ avail'[r] + lost'[r] + alloc'[p][r] = avail[r] + lost[r] + alloc[p][r]
  BY <1>2, <1>3, <1>5, <1>6, BankerAssumption
<1>8. avail' \in [Res -> Nat] /\ lost' \in [Res -> Nat]
  BY <1>1, <1>2, <1>3, <1>7 DEF TypeOK, Vectors
<1>9. \A q \in Slots : q \notin ThreadSlots =>
         pthread'[q] = 0 /\ (state'[q] = "UNUSED" => ~active'[q])
  BY <1>1, <1>2 DEF Idle, TypeOK
<1>10. inited /\ UNCHANGED <<inited, nres, total>>
  BY <1>2
<1> QED BY <1>5, <1>6, <1>7, <1>8, <1>9, <1>10, SlotStep

\* allocproc drops what is left in the slot: nothing, unless a thread died
\* there.
LEMMA AllocStep ==
  ASSUME IInv, NEW p \in Slots, NEW leader \in 0..NPROC, allocproc(p, leader)
  PROVE  IInv'
<1> USE DEF allocproc
<1>1. TypeOK /\ WithinClaim /\ Idle
  BY DEF IInv
<1>2. Zero \in Vectors /\ \A r \in Res : Zero[r] = 0
  BY BankerAssumption DEF Zero, Vectors
<1>3. /\ alloc' \in [Slots -> Vectors] /\ \A q \in Slots \ {p} : alloc'[q] = alloc[q]
      /\ max' \in [Slots -> Vectors] /\ \A q \in Slots \ {p} : max'[q] = max[q]
      /\ active' \in [Slots -> BOOLEAN] /\ \A q \in Slots \ {p} : active'[q] = active[q]
      /\ alloc'[p] = Zero /\ max'[p] = Zero /\ ~active'[p]
  BY <1>1, <1>2 DEF TypeOK
<1>4. state' \in [Slots -> {"UNUSED", "USED", "ZOMBIE"}] /\ pthread' \in [Slots -> 0..NPROC]
  BY <1>1 DEF TypeOK
<1>5. /\ avail' \in [Res -> Nat] /\ avail' = avail /\ UNCHANGED <<inited, nres, total>>
      /\ lost' = [r \in Res |-> lost[r] + alloc[p][r]]
  BY <1>1, BankerAssumption DEF TypeOK, Vectors
<1>6. ASSUME NEW r \in Res
      PROVE  /\ alloc'[p][r] <= max'[p][r] /\ max'[p][r] <= total[r]
             /\ lost'[r] \in Nat
             /\ avail'[r] + lost'[r] + alloc'[p][r] = avail[r] + lost[r] + alloc[p][r]
  <2>1. alloc[p][r] \in Nat /\ avail[r] \in Nat /\ lost[r] \in Nat /\ total[r] \in Nat
    BY <1>1, BankerAssumption DEF TypeOK, Vectors
  <2>2. /\ alloc'[p][r] = 0 /\ max'[p][r] = 0 /\ avail'[r] = avail[r]
        /\ lost'[r] = lost[r] + alloc[p][r]
    BY <1>2, <1>3, <1>5
  <2> HIDE DEF allocproc
  <2> QED BY <2>1, <2>2
<1>7. lost' \in [Res -> Nat]
  BY <1>5, <1>6
<1>8. \A q \in Slots : q \notin ThreadSlots =>
         pthread'[q] = 0 /\ (state'[q] = "UNUSED" => ~active'[q])
  BY <1>1 DEF Idle, TypeOK
<1> HIDE DEF allocproc
<1> QED BY <1>3, <1>4, <1>5, <1>6, <1>7, <1>8, SlotStep

\* A step that changes only the state of a slot, or reaps a thread.
LEMMA StateStep ==
  ASSUME IInv, NEW p \in Slots, exit(p) \/ freethread(p)
  PROVE  IInv'
<1>1. TypeOK /\ WithinClaim /\ Idle /\ \A r \in Res : Ledger(r)
  BY DEF IInv
<1>2. TypeOK' /\ WithinClaim'
  BY <1>1, BankerAssumption DEF TypeOK, WithinClaim, exit, freethread
<1>3. \A r \in Res : Ledger(r)'
  BY <1>1 DEF Ledger, Holdings, exit, freethread
<1>4. Idle'
  BY <1>1 DEF Idle, TypeOK, exit, freethread
<1> QED BY <1>2, <1>3, <1>4 DEF IInv

\* A reaped process gives back all it holds.
LEMMA FreeProcStep ==
  ASSUME IInv, NEW p \in Slots, freeproc(p)
  PROVE  IInv'
<1>1. TypeOK /\ WithinClaim /\ Idle /\ \A r \in Res : Ledger(r)
  BY DEF IInv
<1>2. /\ banker_release_proc(p) /\ state' = [state EXCEPT ![p] = "UNUSED"]
      /\ UNCHANGED <<inited, nres, total, pthread, lost>>
  BY DEF freeproc
<1>3. CASE ~(inited /\ active[p])
  <2>1. UNCHANGED <<avail, alloc, max, active>> /\ ~active[p]
    BY <1>1, <1>2, <1>3 DEF banker_release_proc, Idle
  <2>2. TypeOK' /\ WithinClaim'
    BY <1>1, <1>2, <2>1 DEF TypeOK, WithinClaim
  <2>3. \A r \in Res : Ledger(r)'
    BY <1>1, <1>2, <2>1 DEF Ledger, Holdings
  <2>4. Idle'
    BY <1>1, <1>2, <2>1 DEF Idle, TypeOK
  <2> QED BY <2>2, <2>3, <2>4 DEF IInv
<1>4. CASE inited /\ active[p]
  <2>1. /\ avail' = [r \in Res |-> IF r <= nres THEN avail[r] + alloc[p][r] ELSE avail[r]]
        /\ alloc' = [alloc EXCEPT ![p] = [r \in Res |-> IF r <= nres THEN 0 ELSE alloc[p][r]]]
        /\ max' = [max EXCEPT ![p] = [r \in Res |-> IF r <= nres THEN 0 ELSE max[p][r]]]
        /\ active' = [active EXCEPT ![p] = FALSE]
    BY <1>2, <1>4 DEF banker_release_proc
  <2>2. ASSUME NEW r \in Res
        PROVE  /\ alloc[p][r] \in Nat /\ avail[r] \in Nat /\ total[r] \in Nat /\ lost[r] \in Nat
               /\ r > nres => alloc[p][r] = 0 /\ max[p][r] = 0
    <3>1. /\ alloc[p][r] \in Nat /\ avail[r] \in Nat /\ total[r] \in Nat /\ lost[r] \in Nat
          /\ max[p][r] \in Nat /\ alloc[p][r] <= max[p][r] /\ max[p][r] <= total[r]
      BY <1>1, BankerAssumption DEF TypeOK, Vectors, WithinClaim
    <3>2. r > nres => total[r] = 0
      BY <1>1 DEF Idle
    <3> QED BY <3>1, <3>2
  <2>3. Zero \in Vectors /\ \A r \in Res : Zero[r] = 0
    BY BankerAssumption DEF Zero, Vectors
  <2>4. /\ [r \in Res |-> IF r <= nres THEN 0 ELSE alloc[p][r]] = Zero
        /\ [r \in Res |-> IF r <= nres THEN 0 ELSE max[p][r]] = Zero
    <3>1. \A r \in Res : r <= nres \/ r > nres
      BY <1>1, BankerAssumption DEF TypeOK, Res
    <3> QED BY <2>2, <3>1 DEF Zero
  <2>5. alloc' = [alloc EXCEPT ![p] = Zero] /\ max' = [max EXCEPT ![p] = Zero]
    BY <2>1, <2>4
  <2>6. /\ alloc' \in [Slots -> Vectors] /\ \A q \in Slots \ {p} : alloc'[q] = alloc[q]
        /\ max' \in [Slots -> Vectors] /\ \A q \in Slots \ {p} : max'[q] = max[q]
        /\ active' \in [Slots -> BOOLEAN] /\ \A q \in Slots \ {p} : active'[q] = active[q]
        /\ alloc'[p] = Zero /\ max'[p] = Zero /\ ~active'[p]
    BY <1>1, <2>1, <2>3, <2>5 DEF TypeOK
  <2>7. ASSUME NEW r \in Res
        PROVE  /\ alloc'[p][r] <= max'[p][r] /\ max'[p][r] <= total[r]
               /\ avail'[r] \in Nat
               /\ avail'[r] + lost'[r] + alloc'[p][r] = avail[r] + lost[r] + alloc[p][r]
    <3>1. alloc'[p][r] = 0 /\ max'[p][r] = 0
      BY <2>3, <2>6
    <3>2. avail'[r] = avail[r] + alloc[p][r]
      <4>1. r <= nres \/ r > nres
        BY <1>1, BankerAssumption DEF TypeOK, Res
      <4> QED BY <4>1, <2>1, <2>2
    <3> QED BY <3>1, <3>2, <1>2, <2>2
  <2>8. avail' \in [Res -> Nat] /\ lost' \in [Res -> Nat]
    BY <1>1, <1>2, <2>1, <2>2, <2>7 DEF TypeOK, Vectors
  <2>9. state' \in [Slots -> {"UNUSED", "USED", "ZOMBIE"}] /\ pthread' \in [Slots -> 0..NPROC]
    BY <1>1, <1>2 DEF TypeOK
  <2>10. \A q \in Slots : q \notin ThreadSlots =>
         pthread'[q] = 0 /\ (state'[q] = "UNUSED" => ~active'[q])
    BY <1>1, <1>2, <2>6 DEF Idle, TypeOK
  <2> QED BY <1>2, <2>6, <2>7, <2>8, <2>9, <2>10, SlotStep
<1> QED BY <1>3, <1>4

-----------------------------------------------------------------------------
\* Every step of the system keeps the invariant.
LEMMA NextIInv == IInv /\ [Next]_vars => IInv'
<1> SUFFICES ASSUME IInv, [Next]_vars PROVE IInv'
  OBVIOUS
<1>1. CASE UNCHANGED vars
  BY <1>1 DEF vars, IInv, TypeOK, WithinClaim, Idle, Ledger, Holdings
<1>2. ASSUME NEW p \in Slots, NEW leader \in 0..NPROC, allocproc(p, leader)
      PROVE  IInv'
  BY <1>2, AllocStep
<1>3. ASSUME NEW p \in Slots, exit(p) \/ freethread(p)
      PROVE  IInv'
  BY <1>3, StateStep
<1>4. ASSUME NEW p \in Slots, freeproc(p)
      PROVE  IInv'
  BY <1>4, FreeProcStep
<1>5. ASSUME NEW p \in Slots, BankerCall(p)
      PROVE  IInv'
  BY <1>5, InitStep, SetMaxStep, RequestStep, ReleaseStep DEF BankerCall
<1> QED BY <1>1, <1>2, <1>3, <1>4, <1>5 DEF Next

\* The inductive invariant holds in every reachable state.
THEOREM Invariance == Spec => []IInv
<1> QED BY InitIInv, NextIInv, PTL DEF Spec

\* The banker's fields keep their types and every allocation stays within its
\* claim and every claim within the pool, for any number of processes and
\* resources: no sequence of calls, exits, reaps and re-initialisations breaks
\* the tests of banker_request and banker_set_max.
THEOREM ClaimsHold == Spec => [](TypeOK /\ WithinClaim)
<1>1. IInv => TypeOK /\ WithinClaim
  BY DEF IInv
<1> QED BY <1>1, Invariance, PTL

\* No unit is lost or granted twice: banker_request, banker_release,
\* banker_release_proc and the reuse of slots keep what is available, what the
\* slots hold and what died with threads equal to the totals.
THEOREM PoolConserved == Spec => []Conserved
<1>1. IInv => Conserved
  BY DEF IInv, Ledger, SumsTo, Holdings, Conserved, HoldsUpTo
<1> QED BY <1>1, Invariance, PTL

\* A slot that is only used by processes, which wait() reaps, holds nothing
\* once it is free: freeproc calls banker_release_proc before the slot can be
\* used again.
THEOREM ReapedHoldNothing == Spec => []NothingLeftBehind
<1>1. IInv => NothingLeftBehind
  BY DEF IInv, Idle, NothingLeftBehind
<1> QED BY <1>1, Invariance, PTL
=============================================================================
