------------------------------- MODULE Banker -------------------------------
(***************************************************************************)
(* The banker's algorithm of kernel/proc/proc.c: one global pool of up to  *)
(* BANKER_RES_MAX resources (struct banker) and, in every slot of the      *)
(* process table, a claim (bkr_max) and an allocation (bkr_alloc).  Every  *)
(* operation runs under banker.lock, so each is one step.  Slots are       *)
(* allocated by fork or clone (allocproc), become zombies in exit, and are *)
(* reaped by wait (freeproc) or, for threads, by join (freethread).        *)
(***************************************************************************)
EXTENDS Integers, FiniteSets, SequencesExt

CONSTANTS NPROC,            \* slots of the process table
          BANKER_RES_MAX,   \* length of the resource vectors
          MaxTotal,         \* bound on the totals a caller declares
          ThreadSlots       \* slots that clone() may use

ASSUME BankerAssumption ==
  /\ NPROC \in Nat /\ NPROC > 0
  /\ BANKER_RES_MAX \in Nat /\ BANKER_RES_MAX > 0
  /\ MaxTotal \in Nat

ASSUME ThreadSlotsAssumption == ThreadSlots \subseteq 1..NPROC

VARIABLES inited, nres, total, avail,   \* struct banker
          state, pthread,               \* p->state, p->pthread (0: not a thread)
          active, max, alloc,           \* p->bkr_active, p->bkr_max, p->bkr_alloc
          lost    \* not in the code: units cleared from a slot without a release

vars == <<inited, nres, total, avail, state, pthread, active, max, alloc, lost>>

Slots == 1..NPROC
initproc == 1     \* userinit takes the first slot; it never exits
Res == 1..BANKER_RES_MAX
Vectors == [Res -> 0..MaxTotal]
Zero == [r \in Res |-> 0]

\* An array of n entries as the caller passes it; the entries from n on are
\* not read, so they are 0.
Arrays(n) == {v \in Vectors : \A r \in Res : r > n => v[r] = 0}

-----------------------------------------------------------------------------
(* The safety check of banker_is_safe_locked: passes over the table in slot *)
(* order, each finishing every process whose need fits into work.           *)

\* The claims mx and allocations al are parameters, so that a request can be
\* evaluated on the state it would lead to.
banker_need_ok(mx, al, p, work) ==
  \A r \in 1..nres : mx[p][r] - al[p][r] <= work[r]

Visit(mx, al, st, p) ==
  IF p \in st.finish \/ ~banker_need_ok(mx, al, p, st.work)
  THEN st
  ELSE [work |-> [r \in Res |-> IF r <= nres THEN st.work[r] + al[p][r] ELSE st.work[r]],
        finish |-> st.finish \cup {p}]

Pass(mx, al, st) ==
  FoldLeft(LAMBDA s, p : Visit(mx, al, s, p), st, [i \in Slots |-> i])

\* Mutant: the table is scanned only once.
SafeOnePass(av, mx, al) ==
  Pass(mx, al, [work |-> av,
                finish |-> {p \in Slots : state[p] = "UNUSED" \/ ~active[p]}]).finish = Slots

\* Each pass that makes progress finishes a process, so NPROC passes reach
\* the fixed point at which the loop of the code stops.
banker_is_safe_locked(av, mx, al) ==
  LET start == [work |-> av,
                finish |-> {p \in Slots : state[p] = "UNUSED" \/ ~active[p]}]
      after[k \in 0..NPROC] == IF k = 0 THEN start ELSE Pass(mx, al, after[k-1])
  IN after[NPROC].finish = Slots

banker_any_alloc_locked ==
  \E p \in Slots : active[p] /\ \E r \in 1..nres : alloc[p][r] > 0

-----------------------------------------------------------------------------
Init ==
  /\ inited = FALSE /\ nres = 0
  /\ total = Zero /\ avail = Zero
  /\ state = [p \in Slots |-> IF p = initproc THEN "USED" ELSE "UNUSED"]
  /\ pthread = [p \in Slots |-> 0]
  /\ active = [p \in Slots |-> FALSE]
  /\ max = [p \in Slots |-> Zero]
  /\ alloc = [p \in Slots |-> Zero]
  /\ lost = Zero

\* A new pool is accepted only while nobody holds anything of the old one.
banker_init(n, t) ==
  /\ ~(inited /\ banker_any_alloc_locked)
  /\ inited' = TRUE /\ nres' = n
  /\ total' = t /\ avail' = t
  /\ active' = [p \in Slots |-> FALSE]
  /\ max' = [p \in Slots |-> Zero]
  /\ alloc' = [p \in Slots |-> Zero]
  /\ lost' = Zero
  /\ UNCHANGED <<state, pthread>>

\* Mutant: a claim may drop below what is already allocated.
SetMaxBelowAlloc(p, n, m) ==
  /\ inited /\ n = nres
  /\ \A r \in 1..n : m[r] <= total[r]
  /\ alloc' = IF active[p] THEN alloc ELSE [alloc EXCEPT ![p] = Zero]
  /\ active' = [active EXCEPT ![p] = TRUE]
  /\ max' = [max EXCEPT ![p] = m]
  /\ UNCHANGED <<inited, nres, total, avail, state, pthread, lost>>

banker_set_max(p, n, m) ==
  /\ inited /\ n = nres
  /\ \A r \in 1..n : m[r] <= total[r] /\ m[r] >= alloc[p][r]
  /\ alloc' = IF active[p] THEN alloc ELSE [alloc EXCEPT ![p] = Zero]
  /\ active' = [active EXCEPT ![p] = TRUE]
  /\ max' = [max EXCEPT ![p] = m]
  /\ UNCHANGED <<inited, nres, total, avail, state, pthread, lost>>

\* Mutant: the safety check is left out.
RequestUnchecked(p, n, req) ==
  /\ inited /\ n = nres /\ active[p]
  /\ \A r \in 1..n : req[r] <= max[p][r] - alloc[p][r] /\ req[r] <= avail[r]
  /\ avail' = [r \in Res |-> avail[r] - req[r]]
  /\ alloc' = [alloc EXCEPT ![p] = [r \in Res |-> alloc[p][r] + req[r]]]
  /\ UNCHANGED <<inited, nres, total, state, pthread, active, max, lost>>

\* The grant is made, checked, and rolled back when the result is unsafe; a
\* refused request leaves the state as it was.
banker_request(p, n, req) ==
  LET av == [r \in Res |-> avail[r] - req[r]]
      al == [alloc EXCEPT ![p] = [r \in Res |-> alloc[p][r] + req[r]]]
  IN
  /\ inited /\ n = nres /\ active[p]
  /\ \A r \in 1..n : req[r] <= max[p][r] - alloc[p][r] /\ req[r] <= avail[r]
  /\ banker_is_safe_locked(av, max, al)
  /\ avail' = av
  /\ alloc' = al
  /\ UNCHANGED <<inited, nres, total, state, pthread, active, max, lost>>

banker_release(p, n, rel) ==
  /\ inited /\ n = nres /\ active[p]
  /\ \A r \in 1..n : rel[r] <= alloc[p][r]
  /\ alloc' = [alloc EXCEPT ![p] = [r \in Res |-> alloc[p][r] - rel[r]]]
  /\ avail' = [r \in Res |-> avail[r] + rel[r]]
  /\ UNCHANGED <<inited, nres, total, state, pthread, active, max, lost>>

\* Mutant: the claim is dropped but the units are not returned to the pool.
ReleaseProcLosesUnits(p) ==
  /\ alloc' = [alloc EXCEPT ![p] = Zero]
  /\ max' = [max EXCEPT ![p] = Zero]
  /\ active' = [active EXCEPT ![p] = FALSE]
  /\ UNCHANGED avail

\* Mutant: the units stay in the slot of a reaped process.
ReleaseProcNothing(p) ==
  /\ active' = [active EXCEPT ![p] = FALSE]
  /\ UNCHANGED <<avail, alloc, max>>

banker_release_proc(p) ==
  IF inited /\ active[p]
  THEN /\ avail' = [r \in Res |-> IF r <= nres THEN avail[r] + alloc[p][r] ELSE avail[r]]
       /\ alloc' = [alloc EXCEPT ![p] = [r \in Res |-> IF r <= nres THEN 0 ELSE alloc[p][r]]]
       /\ max' = [max EXCEPT ![p] = [r \in Res |-> IF r <= nres THEN 0 ELSE max[p][r]]]
       /\ active' = [active EXCEPT ![p] = FALSE]
  ELSE UNCHANGED <<avail, alloc, max, active>>

-----------------------------------------------------------------------------
(* The life of a slot, as far as the banker sees it. *)

\* fork() and clone() both start from allocproc, which clears the claim and
\* the allocation left in the slot.  clone() makes p a thread of leader.
allocproc(p, leader) ==
  /\ state[p] = "UNUSED"
  /\ leader # 0 => /\ p \in ThreadSlots
                   /\ state[leader] = "USED" /\ pthread[leader] = 0
  /\ state' = [state EXCEPT ![p] = "USED"]
  /\ pthread' = [pthread EXCEPT ![p] = leader]
  /\ active' = [active EXCEPT ![p] = FALSE]
  /\ max' = [max EXCEPT ![p] = Zero]
  /\ alloc' = [alloc EXCEPT ![p] = Zero]
  /\ lost' = [r \in Res |-> lost[r] + alloc[p][r]]
  /\ UNCHANGED <<inited, nres, total, avail>>

\* Mutant: the claim ends with the process, the units are to come back later.
ExitDropsClaim(p) ==
  /\ state[p] = "USED" /\ p # initproc
  /\ \A q \in Slots : pthread[q] # p
  /\ state' = [state EXCEPT ![p] = "ZOMBIE"]
  /\ active' = [active EXCEPT ![p] = FALSE]
  /\ UNCHANGED <<inited, nres, total, avail, pthread, max, alloc, lost>>

\* A leader first kills and reaps its threads (tgroup_kill_and_reap).
exit(p) ==
  /\ state[p] = "USED" /\ p # initproc
  /\ \A q \in Slots : pthread[q] # p
  /\ state' = [state EXCEPT ![p] = "ZOMBIE"]
  /\ UNCHANGED <<inited, nres, total, avail, pthread, active, max, alloc, lost>>

freeproc(p) ==
  /\ state[p] = "ZOMBIE" /\ pthread[p] = 0
  /\ banker_release_proc(p)
  /\ state' = [state EXCEPT ![p] = "UNUSED"]
  /\ UNCHANGED <<inited, nres, total, pthread, lost>>

\* freethread, called by join() and tgroup_kill_and_reap(), does not call
\* banker_release_proc.
freethread(p) ==
  /\ state[p] = "ZOMBIE" /\ pthread[p] # 0
  /\ state' = [state EXCEPT ![p] = "UNUSED"]
  /\ pthread' = [pthread EXCEPT ![p] = 0]
  /\ UNCHANGED <<inited, nres, total, avail, active, max, alloc, lost>>

\* A banker system call of the running process in slot p.
BankerCall(p) ==
  /\ state[p] = "USED"
  /\ \E n \in Res : \E v \in Arrays(n) :
       \/ banker_init(n, v)
       \/ banker_set_max(p, n, v)
       \/ banker_request(p, n, v)
       \/ banker_release(p, n, v)

Next ==
  \E p \in Slots :
    \/ \E leader \in 0..NPROC : allocproc(p, leader)
    \/ exit(p)
    \/ freeproc(p)
    \/ freethread(p)
    \/ BankerCall(p)

Spec == Init /\ [][Next]_vars

-----------------------------------------------------------------------------
(* Correctness. *)

\* struct banker and the banker's fields of the process table keep their types.
TypeOK ==
  /\ inited \in BOOLEAN /\ nres \in 0..BANKER_RES_MAX
  /\ total \in Vectors /\ avail \in Vectors
  /\ state \in [Slots -> {"UNUSED", "USED", "ZOMBIE"}]
  /\ pthread \in [Slots -> 0..NPROC]
  /\ active \in [Slots -> BOOLEAN]
  /\ max \in [Slots -> Vectors] /\ alloc \in [Slots -> Vectors]
  /\ lost \in Vectors

\* No allocation exceeds its claim and no claim the pool, in any slot, live,
\* zombie or free: what banker_request and banker_set_max test one call at a
\* time stays true across re-initialisation and reuse of slots.
WithinClaim ==
  \A p \in Slots : \A r \in Res : alloc[p][r] <= max[p][r] /\ max[p][r] <= total[r]

\* pre[i] is what slots 1..i hold of resource r.
HoldsUpTo(r, pre) ==
  /\ pre[0] = 0
  /\ \A i \in Slots : pre[i] = pre[i-1] + alloc[i][r]

\* Conservation: what is available, what the slots hold and what threads took
\* with them add up to the total, for every resource, whatever calls, exits,
\* reaps and re-initialisations happened: banker_request, its roll-back,
\* banker_release and banker_release_proc neither lose nor invent a unit.
Conserved ==
  \A r \in Res : \E pre \in [0..NPROC -> 0..MaxTotal] :
    HoldsUpTo(r, pre) /\ pre[NPROC] + avail[r] + lost[r] = total[r]

\* A process that is reaped by wait() leaves no units behind in its slot, also
\* when the pool was set up anew after it exited, so that allocproc has nothing
\* to clear there; only a thread can take units with it.
NothingLeftBehind ==
  \A p \in Slots \ ThreadSlots : state[p] = "UNUSED" => alloc[p] = Zero

\* The definition of a safe state: the processes with a claim can be ordered
\* so that each one's remaining need fits into what is available plus what
\* the ones before it hold.
Claimants == {p \in Slots : state[p] # "UNUSED" /\ active[p]}

Safe ==
  \E rank \in [Claimants -> 1..NPROC] :
    /\ \A p, q \in Claimants : p # q => rank[p] # rank[q]
    /\ \A p \in Claimants, r \in 1..nres :
         max[p][r] - alloc[p][r]
           <= avail[r] + MapThenSumSet(LAMBDA q : alloc[q][r],
                                       {q \in Claimants : rank[q] < rank[p]})

\* The greedy passes of banker_is_safe_locked decide exactly the existence of
\* such an order.
SafetyCheckExact == banker_is_safe_locked(avail, max, alloc) <=> Safe

\* No thread has died with a claim.
Complete == lost = Zero /\ \A p \in Slots : state[p] = "UNUSED" => ~active[p]

\* As long as no thread dies with a claim, a step that changes no live claim
\* keeps a safe state safe: granting, releasing, declaring a first claim,
\* exiting and being reaped by wait() never endanger the others.
OnlyClaimsEndanger ==
  [][/\ Safe /\ Complete /\ Complete'
     /\ \A p \in Slots : active[p] /\ active'[p] => max'[p] = max[p]
     => Safe']_vars

\* A step that increases an allocation ends in a safe state, even when the
\* state before it was unsafe.
GrantsAreSafe ==
  [][(\E p \in Slots, r \in Res : alloc'[p][r] > alloc[p][r]) => Safe']_vars
=============================================================================
