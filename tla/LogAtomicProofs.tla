--------------------------- MODULE LogAtomicProofs --------------------------
(***************************************************************************)
(* The log implements AtomicDisk for any number of processes, blocks and   *)
(* crashes, as long as no buffer is recycled under it (PressureUntil = 0). *)
(* DiskInv says, for every phase of a commit and of a recovery, which      *)
(* copies of a logged block agree: the one in the cache, the one in the    *)
(* log and the one at home.                                                *)
(***************************************************************************)
EXTENDS LogProofs

Unique(s) == \A i, j \in 1..Len(s) : s[i] = s[j] => i = j

\* A recovery with header h, log blocks l and home blocks d.
Rec(h, l, d) ==
  [b \in Block |-> IF \E i \in 1..Len(h) : h[i] = b
                   THEN l[CHOOSE i \in 1..Len(h) : h[i] = b] ELSE d[b]]

\* The first k log blocks are the blocks s names, as image m has them.
Copied(s, k, m) == \A i \in 1..k : logblk[i] = m[s[i]]

Clean == \A b \in Block : (\A i \in 1..n : lh[i] # b) => cache[b] = disk[b]

DiskInv ==
  /\ Unique(lh) /\ Unique(head)
  /\ phase \in Recovering => cache = disk
  /\ phase \notin Recovering => Clean
  /\ phase \in {"none", "write_log", "write_head", "end"} => head = << >>
  /\ phase \in {"end", "erase", "clear"} => lh = << >>
  /\ phase \in {"install", "recover"} => head = lh
  /\ phase = "write_log" => Copied(lh, tail, cache)
  /\ phase \in {"write_head", "install"} => Copied(lh, n, cache)
  /\ phase \in {"install", "recover"} => Copied(lh, tail, disk)
  /\ phase \in {"erase", "clear"} => Copied(head, Len(head), disk)

-----------------------------------------------------------------------------
\* What recovery makes of a block that the header names, and of one it does
\* not.
LEMMA RecFacts ==
  ASSUME NEW h \in Seq(Block), Unique(h), NEW l, NEW d
  PROVE  /\ \A i \in 1..Len(h) : Rec(h, l, d)[h[i]] = l[i]
         /\ \A b \in Block : (\A i \in 1..Len(h) : h[i] # b) => Rec(h, l, d)[b] = d[b]
<1>1. ASSUME NEW i \in 1..Len(h) PROVE Rec(h, l, d)[h[i]] = l[i]
  <2>1. h[i] \in Block
    OBVIOUS
  <2>2. (CHOOSE j \in 1..Len(h) : h[j] = h[i]) = i
    <3> DEFINE c == CHOOSE j \in 1..Len(h) : h[j] = h[i]
    <3>1. c \in 1..Len(h) /\ h[c] = h[i]
      OBVIOUS
    <3> HIDE DEF c
    <3>2. c = i
      BY <3>1 DEF Unique
    <3> QED BY <3>2 DEF c
  <2> QED BY <2>1, <2>2 DEF Rec
<1> QED BY <1>1 DEF Rec

\* An empty header changes nothing.
LEMMA RecEmpty ==
  ASSUME NEW l, NEW d \in [Block -> Val]
  PROVE  Rec(<< >>, l, d) = d
BY DEF Rec

\* Two recoveries that agree on every block are the same image.
LEMMA RecSame ==
  ASSUME NEW h, NEW l, NEW d, NEW f \in [Block -> Val],
         \A b \in Block : Rec(h, l, d)[b] = f[b]
  PROVE  Rec(h, l, d) = f
BY DEF Rec

\* Recovered of the model is Rec of the disk as it is.
LEMMA RecoveredIs == Recovered = Rec(head, logblk, disk)
BY DEF Recovered, Rec

\* A home block that the header names does not matter to a recovery.
LEMMA RecInstall ==
  ASSUME NEW h \in Seq(Block), Unique(h), NEW l, NEW d \in [Block -> Val],
         NEW k \in 1..Len(h), NEW v
  PROVE  Rec(h, l, [d EXCEPT ![h[k]] = v]) = Rec(h, l, d)
<1>1. \A b \in Block : (\A i \in 1..Len(h) : h[i] # b) => [d EXCEPT ![h[k]] = v][b] = d[b]
  OBVIOUS
<1> QED BY <1>1 DEF Rec

\* When every block the header names is home, a recovery changes nothing.
LEMMA RecHome ==
  ASSUME NEW h \in Seq(Block), Unique(h), NEW l, NEW d \in [Block -> Val],
         \A i \in 1..Len(h) : l[i] = d[h[i]]
  PROVE  Rec(h, l, d) = d
<1>1. ASSUME NEW b \in Block PROVE Rec(h, l, d)[b] = d[b]
  BY RecFacts
<1> QED BY <1>1, RecSame

-----------------------------------------------------------------------------
\* At the start nothing is logged and the cache is the disk.
LEMMA DiskInit == Init => DiskInv
BY DEF Init, DiskInv, Unique, Clean, Copied, Recovering, n

\* Steps that move processes only.
LEMMA DiskFrame ==
  ASSUME DiskInv,
         UNCHANGED <<lh, cache, disk, logblk, head>>,
         \/ UNCHANGED <<phase, tail>>
         \/ phase = "none" /\ phase' = "none"
         \/ phase = "none" /\ phase' = "write_log" /\ tail' = 0
         \/ phase = "none" /\ phase' = "end" /\ lh = << >>
         \/ phase = "end" /\ phase' = "none"
  PROVE  DiskInv'
<1>1. Unique(lh)' /\ Unique(head)' /\ n' = n
  BY DEF DiskInv, Unique, n
<1>2. Clean' <=> Clean
  BY <1>1 DEF Clean
<1>3. CASE UNCHANGED <<phase, tail>>
  BY <1>1, <1>2, <1>3 DEF DiskInv, Copied, Unique
<1>4. CASE phase = "none" /\ phase' = "none"
  BY <1>1, <1>2, <1>4 DEF DiskInv, Copied, Recovering
<1>5. CASE phase = "none" /\ phase' = "write_log" /\ tail' = 0
  BY <1>1, <1>2, <1>5 DEF DiskInv, Copied, Recovering
<1>6. CASE phase = "none" /\ phase' = "end" /\ lh = << >>
  BY <1>1, <1>2, <1>6 DEF DiskInv, Copied, Recovering
<1>7. CASE phase = "end" /\ phase' = "none"
  BY <1>1, <1>2, <1>7 DEF DiskInv, Copied, Recovering
<1> QED BY <1>3, <1>4, <1>5, <1>6, <1>7

\* log_write changes the cache only, of a block that it logs.
LEMMA DiskWrite ==
  ASSUME SpaceInv, DiskInv, NEW p \in Proc, NEW b \in Block, NEW v \in Val, log_write(p, b, v)
  PROVE  DiskInv'
<1>1. pc[p] = "op" /\ UNCHANGED <<phase, tail, disk, logblk, head>>
  BY DEF log_write, diskvars
<1>2. phase = "none"
  BY <1>1 DEF SpaceInv, TypeOK, Control, Ops, Phases, Committing, Recovering
<1>3. CASE UNCHANGED <<lh, cache>>
  BY <1>1, <1>3, DiskFrame
<1>4. CASE cache' = [cache EXCEPT ![b] = v] /\ b \in Logged /\ UNCHANGED lh
  <2>1. \A c \in Block : (\A i \in 1..n : lh[i] # c) => c # b
    BY <1>4 DEF Logged
  <2>2. Clean'
    BY <1>1, <1>2, <1>4, <2>1 DEF DiskInv, Clean, Recovering, SpaceInv, TypeOK, n
  <2> QED BY <1>1, <1>2, <1>4, <2>2 DEF DiskInv, Unique, Recovering
<1>5. CASE cache' = [cache EXCEPT ![b] = v] /\ b \notin Logged /\ lh' = Append(lh, b)
  <2>1. lh \in Seq(Block) /\ n \in Nat /\ n = Len(lh)
    BY DEF SpaceInv, TypeOK, n
  <2>2. n' = n + 1 /\ lh'[n + 1] = b /\ \A i \in 1..n : lh'[i] = lh[i]
    BY <1>5, <2>1, AppendFacts DEF n
  <2>3. \A i \in 1..n : lh[i] # b
    BY <1>5 DEF Logged
  <2>4. Unique(lh')
    <3> SUFFICES ASSUME NEW i \in 1..n+1, NEW j \in 1..n+1, lh'[i] = lh'[j] PROVE i = j
      BY <2>2 DEF Unique, n
    <3>1. i \in 1..n \/ i = n + 1
      BY <2>1
    <3>2. j \in 1..n \/ j = n + 1
      BY <2>1
    <3> QED BY <3>1, <3>2, <2>1, <2>2, <2>3 DEF DiskInv, Unique
  <2>5. Clean'
    <3> SUFFICES ASSUME NEW c \in Block, \A i \in 1..n+1 : lh'[i] # c PROVE cache'[c] = disk'[c]
      BY <2>2 DEF Clean
    <3>1. c # b /\ \A i \in 1..n : lh[i] # c
      BY <2>1, <2>2
    <3>2. cache'[c] = cache[c]
      BY <3>1, <1>5 DEF SpaceInv, TypeOK
    <3> QED BY <3>1, <3>2, <1>1, <1>2 DEF DiskInv, Clean, Recovering
  <2> QED BY <1>1, <1>2, <2>4, <2>5 DEF DiskInv, Recovering, Unique
<1> QED BY <1>3, <1>4, <1>5 DEF log_write

-----------------------------------------------------------------------------
(* The writes of a commit and of a recovery. *)

\* Copying a block to the log: nobody sees it before the header names it.
LEMMA WriteLogStep ==
  ASSUME SpaceInv, DiskInv, write_log
  PROVE  DiskInv' /\ View' = View /\ Recovered' = Recovered
<1>1. TypeOK /\ Control /\ n \in Nat
  BY LogFits DEF SpaceInv
<1>2. /\ phase = "write_log" /\ head = << >> /\ UNCHANGED <<lh, cache, disk, head>>
      /\ Unique(lh) /\ Clean /\ Copied(lh, tail, cache)
  BY DEF write_log, DiskInv, Recovering
<1>3. /\ tail < n /\ n <= LOGSIZE /\ tail \in Nat
      /\ logblk' = [logblk EXCEPT ![tail + 1] = cache[lh[tail + 1]]]
      /\ \/ tail' = tail + 1 /\ phase' = "write_log"
         \/ phase' = "write_head" /\ tail + 1 = n
  BY <1>1, LogFits DEF write_log, Control, TypeOK
<1>4. \A i \in 1..tail+1 : logblk'[i] = cache[lh[i]]
  <2> SUFFICES ASSUME NEW i \in 1..tail+1 PROVE logblk'[i] = cache[lh[i]]
    OBVIOUS
  <2>1. i \in LogSlots /\ (i \in 1..tail \/ i = tail + 1)
    BY <1>1, <1>3, LogAssumption DEF LogSlots
  <2>2. logblk \in [LogSlots -> Val]
    BY <1>1 DEF TypeOK
  <2> QED BY <2>1, <2>2, <1>2, <1>3 DEF Copied
<1>5. n' = n /\ Clean'
  BY <1>2 DEF n, Clean
<1>6. DiskInv'
  BY <1>2, <1>3, <1>4, <1>5 DEF DiskInv, Unique, Copied, Recovering
<1>7. Recovered = disk /\ Recovered' = disk
  BY <1>1, <1>2, RecEmpty, RecoveredIs DEF TypeOK, Recovered, Rec
<1> QED BY <1>6, <1>7, <1>2, <1>3 DEF View

\* Writing the header is the moment at which the transaction commits.
LEMMA CommitPoint ==
  ASSUME SpaceInv, DiskInv, write_head("write_head", "install"), UNCHANGED lh
  PROVE  DiskInv' /\ View' = View /\ Recovered' = View
<1>1. TypeOK /\ Control /\ n \in Nat /\ lh \in Seq(Block) /\ n = Len(lh)
  BY LogFits DEF SpaceInv, TypeOK, n
<1>2. /\ phase = "write_head" /\ phase' = "install" /\ head' = lh /\ tail' = 0
      /\ UNCHANGED <<lh, cache, disk, logblk>>
      /\ Unique(lh) /\ Clean /\ Copied(lh, n, cache)
  BY DEF write_head, DiskInv, Recovering
<1>3. n' = n /\ Clean'
  BY <1>2 DEF n, Clean
<1>4. DiskInv'
  BY <1>2, <1>3 DEF DiskInv, Unique, Copied, Recovering
<1>5. Rec(lh, logblk, disk) = cache
  <2>1. ASSUME NEW b \in Block PROVE Rec(lh, logblk, disk)[b] = cache[b]
    <3>1. CASE \E i \in 1..n : lh[i] = b
      BY <3>1, <1>1, <1>2, RecFacts DEF Copied
    <3>2. CASE \A i \in 1..n : lh[i] # b
      BY <3>2, <1>1, <1>2, RecFacts DEF Clean
    <3> QED BY <3>1, <3>2
  <2>2. cache \in [Block -> Val]
    BY <1>1 DEF TypeOK
  <2> QED BY <2>1, <2>2, RecSame
<1>6. Recovered' = cache
  BY <1>2, <1>5 DEF Recovered, Rec
<1> QED BY <1>4, <1>6, <1>2 DEF View

\* Installing a block leaves what a recovery makes of the disk as it is.
LEMMA InstallStep ==
  ASSUME SpaceInv, DiskInv, NEW from, NEW to, install_trans(from, to),
         <<from, to>> \in {<<"install", "erase">>, <<"recover", "clear">>}
  PROVE  DiskInv' /\ View' = View /\ Recovered' = Recovered
<1>1. TypeOK /\ Control /\ n \in Nat /\ lh \in Seq(Block) /\ n = Len(lh)
  BY LogFits DEF SpaceInv, TypeOK, n
<1> DEFINE b == lh[tail + 1]
           v == logblk[tail + 1]
<1>2. /\ phase = from /\ tail < n /\ tail \in Nat
      /\ cache' = [cache EXCEPT ![b] = v] /\ disk' = [disk EXCEPT ![b] = v]
      /\ UNCHANGED <<logblk, head>>
      /\ \/ tail' = tail + 1 /\ phase' = from /\ lh' = lh
         \/ tail + 1 = n /\ tail' = 0 /\ phase' = to /\ lh' = << >>
  BY <1>1 DEF install_trans, TypeOK
<1>3. /\ head = lh /\ Unique(lh) /\ Copied(lh, tail, disk)
      /\ phase = "install" => Clean /\ Copied(lh, n, cache)
      /\ phase = "recover" => cache = disk
  BY <1>2 DEF DiskInv, Recovering
<1>4. tail + 1 \in 1..n /\ b \in Block /\ cache \in [Block -> Val] /\ disk \in [Block -> Val]
  BY <1>1, <1>2 DEF TypeOK
<1>5. \A i \in 1..n : lh[i] = b => i = tail + 1
  BY <1>3, <1>4, <1>1 DEF Unique
<1>6. \A i \in 1..tail+1 : logblk[i] = disk'[lh[i]]
  <2> SUFFICES ASSUME NEW i \in 1..tail+1 PROVE logblk[i] = disk'[lh[i]]
    OBVIOUS
  <2>1. i \in 1..n /\ lh[i] \in Block /\ (i \in 1..tail \/ i = tail + 1)
    BY <1>1, <1>2
  <2> QED BY <2>1, <1>2, <1>3, <1>4, <1>5 DEF Copied
<1>7. phase = "install" => cache' = cache
  BY <1>2, <1>3, <1>4 DEF Copied
<1>8. phase = "recover" => cache' = disk'
  BY <1>2, <1>3
<1>9. ASSUME NEW c \in Block, phase = "install", \A i \in 1..n' : lh'[i] # c
      PROVE  cache'[c] = disk'[c]
  <2>1. CASE \A i \in 1..n : lh[i] # c
    <3>1. c # b /\ cache[c] = disk[c]
      BY <2>1, <1>3, <1>4, <1>9 DEF Clean
    <3> QED BY <3>1, <1>2, <1>4
  <2>2. CASE \E i \in 1..n : lh[i] = c
    <3>1. PICK i \in 1..n : lh[i] = c
      BY <2>2
    <3>2. lh' # lh
      BY <3>1, <1>9 DEF n
    <3>3. tail + 1 = n
      BY <3>2, <1>2
    <3>4. logblk[i] = disk'[c]
      BY <3>1, <3>3, <1>6
    <3>5. logblk[i] = cache[c]
      BY <3>1, <1>3, <1>9 DEF Copied
    <3> QED BY <3>4, <3>5, <1>7, <1>9
  <2> QED BY <2>1, <2>2
<1>10. Unique(lh)' /\ Unique(head)'
  BY <1>2, <1>3 DEF Unique
<1>11. phase = "install" => Clean'
  BY <1>9 DEF Clean
<1>12. ASSUME phase' = from PROVE DiskInv'
  <2>1. tail' = tail + 1 /\ lh' = lh /\ n' = n /\ phase = from
    BY <1>2, <1>12 DEF n
  <2>2. Copied(lh, tail, disk)'
    BY <2>1, <1>2, <1>6 DEF Copied
  <2>3. phase = "install" => Copied(lh, n, cache)'
    BY <2>1, <1>2, <1>3, <1>7 DEF Copied
  <2>4. CASE from = "install"
    <3>1. phase' = "install" /\ head' = lh' /\ Clean'
      BY <2>1, <2>4, <1>2, <1>3, <1>11, <1>12
    <3> QED BY <2>1, <2>2, <2>3, <2>4, <3>1, <1>10 DEF DiskInv, Copied, Unique, Recovering
  <2>5. CASE from = "recover"
    <3>1. phase' = "recover" /\ head' = lh' /\ cache' = disk'
      BY <2>1, <2>5, <1>2, <1>3, <1>8, <1>12
    <3> QED BY <2>2, <3>1, <1>10 DEF DiskInv, Copied, Unique, Recovering
  <2> QED BY <2>4, <2>5
<1>13. ASSUME phase' = to PROVE DiskInv'
  <2>1. tail + 1 = n /\ lh' = << >>
    BY <1>2, <1>13
  <2>2. Copied(head, Len(head), disk)'
    BY <2>1, <1>1, <1>2, <1>3, <1>6 DEF Copied
  <2>3. CASE from = "install" /\ to = "erase"
    <3>1. phase' = "erase" /\ Clean'
      BY <2>3, <1>2, <1>11, <1>13
    <3> QED BY <2>1, <2>2, <3>1, <1>10 DEF DiskInv, Copied, Unique, Recovering
  <2>4. CASE from = "recover" /\ to = "clear"
    <3>1. phase' = "clear" /\ cache' = disk'
      BY <2>4, <1>2, <1>8, <1>13
    <3> QED BY <2>1, <2>2, <3>1, <1>10 DEF DiskInv, Copied, Unique, Recovering
  <2> QED BY <2>3, <2>4
<1>14. Recovered' = Recovered
  <2>1. Rec(lh, logblk, disk') = Rec(lh, logblk, disk)
    <3>1. disk' = [disk EXCEPT ![lh[tail + 1]] = logblk[tail + 1]]
      BY <1>2
    <3>2. tail + 1 \in 1..Len(lh) /\ disk \in [Block -> Val]
      BY <1>1, <1>4
    <3>3. lh \in Seq(Block) /\ Unique(lh)
      BY <1>1, <1>3
    <3>4. \A x : Rec(lh, logblk, [disk EXCEPT ![lh[tail + 1]] = x]) = Rec(lh, logblk, disk)
      BY <3>2, <3>3, RecInstall
    <3> QED BY <3>1, <3>4
  <2> QED BY <2>1, <1>2, <1>3 DEF Recovered, Rec
<1>15. View' = View
  BY <1>2, <1>7, <1>14 DEF View
<1> QED BY <1>2, <1>12, <1>13, <1>14, <1>15

\* Erasing the header after a commit or a recovery: every block is home.
LEMMA EraseStep ==
  ASSUME SpaceInv, DiskInv, NEW from, NEW to, write_head(from, to), UNCHANGED lh,
         <<from, to>> \in {<<"erase", "end">>, <<"clear", "none">>}
  PROVE  DiskInv' /\ View' = View /\ Recovered' = Recovered
<1>1. TypeOK /\ head \in Seq(Block) /\ Unique(head) /\ disk \in [Block -> Val]
  BY DEF SpaceInv, TypeOK, DiskInv
<1>2. /\ phase = from /\ phase' = to /\ head' = << >> /\ lh = << >> /\ lh' = << >>
      /\ UNCHANGED <<cache, disk, logblk>>
      /\ Copied(head, Len(head), disk)
  BY DEF write_head, DiskInv
<1>3. cache = disk
  <2>1. n = 0 /\ cache \in [Block -> Val]
    BY <1>1, <1>2 DEF n, TypeOK
  <2>2. CASE phase = "erase"
    <3>1. \A b \in Block : cache[b] = disk[b]
      BY <2>1, <2>2 DEF DiskInv, Clean, Recovering
    <3> QED BY <3>1, <2>1, <1>1
  <2>3. CASE phase = "clear"
    BY <2>3 DEF DiskInv, Recovering
  <2> QED BY <1>2, <2>2, <2>3
<1>4. DiskInv'
  <2>1. Clean'
    BY <1>2, <1>3 DEF Clean
  <2>2. Unique(lh)' /\ Unique(head)'
    BY <1>2 DEF Unique
  <2> QED BY <1>2, <2>1, <2>2 DEF DiskInv, Unique, Recovering
<1>5. Recovered = disk
  BY <1>1, <1>2, RecHome, RecoveredIs DEF Copied
<1>6. Recovered' = disk
  BY <1>1, <1>2, RecEmpty DEF Recovered, Rec
<1> QED BY <1>2, <1>3, <1>4, <1>5, <1>6 DEF View

\* Recovery starts from the header on the disk.
LEMMA ReadHeadStep ==
  ASSUME SpaceInv, DiskInv, read_head
  PROVE  DiskInv' /\ View' = View /\ Recovered' = Recovered
<1>1. /\ phase = "read_head" /\ lh' = head /\ tail' = 0 /\ UNCHANGED <<cache, disk, logblk, head>>
      /\ phase' = IF head = << >> THEN "clear" ELSE "recover"
  BY DEF read_head, diskvars
<1>2. cache = disk /\ Unique(head)
  BY <1>1 DEF DiskInv, Recovering
<1>3. DiskInv'
  BY <1>1, <1>2 DEF DiskInv, Unique, Copied, Recovering
<1>4. Recovered' = Recovered
  BY <1>1 DEF Recovered
<1> QED BY <1>1, <1>3, <1>4 DEF View

\* A crash leaves what a recovery makes of the disk.
LEMMA CrashStep ==
  ASSUME SpaceInv, DiskInv, Crash
  PROVE  DiskInv' /\ View' = Recovered /\ Recovered' = Recovered
<1>1. phase' = "read_head" /\ lh' = << >> /\ cache' = disk /\ UNCHANGED <<disk, logblk, head>>
  BY DEF Crash, diskvars
<1>2. DiskInv'
  BY <1>1 DEF DiskInv, Unique, Copied, Recovering
<1>3. Recovered' = Recovered
  BY <1>1 DEF Recovered
<1> QED BY <1>1, <1>2, <1>3 DEF View

-----------------------------------------------------------------------------
(* Every step of the log is a step of AtomicDisk. *)

RefInv == SpaceInv /\ DiskInv

\* Steps that read and write nothing.
LEMMA ViewFrame ==
  ASSUME UNCHANGED <<cache, disk, logblk, head>>, (phase \in Recovering) <=> (phase' \in Recovering)
  PROVE  View' = View /\ Recovered' = Recovered
<1>1. Recovered' = Recovered
  BY DEF Recovered
<1> QED BY <1>1 DEF View, Recovering

\* What processes do between begin_op and end_op is what AtomicDisk allows.
LEMMA RefProc ==
  ASSUME RefInv, NEW p \in Proc, ProcStep(p)
  PROVE  DiskInv' /\ [Abstract!ANext]_(Abstract!avars)
<1>1. SpaceInv /\ DiskInv /\ TypeOK /\ Control
  BY DEF RefInv, SpaceInv
<1>2. ASSUME begin_op(p) PROVE DiskInv' /\ [Abstract!ANext]_(Abstract!avars)
  <2>1. UNCHANGED <<lh, cache, disk, logblk, head, phase, tail>> /\ pc[p] # "op"
    BY <1>2 DEF begin_op, diskvars
  <2>2. View' = View /\ Recovered' = Recovered /\ DiskInv'
    BY <1>1, <2>1, ViewFrame, DiskFrame
  <2>3. CASE pc' = [pc EXCEPT ![p] = "sleep"]
    <3>1. {q \in Proc : pc[q] = "op"}' = {q \in Proc : pc[q] = "op"}
      BY <1>1, <2>1, <2>3 DEF TypeOK
    <3> QED BY <2>2, <3>1 DEF Abstract!avars
  <2>4. CASE pc' = [pc EXCEPT ![p] = "op"]
    <3>1. {q \in Proc : pc[q] = "op"}' = {q \in Proc : pc[q] = "op"} \cup {p}
      BY <1>1, <2>1, <2>4 DEF TypeOK
    <3>2. Abstract!Begin(p)
      BY <2>1, <2>2, <3>1 DEF Abstract!Begin
    <3> QED BY <2>2, <3>2 DEF Abstract!ANext
  <2> QED BY <1>2, <2>3, <2>4 DEF begin_op
<1>3. ASSUME end_op(p) PROVE DiskInv' /\ [Abstract!ANext]_(Abstract!avars)
  <2>1. UNCHANGED <<lh, cache, disk, logblk, head>> /\ pc[p] = "op" /\ tail' = 0
    BY <1>3 DEF end_op, diskvars
  <2>2. phase = "none"
    BY <1>1, <2>1 DEF TypeOK, Control, Ops, Phases, Committing, Recovering
  <2>3. n = 0 => lh = << >>
    BY <1>1 DEF TypeOK, n
  <2>4. n \in Nat
    BY <1>1 DEF TypeOK, n
  <2>5. phase' = "none" \/ phase' = "write_log" \/ (phase' = "end" /\ lh = << >>)
    BY <1>3, <2>2, <2>3, <2>4 DEF end_op
  <2>6. View' = View /\ Recovered' = Recovered
    BY <2>1, <2>2, <2>5, ViewFrame DEF Recovering
  <2>7. DiskInv'
    BY <1>1, <2>1, <2>2, <2>5, DiskFrame
  <2>8. {q \in Proc : pc[q] = "op"}' = {q \in Proc : pc[q] = "op"} \ {p}
    BY <1>1, <1>3 DEF end_op, wakeup, TypeOK
  <2>9. Abstract!End(p)
    BY <2>1, <2>6, <2>8 DEF Abstract!End
  <2> QED BY <2>7, <2>9 DEF Abstract!ANext
<1>4. ASSUME finish(p) PROVE DiskInv' /\ [Abstract!ANext]_(Abstract!avars)
  <2>1. /\ UNCHANGED <<lh, cache, disk, logblk, head, tail>> /\ phase = "end" /\ phase' = "none"
        /\ pc[p] = "commit" /\ pc' = [wakeup EXCEPT ![p] = "idle"]
    BY <1>4 DEF finish, diskvars
  <2>2. View' = View /\ Recovered' = Recovered /\ DiskInv'
    BY <1>1, <2>1, ViewFrame, DiskFrame DEF Recovering
  <2>3. {q \in Proc : pc[q] = "op"}' = {q \in Proc : pc[q] = "op"}
    BY <1>1, <2>1 DEF TypeOK, wakeup
  <2> QED BY <2>2, <2>3 DEF Abstract!avars
<1>5. ASSUME NEW b \in Block, NEW v \in Val, log_write(p, b, v)
      PROVE  DiskInv' /\ [Abstract!ANext]_(Abstract!avars)
  <2>1. DiskInv'
    BY <1>1, <1>5, DiskWrite
  <2>2. UNCHANGED <<phase, disk, logblk, head, pc>> /\ pc[p] = "op"
    BY <1>5 DEF log_write, diskvars
  <2>3. Recovered' = Recovered
    BY <2>2 DEF Recovered
  <2>4. phase = "none"
    BY <1>1, <2>2 DEF TypeOK, Control, Ops, Phases, Committing, Recovering
  <2>5. View = cache /\ View' = cache'
    BY <2>2, <2>4 DEF View
  <2>6. CASE cache' = cache
    BY <2>1, <2>2, <2>3, <2>5, <2>6 DEF Abstract!avars
  <2>7. CASE cache' = [cache EXCEPT ![b] = v]
    <3>1. Abstract!Write(p, b, v)
      BY <2>2, <2>3, <2>5, <2>7 DEF Abstract!Write
    <3> QED BY <2>1, <3>1 DEF Abstract!ANext
  <2> QED BY <1>5, <2>6, <2>7 DEF log_write
<1> QED BY <1>2, <1>3, <1>4, <1>5 DEF ProcStep

\* The writes of commit() and of recovery, and a crash, are steps of
\* AtomicDisk or change nothing there.
LEMMA RefDisk ==
  ASSUME RefInv, commit \/ recover_from_log \/ Crash
  PROVE  DiskInv' /\ [Abstract!ANext]_(Abstract!avars)
<1>1. SpaceInv /\ DiskInv /\ Control
  BY DEF RefInv, SpaceInv
<1>2. ASSUME DiskInv', View' = View, Recovered' = Recovered, UNCHANGED pc
      PROVE  DiskInv' /\ [Abstract!ANext]_(Abstract!avars)
  BY <1>2 DEF Abstract!avars
<1>3. ASSUME write_head("write_head", "install"), UNCHANGED lh
      PROVE  DiskInv' /\ [Abstract!ANext]_(Abstract!avars)
  <2>1. DiskInv' /\ View' = View /\ Recovered' = View
    BY <1>1, <1>3, CommitPoint
  <2>2. {q \in Proc : pc[q] = "op"} = {} /\ UNCHANGED pc
    BY <1>1, <1>3 DEF write_head, procvars, Control, Committing, Ops
  <2>3. Abstract!MakeStable
    BY <2>1, <2>2 DEF Abstract!MakeStable
  <2> QED BY <2>1, <2>3 DEF Abstract!ANext
<1>4. ASSUME Crash PROVE DiskInv' /\ [Abstract!ANext]_(Abstract!avars)
  <2>1. DiskInv' /\ View' = Recovered /\ Recovered' = Recovered
    BY <1>1, <1>4, CrashStep
  <2>2. {q \in Proc : pc[q] = "op"}' = {}
    BY <1>4 DEF Crash
  <2>3. Abstract!LoseVolatile
    BY <2>1, <2>2 DEF Abstract!LoseVolatile
  <2> QED BY <2>1, <2>3 DEF Abstract!ANext
<1>5. ASSUME write_log PROVE DiskInv' /\ [Abstract!ANext]_(Abstract!avars)
  BY <1>1, <1>2, <1>5, WriteLogStep DEF write_log, procvars
<1>6. ASSUME install_trans("install", "erase") \/ install_trans("recover", "clear")
      PROVE  DiskInv' /\ [Abstract!ANext]_(Abstract!avars)
  <2>1. UNCHANGED pc
    BY <1>6 DEF install_trans, procvars
  <2> QED BY <1>1, <1>2, <1>6, <2>1, InstallStep
<1>7. ASSUME write_head("erase", "end") \/ write_head("clear", "none"), UNCHANGED lh
      PROVE  DiskInv' /\ [Abstract!ANext]_(Abstract!avars)
  <2>1. UNCHANGED pc
    BY <1>7 DEF write_head, procvars
  <2> QED BY <1>1, <1>2, <1>7, <2>1, EraseStep
<1>8. ASSUME read_head PROVE DiskInv' /\ [Abstract!ANext]_(Abstract!avars)
  BY <1>1, <1>2, <1>8, ReadHeadStep DEF read_head, procvars
<1> QED BY <1>3, <1>4, <1>5, <1>6, <1>7, <1>8 DEF commit, recover_from_log

\* The log implements atomic group commit when the buffer cache recycles no
\* block of the running transaction: whatever the number of processes, blocks,
\* operations and crashes, also crashes in the middle of a commit or of a
\* recovery, the file system above sees only whole committed groups.
THEOREM LogIsAtomic ==
  ASSUME PressureUntil = 0
  PROVE  Spec => Atomic
<1>1. Init => RefInv /\ Abstract!AInit
  <2> SUFFICES ASSUME Init PROVE RefInv /\ Abstract!AInit
    OBVIOUS
  <2>1. RefInv
    BY SpaceInit, DiskInit DEF RefInv
  <2>2. /\ disk \in [Block -> Val] /\ cache = disk /\ head = << >> /\ phase = "none"
        /\ pc = [p \in Proc |-> "idle"]
    BY DEF Init
  <2>3. Recovered = disk
    BY <2>2, RecEmpty, RecoveredIs
  <2>4. View = disk
    BY <2>2 DEF View
  <2>5. {p \in Proc : pc[p] = "op"} = {}
    BY <2>2
  <2> QED BY <2>1, <2>2, <2>3, <2>4, <2>5 DEF Abstract!AInit
<1>2. RefInv /\ [Next]_vars => RefInv' /\ [Abstract!ANext]_(Abstract!avars)
  <2> SUFFICES ASSUME RefInv, [Next]_vars PROVE RefInv' /\ [Abstract!ANext]_(Abstract!avars)
    OBVIOUS
  <2>1. SpaceInv'
    BY SpaceNext DEF RefInv
  <2>2. CASE UNCHANGED vars
    <3>1. UNCHANGED <<lh, cache, disk, logblk, head, phase, tail, pc>>
      BY <2>2 DEF vars, diskvars, procvars
    <3>2. DiskInv' /\ View' = View /\ Recovered' = Recovered
      BY <3>1, DiskFrame, ViewFrame DEF RefInv
    <3> QED BY <2>1, <3>1, <3>2 DEF RefInv, Abstract!avars
  <2>3. ASSUME NEW b \in Block PROVE ~Recycle(b)
    BY DEF Recycle, RefInv, SpaceInv, TypeOK
  <2> QED BY <2>1, <2>2, <2>3, RefProc, RefDisk DEF RefInv, Next
<1> QED BY <1>1, <1>2, PTL DEF Spec, Atomic, Abstract!ASpec
=============================================================================
