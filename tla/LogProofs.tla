----------------------------- MODULE LogProofs ------------------------------
(***************************************************************************)
(* Proofs about Log, for any number of processes and blocks: begin_op's    *)
(* reservation suffices, a quiet log has everything on disk, and the log   *)
(* implements AtomicDisk.                                                  *)
(*                                                                         *)
(* The first half is about data: at every step of commit() and of recovery,*)
(* each block of the transaction has a copy that survives a crash, or      *)
(* nothing of it is in the header on disk.  The second half is about space:*)
(* what is in the header, with what the calls in progress may still add to *)
(* it, fits in the log, so no call panics and no commit writes past the    *)
(* log, which the first half takes for granted (Fits).                     *)
(***************************************************************************)
EXTENDS Log, Counting, TLAPS

Active == {p \in Procs : op[p] = "active"}

Distinct(s) == \A i, j \in 1..Len(s) : s[i] = s[j] => i = j

TypeOK ==
  /\ lh \in Seq(Blocks) /\ dhead \in Seq(Blocks)
  /\ committing \in BOOLEAN /\ recovering \in BOOLEAN
  /\ cache \in [Blocks -> Values] /\ home \in [Blocks -> Values]
  /\ dlog \in [1..(nlog - 1) -> Values]
  /\ dirty \in SUBSET Blocks
  /\ op \in [Procs -> {"idle", "sleeping", "woken", "active"}]
  /\ written \in [Procs -> SUBSET Blocks]
  /\ logging \in [Procs -> Blocks \cup {NoBlock}]
  /\ stage \in Stages /\ tail \in Nat \ {0}

\* outstanding counts the calls in progress, none of which is there during a commit.
CallsOK ==
  /\ outstanding = Cardinality(Active)
  /\ \A p \in Procs : IsFiniteSet(written[p]) /\ Cardinality(written[p]) <= OpBlocks
  /\ \A p \in Procs : logging[p] # NoBlock => op[p] = "active" /\ logging[p] \in written[p]
  /\ committing \/ recovering => Active = {}

\* Where commit() and recovery can be.
StagesOK ==
  /\ ~(committing /\ recovering)
  /\ committing <=> stage # "none" /\ ~recovering
  /\ recovering => stage \in {"install_trans", "erase"}
  /\ stage \notin {"write_log", "install_trans"} => tail = 1
  /\ stage = "end" \/ (stage = "none" /\ Active = {}) => lh = << >>

\* The blocks of the transaction have places in the log on disk.
Fits == 1..Len(lh) \subseteq 1..(nlog - 1)

\* write_log has copied the i-th block of the transaction to the log.
Copied(i) ==
  (stage = "write_log" /\ i < tail) \/ stage \in {"write_head", "install_trans", "erase"}

\* install_trans has copied it to its home location.
Installed(i) == (stage = "install_trans" /\ i < tail) \/ stage = "erase"

\* The header on disk is empty until write_head and until the log is erased again.
HeadOK ==
  /\ Distinct(lh)
  /\ dhead = IF stage \in {"install_trans", "erase"} THEN lh ELSE << >>

\* A block outside the transaction is the same in the cache and at home.
CleanOK ==
  /\ recovering => cache = home
  /\ \A b \in Blocks : ~recovering /\ b \notin Logged /\ (\A p \in Procs : logging[p] # b)
                       => cache[b] = home[b]

\* A block of the transaction has its latest contents in a pinned buffer, then in the
\* log too, then at home.
EntriesOK ==
  \A i \in 1..Len(lh) :
    /\ ~recovering /\ Copied(i) => dlog[i] = cache[lh[i]]
    /\ ~recovering /\ ~Installed(i) => lh[i] \in dirty
    /\ Installed(i) => home[lh[i]] = dlog[i]

DataOK == HeadOK /\ CleanOK /\ EntriesOK

-----------------------------------------------------------------------------
(* Types.                                                                  *)

\* wakeup(&log) makes no call active and ends none.
LEMMA WokenActive ==
  ASSUME NEW f \in [Procs -> {"idle", "sleeping", "woken", "active"}]
  PROVE  /\ Woken(f) \in [Procs -> {"idle", "sleeping", "woken", "active"}]
         /\ \A p \in Procs : Woken(f)[p] = "active" <=> f[p] = "active"
BY DEF Woken

\* Every step keeps the types.
LEMMA TypeNext ==
  ASSUME Fits, TypeOK, CallsOK, [Next]_vars
  PROVE  TypeOK'
<1>1. ASSUME NEW p \in Procs, begin_op(p) PROVE TypeOK'
  BY <1>1 DEF begin_op, TypeOK, disk
<1>2. ASSUME NEW p \in Procs, log_entry(p) PROVE TypeOK'
  <2>1. logging[p] \in Blocks
    BY <1>2 DEF log_entry, TypeOK
  <2>2. lh' \in Seq(Blocks) /\ dirty' \in SUBSET Blocks
    BY <1>2, <2>1 DEF log_entry, TypeOK, Absorbed, Pinned
  <2>3. QED
    BY <1>2, <2>2 DEF log_entry, TypeOK, disk
<1>3. ASSUME NEW p \in Procs, end_op(p) PROVE TypeOK'
  <2>1. [op EXCEPT ![p] = "idle"] \in [Procs -> {"idle", "sleeping", "woken", "active"}]
    BY DEF TypeOK
  <2>2. op' \in [Procs -> {"idle", "sleeping", "woken", "active"}]
    BY <1>3, <2>1, WokenActive, ZenonT(40) DEF end_op, AfterEnd
  <2>3. stage' \in Stages /\ committing' \in BOOLEAN
    BY <1>3, ZenonT(40) DEF end_op, TypeOK, Stages
  <2>4. QED
    BY <1>3, <2>2, <2>3 DEF end_op, TypeOK, disk
<1>4. ASSUME NEW p \in Procs, NEW b \in Blocks, NEW v \in Values, log_write(p, b, v)
      PROVE  TypeOK'
  BY <1>4 DEF log_write, TypeOK, disk
<1>5. ASSUME NEW b \in Blocks, Recycle(b) PROVE TypeOK'
  BY <1>5 DEF Recycle, TypeOK, disk
<1>6. CASE write_log
  <2>1. CASE tail <= Len(lh)
    <3>1. tail \in 1..Len(lh) /\ cache[lh[tail]] \in Values
      BY <2>1 DEF TypeOK
    <3>2. dlog' \in [1..(nlog - 1) -> Values] /\ tail' \in Nat \ {0} /\ stage' = stage
      BY <1>6, <2>1, <3>1 DEF write_log, TypeOK
    <3>3. QED
      BY <1>6, <3>2 DEF write_log, TypeOK
  <2>2. CASE ~(tail <= Len(lh))
    BY <1>6, <2>2 DEF write_log, TypeOK, Stages
  <2>3. QED
    BY <2>1, <2>2
<1>7. CASE write_head
  BY <1>7 DEF write_head, TypeOK, Stages
<1>8. CASE install_trans
  <2>1. CASE tail <= Len(lh)
    <3>1. tail \in 1..Len(lh) /\ lh[tail] \in Blocks
      BY <2>1 DEF TypeOK
    <3>2. dlog[tail] \in Values
      BY <3>1 DEF Fits, TypeOK
    <3>3. /\ home' \in [Blocks -> Values] /\ cache' \in [Blocks -> Values]
          /\ dirty' \in SUBSET Blocks /\ tail' \in Nat \ {0} /\ stage' = stage
      <4>1. /\ home' = [home EXCEPT ![lh[tail]] = dlog[tail]]
            /\ cache' = [cache EXCEPT ![lh[tail]] = dlog[tail]]
            /\ dirty' = dirty \ {lh[tail]} /\ tail' = tail + 1 /\ stage' = stage
        BY <1>8, <2>1, <3>1 DEF install_trans, TypeOK
      <4>2. home' \in [Blocks -> Values] /\ cache' \in [Blocks -> Values]
        BY <3>1, <3>2, <4>1 DEF TypeOK
      <4>3. dirty' \in SUBSET Blocks /\ tail' \in Nat \ {0}
        BY <4>1 DEF TypeOK
      <4>4. QED
        BY <4>1, <4>2, <4>3
    <3>4. QED
      BY <1>8, <3>3 DEF install_trans, TypeOK
  <2>2. CASE ~(tail <= Len(lh))
    BY <1>8, <2>2 DEF install_trans, TypeOK, Stages
  <2>3. QED
    BY <2>1, <2>2
<1>9. CASE erase
  <2>1. << >> \in Seq(Blocks) /\ stage' \in Stages
    BY <1>9 DEF erase, Stages
  <2>2. QED
    BY <1>9, <2>1, ZenonT(40) DEF erase, TypeOK
<1>10. CASE committed
  <2>1. op' \in [Procs -> {"idle", "sleeping", "woken", "active"}]
    BY <1>10, WokenActive DEF committed, TypeOK
  <2>2. QED
    BY <1>10, <2>1, ZenonT(40) DEF committed, TypeOK, Stages, disk
<1>11. CASE Crash
  <2>1. stage' \in Stages /\ tail' \in Nat \ {0} /\ dirty' \in SUBSET Blocks
    BY <1>11 DEF Crash, Stages
  <2>2. /\ op' \in [Procs -> {"idle", "sleeping", "woken", "active"}]
        /\ written' \in [Procs -> SUBSET Blocks]
        /\ logging' \in [Procs -> Blocks \cup {NoBlock}]
    BY <1>11 DEF Crash
  <2>3. committing' \in BOOLEAN /\ recovering' \in BOOLEAN
    BY <1>11, ZenonT(40) DEF Crash
  <2>4. QED
    BY <1>11, <2>1, <2>2, <2>3 DEF Crash, TypeOK, disk
<1>12. CASE UNCHANGED vars
  BY <1>12 DEF vars, memory, disk, TypeOK
<1>13. QED
  BY <1>1, <1>2, <1>3, <1>4, <1>5, <1>6, <1>7, <1>8, <1>9, <1>10, <1>11, <1>12
     DEF Next, Commit

-----------------------------------------------------------------------------
(* What is where.                                                          *)

\* Where the code is while calls are in progress.
LEMMA Calling ==
  ASSUME TypeOK, CallsOK, StagesOK, NEW p \in Procs, op[p] = "active"
  PROVE  stage = "none" /\ ~recovering /\ ~committing
BY DEF CallsOK, StagesOK, Active

\* No write is half-way during a commit or recovery.
LEMMA Quiet ==
  ASSUME TypeOK, CallsOK, StagesOK, stage # "none"
  PROVE  \A p \in Procs : logging[p] = NoBlock
BY DEF CallsOK, StagesOK, Active

\* Entries of the log are logged blocks.
LEMMA LoggedIs ==
  ASSUME TypeOK
  PROVE  /\ Logged \subseteq Blocks
         /\ \A i \in 1..Len(lh) : lh[i] \in Logged /\ lh[i] \in Blocks
         /\ \A b \in Logged : \E i \in 1..Len(lh) : lh[i] = b
BY DEF TypeOK, Logged

\* A step that leaves the data alone keeps what is said about it.
LEMMA DataSame ==
  ASSUME DataOK, UNCHANGED <<lh, dhead, cache, home, dlog, dirty, logging, recovering,
                             stage, tail>>
  PROVE  DataOK'
<1>1. HeadOK'
  BY DEF DataOK, HeadOK, Distinct
<1>2. CleanOK'
  BY DEF DataOK, CleanOK, Logged
<1>3. EntriesOK'
  BY DEF DataOK, EntriesOK, Copied, Installed
<1>4. QED
  BY <1>1, <1>2, <1>3 DEF DataOK

\* Once everything is installed the log is not needed.
LEMMA AllInstalled ==
  ASSUME TypeOK, CallsOK, StagesOK, DataOK, stage = "erase"
  PROVE  cache = home
<1>1. CASE recovering
  BY <1>1 DEF DataOK, CleanOK
<1>2. CASE ~recovering
  <2>1. ASSUME NEW b \in Blocks PROVE cache[b] = home[b]
    <3>1. CASE b \in Logged
      <4>1. PICK i \in 1..Len(lh) : lh[i] = b
        BY <3>1, LoggedIs
      <4>2. QED
        BY <1>2, <4>1 DEF DataOK, EntriesOK, Copied, Installed
    <3>2. CASE b \notin Logged
      <4>1. \A p \in Procs : logging[p] # b
        BY Quiet, LogAssumption
      <4>2. QED
        BY <1>2, <3>2, <4>1 DEF DataOK, CleanOK
    <3>3. QED
      BY <3>1, <3>2
  <2>2. QED
    BY <2>1 DEF TypeOK
<1>3. QED
  BY <1>1, <1>2

\* So recycling changes nothing.
LEMMA RecycleData ==
  ASSUME TypeOK, CallsOK, StagesOK, DataOK, NEW b \in Blocks, Recycle(b)
  PROVE  cache' = cache /\ DataOK'
\* A buffer that may be recycled has what its home block has.
<1>RecycledIsHome. cache[b] = home[b]
  <2>1. b \notin dirty /\ \A p \in Procs : logging[p] # b
    BY DEF Recycle
  <2>2. CASE recovering
    BY <2>2 DEF DataOK, CleanOK
  <2>3. CASE ~recovering /\ b \notin Logged
    BY <2>1, <2>3 DEF DataOK, CleanOK
  <2>4. CASE ~recovering /\ b \in Logged
    <3>1. PICK i \in 1..Len(lh) : lh[i] = b
      BY <2>4, LoggedIs
    <3>2. Installed(i)
      BY <2>1, <2>4, <3>1 DEF DataOK, EntriesOK
    <3>3. Copied(i)
      BY <3>2 DEF Installed, Copied
    <3>4. QED
      BY <2>4, <3>1, <3>2, <3>3 DEF DataOK, EntriesOK
  <2>5. QED
    BY <2>2, <2>3, <2>4
<1>1. cache' = cache
  BY <1>RecycledIsHome, ZenonT(40) DEF Recycle, TypeOK
<1>2. QED
  BY <1>1, DataSame DEF Recycle, disk

\* Every step keeps what is said about the data.
LEMMA DataNext ==
  ASSUME Fits, TypeOK, CallsOK, StagesOK, DataOK, StagesOK', [Next]_vars
  PROVE  DataOK'
\* log_entry makes one more entry, of a block that is pinned.
<1>EntryData. ASSUME NEW p \in Procs, log_entry(p)
              PROVE  DataOK'
  <2> USE <1>EntryData
  <2>1. /\ logging[p] \in Blocks /\ op[p] = "active"
        /\ stage = "none" /\ ~recovering
    BY Calling DEF log_entry, TypeOK, CallsOK
  <2>2. PICK b \in Blocks : b = logging[p]
    BY <2>1
  <2>3. UNCHANGED <<dhead, cache, home, dlog, recovering, stage, tail>>
    BY DEF log_entry, disk
  <2>4. /\ dirty' = dirty \cup {b} /\ lh' = IF b \in Logged THEN lh ELSE Append(lh, b)
        /\ \A q \in Procs : logging'[q] = IF q = p THEN NoBlock ELSE logging[q]
    BY <2>2 DEF log_entry, Pinned, Absorbed, TypeOK
  <2>5. /\ Distinct(lh') /\ Logged' = Logged \cup {b}
        /\ \A i \in 1..Len(lh') : lh'[i] \in dirty'
    <3>0. \A i \in 1..Len(lh) : lh[i] \in dirty
      BY <2>1 DEF DataOK, EntriesOK, Installed
    <3>1. CASE b \in Logged
      BY <2>4, <3>0, <3>1 DEF DataOK, HeadOK, Distinct, Logged
    <3>2. CASE b \notin Logged
      <4>1. lh' = Append(lh, b) /\ lh \in Seq(Blocks)
        BY <2>4, <3>2 DEF TypeOK
      <4>2. /\ Len(lh') = Len(lh) + 1 /\ lh'[Len(lh) + 1] = b /\ Len(lh) \in Nat
            /\ \A i \in 1..Len(lh) : lh'[i] = lh[i]
        BY <4>1
      <4>3. \A i \in 1..Len(lh) : lh[i] # b
        BY <3>2 DEF Logged
      <4>4. Distinct(lh')
        BY <4>2, <4>3 DEF DataOK, HeadOK, Distinct
      <4>5. Logged' = Logged \cup {b}
        BY <4>2 DEF Logged
      <4>6. \A i \in 1..Len(lh') : lh'[i] \in dirty'
        BY <2>4, <3>0, <4>2
      <4>7. QED
        BY <4>4, <4>5, <4>6
    <3>3. QED
      BY <3>1, <3>2
  <2>6. HeadOK'
    BY <2>1, <2>3, <2>5 DEF DataOK, HeadOK
  <2>7. CleanOK'
    <3>1. ASSUME NEW k \in Blocks, k \notin Logged', \A q \in Procs : logging'[q] # k
          PROVE  cache'[k] = home'[k]
      <4>1. k # b /\ k \notin Logged
        BY <2>5, <3>1
      <4>2. \A q \in Procs : logging[q] # k
        BY <2>2, <2>4, <3>1, <4>1
      <4>3. QED
        BY <2>1, <2>3, <4>1, <4>2 DEF DataOK, CleanOK
    <3>2. QED
      BY <2>1, <2>3, <3>1 DEF CleanOK
  <2>8. EntriesOK'
    BY <2>1, <2>3, <2>5 DEF EntriesOK, Copied, Installed
  <2>9. QED
    BY <2>6, <2>7, <2>8 DEF DataOK
\* log_write changes a block that it has locked.
<1>WriteData. ASSUME NEW p \in Procs, NEW b \in Blocks, NEW v \in Values,
                     log_write(p, b, v)
              PROVE  DataOK'
  <2> USE <1>WriteData
  <2>1. op[p] = "active" /\ stage = "none" /\ ~recovering /\ logging[p] = NoBlock
    BY Calling DEF log_write
  <2>2. UNCHANGED <<lh, dhead, home, dlog, dirty, recovering, stage, tail>>
    BY DEF log_write, disk
  <2>3. /\ \A k \in Blocks : k # b => cache'[k] = cache[k]
        /\ \A q \in Procs : logging'[q] = IF q = p THEN b ELSE logging[q]
    BY DEF log_write, TypeOK
  <2>4. HeadOK'
    BY <2>2 DEF DataOK, HeadOK, Distinct
  <2>5. CleanOK'
    <3>1. ASSUME NEW k \in Blocks, k \notin Logged', \A q \in Procs : logging'[q] # k
          PROVE  cache'[k] = home'[k]
      <4>1. k # b /\ k \notin Logged /\ k # NoBlock
        BY <2>2, <2>3, <3>1, LogAssumption DEF Logged
      <4>2. \A q \in Procs : logging[q] # k
        BY <2>1, <2>3, <3>1, <4>1
      <4>3. QED
        BY <2>1, <2>2, <2>3, <4>1, <4>2 DEF DataOK, CleanOK
    <3>2. QED
      BY <2>1, <2>2, <3>1 DEF CleanOK
  <2>6. EntriesOK'
    BY <2>1, <2>2 DEF DataOK, EntriesOK, Copied, Installed
  <2>7. QED
    BY <2>4, <2>5, <2>6 DEF DataOK
\* The last end_op starts a commit with nothing copied yet.
<1>EndData. ASSUME NEW p \in Procs, end_op(p)
            PROVE  DataOK'
  <2> USE <1>EndData
  <2>1. stage = "none" /\ ~recovering /\ tail = 1
    BY Calling DEF end_op, StagesOK
  <2>2. UNCHANGED <<lh, dhead, cache, home, dlog, dirty, logging, recovering, tail>>
    BY DEF end_op, disk
  <2>3. stage' \in {"none", "end", "write_log"} /\ (stage' = "end" => lh' = << >>)
    BY <2>1 DEF end_op, StagesOK
  <2>4. HeadOK'
    BY <2>1, <2>2, <2>3 DEF DataOK, HeadOK, Distinct
  <2>5. CleanOK'
    BY <2>2 DEF DataOK, CleanOK, Logged
  <2>6. EntriesOK'
    <3>1. SUFFICES ASSUME NEW i \in 1..Len(lh)
                   PROVE  /\ ~recovering' /\ Copied(i)' => dlog'[i] = cache'[lh'[i]]
                          /\ ~recovering' /\ ~Installed(i)' => lh'[i] \in dirty'
                          /\ Installed(i)' => home'[lh'[i]] = dlog'[i]
      BY <2>2 DEF EntriesOK
    <3>2. lh[i] \in dirty
      BY <2>1 DEF DataOK, EntriesOK, Installed
    <3>3. ~Copied(i)' /\ ~Installed(i)'
      BY <2>1, <2>2, <2>3 DEF Copied, Installed
    <3>4. QED
      BY <2>2, <3>2, <3>3
  <2>7. QED
    BY <2>4, <2>5, <2>6 DEF DataOK
\* write_log copies the cached blocks to the log in order.
<1>CopyData. ASSUME write_log
             PROVE  DataOK'
  <2> USE <1>CopyData
  <2>1. stage = "write_log" /\ ~recovering
    BY DEF write_log, StagesOK
  <2>2. UNCHANGED <<lh, dhead, cache, home, dirty, logging, recovering>>
    BY DEF write_log
  <2>3. /\ stage' \in {"write_log", "write_head"}
        /\ stage' = "write_log" => /\ tail \in 1..Len(lh) /\ tail' = tail + 1
                                   /\ dlog' = [dlog EXCEPT ![tail] = cache[lh[tail]]]
        /\ stage' = "write_head" => tail > Len(lh) /\ dlog' = dlog
    BY <2>1 DEF write_log, TypeOK
  <2>4. HeadOK'
    BY <2>1, <2>2, <2>3 DEF DataOK, HeadOK, Distinct
  <2>5. CleanOK'
    BY <2>2 DEF DataOK, CleanOK, Logged
  <2>6. ASSUME NEW i \in 1..Len(lh), Copied(i)' PROVE dlog'[i] = cache[lh[i]]
    <3>1. tail \in Nat /\ Len(lh) \in Nat /\ i \in 1..(nlog - 1)
      BY DEF Fits, TypeOK
    <3>2. CASE stage' = "write_log"
      <4>1. i < tail \/ i = tail
        BY <2>3, <2>6, <3>1, <3>2 DEF Copied
      <4>2. i < tail => dlog[i] = cache[lh[i]]
        BY <2>1 DEF DataOK, EntriesOK, Copied
      <4>3. QED
        BY <2>3, <3>1, <3>2, <4>1, <4>2, ZenonT(40) DEF TypeOK
    <3>3. CASE stage' = "write_head"
      <4>1. i < tail
        BY <2>3, <3>1, <3>3
      <4>2. QED
        BY <2>1, <2>3, <3>3, <4>1 DEF DataOK, EntriesOK, Copied
    <3>4. QED
      BY <2>3, <3>2, <3>3
  <2>7. \A i \in 1..Len(lh) : lh[i] \in dirty /\ ~Installed(i)'
    BY <2>1, <2>3 DEF DataOK, EntriesOK, Installed
  <2>8. EntriesOK'
    BY <2>2, <2>6, <2>7 DEF EntriesOK
  <2>9. QED
    BY <2>4, <2>5, <2>8 DEF DataOK
\* write_head makes the log the committed one, with nothing installed yet.
<1>HeadData. ASSUME write_head
             PROVE  DataOK'
  <2> USE <1>HeadData
  <2>1. /\ stage = "write_head" /\ ~recovering /\ tail = 1 /\ dhead' = lh
        /\ stage' = "install_trans"
    BY DEF write_head, StagesOK
  <2>2. UNCHANGED <<lh, cache, home, dlog, dirty, logging, recovering, tail>>
    BY DEF write_head
  <2>3. HeadOK'
    BY <2>1, <2>2 DEF DataOK, HeadOK, Distinct
  <2>4. CleanOK'
    BY <2>2 DEF DataOK, CleanOK, Logged
  <2>5. EntriesOK'
    BY <2>1, <2>2 DEF DataOK, EntriesOK, Copied, Installed
  <2>6. QED
    BY <2>3, <2>4, <2>5 DEF DataOK
\* install_trans brings the blocks home in order.
<1>InstallData. ASSUME install_trans
                PROVE  DataOK'
  <2> USE <1>InstallData
  <2>1. stage = "install_trans" /\ UNCHANGED <<lh, dhead, dlog, logging, recovering>>
    BY DEF install_trans
  <2>2. CASE tail <= Len(lh)
    <3>1. tail \in 1..Len(lh) /\ tail \in 1..(nlog - 1) /\ tail' = tail + 1 /\ stage' = stage
      BY <2>2 DEF Fits, install_trans, TypeOK
    <3>2. PICK k \in Blocks : k = lh[tail] /\ k \in Logged
      BY <3>1, LoggedIs
    <3>3. \A i \in 1..Len(lh) : lh[i] = k <=> i = tail
      BY <3>1, <3>2 DEF DataOK, HeadOK, Distinct
    <3>4. /\ \A b \in Blocks : home'[b] = IF b = k THEN dlog[tail] ELSE home[b]
          /\ \A b \in Blocks : cache'[b] = IF b = k THEN dlog[tail] ELSE cache[b]
          /\ dirty' = dirty \ {k}
      BY <2>2, <3>2 DEF install_trans, TypeOK
    <3>5. HeadOK'
      BY <2>1, <3>1 DEF DataOK, HeadOK, Distinct
    <3>6. CleanOK'
      <4>1. ASSUME recovering PROVE cache' = home'
        <5>1. cache = home
          BY <4>1 DEF DataOK, CleanOK
        <5>2. QED
          BY <2>2, <5>1 DEF install_trans
      <4>2. ASSUME NEW b \in Blocks, ~recovering, b \notin Logged',
                   \A p \in Procs : logging'[p] # b
            PROVE  cache'[b] = home'[b]
        <5>1. b \notin Logged /\ \A p \in Procs : logging[p] # b
          BY <2>1, <4>2 DEF Logged
        <5>2. QED
          BY <3>2, <3>4, <4>2, <5>1 DEF DataOK, CleanOK
      <4>3. QED
        BY <2>1, <4>1, <4>2 DEF CleanOK
    <3>7. ASSUME NEW i \in 1..Len(lh)
          PROVE  /\ ~recovering => dlog[i] = cache'[lh[i]]
                 /\ ~recovering /\ ~Installed(i)' => lh[i] \in dirty'
                 /\ Installed(i)' => home'[lh[i]] = dlog[i]
      <4>1. lh[i] \in Blocks
        BY LoggedIs
      <4>2. CASE i = tail
        BY <2>1, <3>1, <3>2, <3>4, <4>1, <4>2 DEF Installed
      <4>3. CASE i # tail
        <5>1. lh[i] # k
          BY <3>3, <4>3
        <5>2. Installed(i)' <=> Installed(i)
          BY <2>1, <3>1, <4>3 DEF Installed, TypeOK
        <5>3. Copied(i)
          BY <2>1 DEF Copied
        <5>4. QED
          BY <3>4, <4>1, <5>1, <5>2, <5>3 DEF DataOK, EntriesOK
      <4>4. QED
        BY <4>2, <4>3
    <3>8. EntriesOK'
      BY <2>1, <3>7 DEF EntriesOK
    <3>9. QED
      BY <3>5, <3>6, <3>8 DEF DataOK
  <2>3. CASE ~(tail <= Len(lh))
    <3>1. stage' = "erase" /\ UNCHANGED <<home, cache, dirty>>
      BY <2>3 DEF install_trans
    <3>2. HeadOK'
      BY <2>1, <3>1 DEF DataOK, HeadOK, Distinct
    <3>3. CleanOK'
      BY <2>1, <3>1 DEF DataOK, CleanOK, Logged
    <3>4. \A i \in 1..Len(lh) : Installed(i) /\ Copied(i) /\ Installed(i)'
      BY <2>1, <2>3, <3>1 DEF Installed, Copied, TypeOK
    <3>5. EntriesOK'
      BY <2>1, <3>1, <3>4 DEF DataOK, EntriesOK
    <3>6. QED
      BY <3>2, <3>3, <3>5 DEF DataOK
  <2>4. QED
    BY <2>2, <2>3
\* The empty header is written when every block is at home.
<1>EraseData. ASSUME erase
              PROVE  DataOK'
  <2> USE <1>EraseData
  <2>1. /\ stage = "erase" /\ lh' = << >> /\ dhead' = << >> /\ stage' \in {"none", "end"}
        /\ recovering' = FALSE
    BY DEF erase
  <2>2. cache' = home'
    BY <2>1, AllInstalled DEF erase
  <2>3. HeadOK'
    BY <2>1 DEF HeadOK, Distinct
  <2>4. CleanOK'
    BY <2>2 DEF CleanOK
  <2>5. EntriesOK'
    BY <2>1 DEF EntriesOK
  <2>6. QED
    BY <2>3, <2>4, <2>5 DEF DataOK
\* The rest of end_op finds an empty log.
<1>CommittedData. ASSUME committed
                  PROVE  DataOK'
  <2> USE <1>CommittedData
  <2>1. stage = "end" /\ lh = << >> /\ stage' = "none"
    BY DEF committed, StagesOK
  <2>2. UNCHANGED <<lh, dhead, cache, home, dlog, dirty, logging, recovering>>
    BY DEF committed, disk
  <2>3. HeadOK'
    BY <2>1, <2>2 DEF DataOK, HeadOK, Distinct
  <2>4. CleanOK'
    BY <2>2 DEF DataOK, CleanOK, Logged
  <2>5. EntriesOK'
    BY <2>1, <2>2 DEF EntriesOK
  <2>6. QED
    BY <2>3, <2>4, <2>5 DEF DataOK
\* Recovery starts from the header and the home blocks.
<1>CrashData. ASSUME Crash
              PROVE  DataOK'
  <2> USE <1>CrashData
  <2>1. /\ lh' = dhead /\ dhead' = dhead /\ stage' = "install_trans" /\ tail' = 1
        /\ recovering' = TRUE /\ cache' = home /\ home' = home
    BY DEF Crash, disk
  <2>2. HeadOK'
    BY <2>1 DEF DataOK, HeadOK, Distinct
  <2>3. CleanOK'
    BY <2>1 DEF CleanOK
  <2>4. EntriesOK'
    BY <2>1 DEF EntriesOK, Installed
  <2>5. QED
    BY <2>2, <2>3, <2>4 DEF DataOK
<1>1. ASSUME NEW p \in Procs, begin_op(p) PROVE DataOK'
  BY <1>1, DataSame DEF begin_op, disk
<1>2. CASE UNCHANGED vars
  BY <1>2, DataSame DEF vars, memory, disk
<1>3. QED
  BY <1>1, <1>2, <1>EntryData, <1>WriteData, <1>EndData, <1>CopyData, <1>HeadData, <1>InstallData,
     <1>EraseData, <1>CommittedData, RecycleData, <1>CrashData DEF Next, Commit

-----------------------------------------------------------------------------
(* The steps as steps of AtomicDisk.                                       *)

\* What recovery makes of a header, the log's data blocks and the home blocks.
Overlay(head, data, base) ==
  [b \in Blocks |->
     IF \E i \in 1..Len(head) : head[i] = b
     THEN data[CHOOSE i \in 1..Len(head) : head[i] = b]
     ELSE base[b]]

\* With an empty header the home blocks are what a crash leaves.
LEMMA RecoveredHome ==
  ASSUME TypeOK, dhead = << >>
  PROVE  Recovered = home
BY DEF Recovered, TypeOK

Current == IF recovering THEN Recovered ELSE cache

\* Every step of the log is a step of the atomic disk, or changes nothing there.
LEMMA RefineNext ==
  ASSUME TypeOK, CallsOK, StagesOK, DataOK, [Next]_vars
  PROVE  AD!Next \/ UNCHANGED <<Recovered, Current, Active>>
\* Recovery brings home what the header names, and nothing else.
<1>OverlayIs. ASSUME NEW head \in Seq(Blocks), NEW data, NEW base, Distinct(head)
              PROVE  /\ \A i \in 1..Len(head) : Overlay(head, data, base)[head[i]] = data[i]
                     /\ \A b \in Blocks : (\A i \in 1..Len(head) : head[i] # b)
                                            => Overlay(head, data, base)[b] = base[b]
  <2> USE <1>OverlayIs
  <2>1. ASSUME NEW i \in 1..Len(head)
        PROVE  Overlay(head, data, base)[head[i]] = data[i]
    <3> DEFINE c == CHOOSE j \in 1..Len(head) : head[j] = head[i]
    <3>1. c \in 1..Len(head) /\ head[c] = head[i]
      OBVIOUS
    <3>2. c = i
      BY <3>1 DEF Distinct
    <3>3. head[i] \in Blocks
      OBVIOUS
    <3>4. QED
      BY <3>2, <3>3, ZenonT(40) DEF Overlay
  <2>2. QED
    BY <2>1, ZenonT(40) DEF Overlay
\* What recovery would find depends on the disk alone.
<1>RecoveredSame. ASSUME UNCHANGED disk
                  PROVE  Recovered' = Recovered
  BY <1>RecoveredSame DEF disk, Recovered
\* write_head puts everything that the calls have written on the disk at once.
<1>HeadCommits. ASSUME write_head
                PROVE  AD!Commit
  <2> USE <1>HeadCommits
  <2>1. TypeOK /\ CallsOK /\ StagesOK /\ DataOK
    OBVIOUS
  <2>2. stage = "write_head" /\ ~recovering /\ committing
    BY <2>1, ZenonT(40) DEF write_head, StagesOK
  <2>3. Active = {} /\ Active' = Active
    BY <2>1, <2>2, ZenonT(40) DEF CallsOK, write_head, Active
  <2>4. Recovered' = Overlay(lh, dlog, home)
    BY DEF write_head, Recovered, Overlay
  <2>5. ASSUME NEW b \in Blocks PROVE Overlay(lh, dlog, home)[b] = cache[b]
    <3>0. lh \in Seq(Blocks) /\ Distinct(lh)
      BY <2>1 DEF TypeOK, DataOK, HeadOK
    <3>1. CASE b \in Logged
      <4>1. PICK i \in 1..Len(lh) : lh[i] = b
        BY <2>1, <3>1, LoggedIs
      <4>2. dlog[i] = cache[b]
        BY <2>1, <2>2, <4>1 DEF DataOK, EntriesOK, Copied
      <4>3. Overlay(lh, dlog, home)[lh[i]] = dlog[i]
        BY <3>0, <1>OverlayIs
      <4>4. QED
        BY <4>1, <4>2, <4>3
    <3>2. CASE b \notin Logged
      <4>1. \A p \in Procs : logging[p] # b
        BY <2>1, <2>2, Quiet, LogAssumption
      <4>2. cache[b] = home[b]
        BY <2>1, <2>2, <3>2, <4>1 DEF DataOK, CleanOK
      <4>3. \A i \in 1..Len(lh) : lh[i] # b
        BY <3>2 DEF Logged
      <4>4. QED
        BY <3>0, <4>2, <4>3, <1>OverlayIs
    <3>3. QED
      BY <3>1, <3>2
  <2>6. Recovered' = cache
    BY <2>1, <2>4, <2>5, ZenonT(40) DEF Overlay, TypeOK
  <2>7. Current = cache /\ Current' = Current
    BY <2>2 DEF Current, write_head
  <2>8. QED
    BY <2>3, <2>6, <2>7 DEF AD!Commit, Current, Active
\* Installing blocks changes neither what recovery would find nor what calls see.
<1>InstallStutters. ASSUME install_trans
                    PROVE  Recovered' = Recovered /\ Current' = Current
  <2> USE <1>InstallStutters
  <2>1. TypeOK /\ CallsOK /\ StagesOK /\ DataOK
    OBVIOUS
  <2>2. /\ stage = "install_trans" /\ dhead = lh /\ dhead \in Seq(Blocks) /\ Distinct(dhead)
        /\ UNCHANGED <<dhead, dlog, recovering>>
    BY <2>1 DEF install_trans, DataOK, HeadOK, TypeOK
  <2>3. CASE tail <= Len(lh)
    <3>1. PICK i \in 1..Len(lh) : i = tail
      BY <2>1, <2>3 DEF TypeOK
    <3>2. lh[i] \in Blocks
      BY <2>1, LoggedIs
    <3>3. home' = [home EXCEPT ![lh[i]] = dlog[i]] /\ cache' = [cache EXCEPT ![lh[i]] = dlog[i]]
      BY <2>3, <3>1 DEF install_trans
    <3>4. \A b \in Blocks : b # lh[i] => home'[b] = home[b]
      BY <2>1, <3>2, <3>3 DEF TypeOK
    <3>5. Recovered' = Recovered
      BY <2>2, <3>1, <3>4 DEF Recovered
    <3>6. ~recovering => cache' = cache
      <4>1. ~recovering => cache[lh[i]] = dlog[i]
        BY <2>1, <2>2 DEF DataOK, EntriesOK, Copied
      <4>2. QED
        BY <2>1, <3>2, <3>3, <4>1, ZenonT(40) DEF TypeOK
    <3>7. QED
      BY <2>2, <3>5, <3>6 DEF Current
  <2>4. CASE ~(tail <= Len(lh))
    <3>1. UNCHANGED <<home, cache>>
      BY <2>4 DEF install_trans
    <3>2. QED
      BY <2>2, <3>1 DEF Recovered, Current
  <2>5. QED
    BY <2>3, <2>4
\* Neither does the empty header, once all of them are installed.
<1>EraseStutters. ASSUME erase
                  PROVE  Recovered' = Recovered /\ Current' = Current
  <2> USE <1>EraseStutters
  <2>1. TypeOK /\ CallsOK /\ StagesOK /\ DataOK
    OBVIOUS
  <2>2. /\ stage = "erase" /\ dhead = lh /\ dhead \in Seq(Blocks) /\ Distinct(dhead)
        /\ dhead' = << >> /\ home' = home /\ cache' = cache /\ recovering' = FALSE
    BY <2>1 DEF erase, DataOK, HeadOK, TypeOK
  <2>3. cache = home
    BY <2>1, <2>2, AllInstalled
  <2>4. Recovered' = home
    <3>1. TypeOK => home = [b \in Blocks |-> home[b]]
      BY ZenonT(40) DEF TypeOK
    <3>2. QED
      BY <2>1, <2>2, <3>1 DEF Recovered
  <2>5. ASSUME NEW b \in Blocks PROVE Recovered[b] = home[b]
    <3>1. Recovered = Overlay(dhead, dlog, home)
      BY DEF Recovered, Overlay
    <3>2. CASE \E i \in 1..Len(dhead) : dhead[i] = b
      <4>1. PICK i \in 1..Len(dhead) : dhead[i] = b
        BY <3>2
      <4>2. home[b] = dlog[i]
        BY <2>1, <2>2, <4>1 DEF DataOK, EntriesOK, Installed
      <4>3. QED
        BY <2>2, <3>1, <4>1, <4>2, <1>OverlayIs
    <3>3. CASE \A i \in 1..Len(dhead) : dhead[i] # b
      BY <2>2, <3>1, <3>3, <1>OverlayIs
    <3>4. QED
      BY <3>2, <3>3, ZenonT(40)
  <2>6. Recovered = home
    BY <2>1, <2>5, ZenonT(40) DEF Recovered, TypeOK
  <2>7. QED
    BY <2>2, <2>3, <2>4, <2>6 DEF Current
<1>0. TypeOK /\ CallsOK /\ StagesOK /\ DataOK
  OBVIOUS
<1>1. ASSUME NEW p \in Procs, begin_op(p)
      PROVE  AD!Begin(p) \/ UNCHANGED <<Recovered, Current, Active>>
  <2>0. op[p] # "active" /\ Recovered' = Recovered /\ Current' = Current
    BY <1>1, <1>RecoveredSame DEF begin_op, Current
  <2>1. CASE op' = [op EXCEPT ![p] = "sleeping"]
    BY <1>0, <2>0, <2>1 DEF Active, TypeOK
  <2>2. CASE op' = [op EXCEPT ![p] = "active"]
    <3>1. Active' = Active \cup {p} /\ p \notin Active
      BY <1>0, <2>0, <2>2 DEF Active, TypeOK
    <3>2. QED
      BY <2>0, <3>1 DEF AD!Begin, Current, Active
  <2>3. QED
    BY <1>1, <2>1, <2>2 DEF begin_op
<1>2. ASSUME NEW p \in Procs, log_entry(p)
      PROVE  UNCHANGED <<Recovered, Current, Active>>
  BY <1>2, <1>RecoveredSame DEF log_entry, Current, Active
<1>3. ASSUME NEW p \in Procs, end_op(p) PROVE AD!End(p)
  <2>1. op[p] = "active" /\ Recovered' = Recovered /\ Current' = Current
    BY <1>3, <1>RecoveredSame DEF end_op, Current
  <2>2. \A q \in Procs : op'[q] = "active" <=> op[q] = "active" /\ q # p
    <3>1. [op EXCEPT ![p] = "idle"] \in [Procs -> {"idle", "sleeping", "woken", "active"}]
      BY <1>0 DEF TypeOK
    <3>2. QED
      BY <1>0, <1>3, <3>1, WokenActive, ZenonT(40) DEF end_op, AfterEnd, TypeOK
  <2>3. p \in Active /\ Active' = Active \ {p}
    BY <2>1, <2>2 DEF Active
  <2>4. QED
    BY <2>1, <2>3 DEF AD!End, Current, Active
<1>4. ASSUME NEW p \in Procs, NEW b \in Blocks, NEW v \in Values, log_write(p, b, v)
      PROVE  AD!Write(p, b, v)
  <2>1. op[p] = "active" /\ Recovered' = Recovered /\ Active' = Active /\ p \in Active
    BY <1>4, <1>RecoveredSame DEF log_write, Active
  <2>2. ~recovering /\ recovering' = recovering
    BY <1>0, <1>4, <2>1, Calling DEF log_write
  <2>3. Current' = [Current EXCEPT ![b] = v]
    BY <1>4, <2>2 DEF log_write, Current
  <2>4. QED
    BY <2>1, <2>3 DEF AD!Write, Current, Active
<1>5. ASSUME NEW b \in Blocks, Recycle(b)
      PROVE  UNCHANGED <<Recovered, Current, Active>>
  <2>1. cache' = cache
    BY <1>0, <1>5, RecycleData
  <2>2. QED
    BY <1>5, <2>1, <1>RecoveredSame DEF Recycle, Current, Active
<1>6. CASE write_log
  <2>1. dhead = << >> /\ dhead' = << >> /\ home' = home
    BY <1>0, <1>6 DEF write_log, DataOK, HeadOK
  <2>2. Recovered' = Recovered
    BY <2>1 DEF Recovered
  <2>3. QED
    BY <1>6, <2>2 DEF write_log, Current, Active
<1>7. CASE write_head
  BY <1>7, <1>HeadCommits DEF AD!Next
<1>8. CASE install_trans
  BY <1>8, <1>InstallStutters DEF install_trans, Active
<1>9. CASE erase
  BY <1>9, <1>EraseStutters, ZenonT(40) DEF erase, Active
<1>10. CASE committed
  <2>1. Active' = Active
    BY <1>0, <1>10, WokenActive DEF committed, Active, TypeOK
  <2>2. QED
    BY <1>10, <2>1, <1>RecoveredSame DEF committed, Current
<1>11. CASE Crash
  <2>1. Recovered' = Recovered /\ Active' = {}
    BY <1>11, <1>RecoveredSame DEF Crash, Active
  <2>2. Current' = Recovered
    BY <1>11, <2>1 DEF Crash, Current
  <2>3. QED
    BY <2>1, <2>2 DEF AD!Next, AD!Crash, Current, Active
<1>12. CASE UNCHANGED vars
  BY <1>12, <1>RecoveredSame DEF vars, memory, Current, Active
<1>13. QED
  BY <1>1, <1>2, <1>3, <1>4, <1>5, <1>6, <1>7, <1>8, <1>9, <1>10, <1>11, <1>12
     DEF Next, Commit, AD!Next

-----------------------------------------------------------------------------
(* Space in the log.                                                       *)

\* What param.h and mkfs give (LOGSIZE is three times MAXOPBLOCKS, and the log on disk
\* has LOGSIZE blocks), for calls that leave a block of their reservation unused.  The
\* log has room for nlog - 1 blocks and begin_op counts LOGSIZE, so calls that use
\* all of it can meet log_write's panic.
Spare ==
  OpBlocks < MAXOPBLOCKS /\ MAXOPBLOCKS < LOGSIZE /\ LOGSIZE <= nlog

\* The entries that the calls in progress have already used up.
Used == {u \in Procs \X Blocks : u[1] \in Active /\ u[2] \in written[u[1]] /\ u[2] \in Logged}

\* The header and what the calls in progress may still add leave two entries free.
SpaceOK ==
  /\ Len(lh) + OpBlocks * outstanding + 2 <= LOGSIZE + Cardinality(Used)
  /\ Len(dhead) + 2 <= LOGSIZE

IInv == TypeOK /\ CallsOK /\ SpaceOK /\ StagesOK /\ DataOK /\ ~panicked

\* The calls in progress and the blocks they have used are finitely many.
Finite ==
  /\ IsFiniteSet(Active) /\ outstanding \in Nat
  /\ IsFiniteSet(Used) /\ Cardinality(Used) \in Nat

\* What the log holds leaves two entries free.
Room == Len(lh) \in Nat /\ Len(lh) + 2 <= LOGSIZE

-----------------------------------------------------------------------------
(* The calls in progress.                                                  *)

\* Every step keeps what is said about the calls.
LEMMA CallsNext ==
  ASSUME CountEmpty, CountAdd, CountRemove, Finite,
         TypeOK, CallsOK, StagesOK, ~panicked, [Next]_vars
  PROVE  CallsOK'
\* The calls that are active stay so in every step but begin_op, end_op and a crash.
<1>CallsSame. ASSUME Active' = Active, outstanding' = outstanding, written' = written,
                     \A p \in Procs : logging'[p] \in {logging[p], NoBlock},
                     committing' \/ recovering' => committing \/ recovering
              PROVE  CallsOK'
  <2> USE <1>CallsSame
  <2>1. \A p \in Procs : op'[p] = "active" <=> op[p] = "active"
    BY DEF Active
  <2>2. QED
    BY <2>1 DEF CallsOK
<1>1. ASSUME NEW p \in Procs, begin_op(p) PROVE CallsOK'
  <2>0. op[p] # "active" /\ logging[p] = NoBlock /\ p \notin Active
    BY <1>1 DEF begin_op, CallsOK, Active
  <2>1. CASE op' = [op EXCEPT ![p] = "sleeping"]
    <3>1. Active' = Active
      BY <2>0, <2>1 DEF Active, TypeOK
    <3>2. QED
      BY <1>1, <2>1, <3>1, <1>CallsSame DEF begin_op, TypeOK
  <2>2. CASE op' = [op EXCEPT ![p] = "active"]
    <3>1. /\ outstanding' = outstanding + 1 /\ written' = [written EXCEPT ![p] = {}]
          /\ ~committing /\ ~recovering /\ committing' = committing
          /\ recovering' = recovering /\ logging' = logging
      BY <1>1, <2>2 DEF begin_op, TypeOK
    <3>2. Active' = Active \cup {p}
      BY <2>2 DEF Active, TypeOK
    <3>3. outstanding' = Cardinality(Active')
      BY <2>0, <3>1, <3>2, ZenonT(40) DEF CallsOK, Finite, CountAdd
    <3>4. \A q \in Procs : IsFiniteSet(written'[q]) /\ Cardinality(written'[q]) <= OpBlocks
      BY <3>1, LogAssumption DEF CallsOK, TypeOK, CountEmpty
    <3>5. \A q \in Procs : logging'[q] # NoBlock
                             => op'[q] = "active" /\ logging'[q] \in written'[q]
      BY <2>0, <2>2, <3>1 DEF CallsOK, TypeOK
    <3>6. QED
      BY <3>1, <3>3, <3>4, <3>5 DEF CallsOK
  <2>3. QED
    BY <1>1, <2>1, <2>2 DEF begin_op
<1>2. ASSUME NEW p \in Procs, log_entry(p) PROVE CallsOK'
  BY <1>2, <1>CallsSame, ZenonT(40) DEF log_entry, Active, TypeOK
<1>3. ASSUME NEW p \in Procs, end_op(p) PROVE CallsOK'
  <2>0. op[p] = "active" /\ logging[p] = NoBlock /\ p \in Active
    BY <1>3 DEF end_op, Active
  <2>1. \A q \in Procs : op'[q] = "active" <=> op[q] = "active" /\ q # p
    <3>1. [op EXCEPT ![p] = "idle"] \in [Procs -> {"idle", "sleeping", "woken", "active"}]
      BY DEF TypeOK
    <3>2. QED
      BY <1>3, <3>1, WokenActive, ZenonT(40) DEF end_op, AfterEnd, TypeOK
  <2>2. Active' = Active \ {p}
    BY <2>1 DEF Active
  <2>3. outstanding' = Cardinality(Active')
    BY <1>3, <2>0, <2>2, ZenonT(40) DEF CallsOK, end_op, Finite, CountRemove
  <2>4. /\ written' = written /\ logging' = logging /\ recovering' = recovering
        /\ committing' => committing \/ outstanding = 1
    BY <1>3 DEF end_op
  <2>5. committing' \/ recovering' => Active' = {}
    <3>1. CASE committing \/ recovering
      BY <2>2, <3>1 DEF CallsOK
    <3>2. CASE outstanding = 1
      <4>1. IsFiniteSet(Active') /\ Cardinality(Active') = 0
        BY <1>3, <2>0, <2>2, <2>3, <3>2 DEF end_op, Finite, CountRemove
      <4>2. QED
        BY <4>1 DEF CountEmpty
    <3>3. QED
      BY <2>4, <3>1, <3>2
  <2>6. QED
    BY <2>0, <2>1, <2>3, <2>4, <2>5, ZenonT(40) DEF CallsOK
<1>4. ASSUME NEW p \in Procs, NEW b \in Blocks, NEW v \in Values, log_write(p, b, v)
      PROVE  CallsOK'
  <2>1. Active' = Active /\ outstanding' = outstanding /\ op' = op /\ op[p] = "active"
    BY <1>4, ZenonT(40) DEF log_write, Active
  <2>2. \A q \in Procs : written'[q] = IF q = p THEN written[p] \cup {b} ELSE written[q]
    BY <1>4 DEF log_write, TypeOK
  <2>3. \A q \in Procs : logging'[q] = IF q = p THEN b ELSE logging[q]
    BY <1>4 DEF log_write, TypeOK
  <2>4. IsFiniteSet(written[p] \cup {b}) /\ Cardinality(written[p] \cup {b}) <= OpBlocks
    BY <1>4, ZenonT(40) DEF log_write, CallsOK, CountAdd
  <2>5. committing' = committing /\ recovering' = recovering
    BY <1>4 DEF log_write
  <2>6. \A q \in Procs : IsFiniteSet(written'[q]) /\ Cardinality(written'[q]) <= OpBlocks
    BY <2>2, <2>4, ZenonT(40) DEF CallsOK
  <2>7. \A q \in Procs : logging'[q] # NoBlock
                           => op'[q] = "active" /\ logging'[q] \in written'[q]
    BY <2>1, <2>2, <2>3 DEF CallsOK
  <2>8. QED
    BY <2>1, <2>5, <2>6, <2>7, ZenonT(40) DEF CallsOK
<1>5. ASSUME NEW b \in Blocks, Recycle(b) PROVE CallsOK'
  BY <1>5, <1>CallsSame DEF Recycle, Active
<1>6. CASE write_log
  BY <1>6, <1>CallsSame, ZenonT(40) DEF write_log, Active
<1>7. CASE write_head
  BY <1>7, <1>CallsSame DEF write_head, Active
<1>8. CASE install_trans
  BY <1>8, <1>CallsSame DEF install_trans, Active
<1>9. CASE erase
  BY <1>9, <1>CallsSame DEF erase, Active
<1>10. CASE committed
  <2>1. Active' = Active
    BY <1>10, WokenActive DEF committed, Active, TypeOK
  <2>2. QED
    BY <1>10, <2>1, <1>CallsSame DEF committed
<1>11. CASE Crash
  <2>1. Active' = {}
    BY <1>11 DEF Crash, Active
  <2>2. outstanding' = 0 /\ Cardinality(Active') = 0
    BY <1>11, <2>1 DEF Crash, CountEmpty
  <2>3. \A q \in Procs : written'[q] = {} /\ logging'[q] = NoBlock
    BY <1>11 DEF Crash
  <2>4. \A q \in Procs : IsFiniteSet(written'[q]) /\ Cardinality(written'[q]) <= OpBlocks
    BY <2>3, LogAssumption DEF CountEmpty
  <2>5. QED
    BY <2>1, <2>2, <2>3, <2>4 DEF CallsOK
<1>12. CASE UNCHANGED vars
  BY <1>12, <1>CallsSame DEF vars, memory, Active
<1>13. QED
  BY <1>1, <1>2, <1>3, <1>4, <1>5, <1>6, <1>7, <1>8, <1>9, <1>10, <1>11, <1>12, ZenonT(40)
     DEF Next, Commit

-----------------------------------------------------------------------------
(* The reservation.                                                        *)

\* Every step keeps the reservation.
LEMMA SpaceNext ==
  ASSUME CountEmpty, CountAdd, CountSubset, CountUnion, CountTagged,
         Spare, Finite, Finite', Room,
         TypeOK, CallsOK, SpaceOK, StagesOK, [Next]_vars
  PROVE  SpaceOK'
\* A step that leaves the log and the calls alone keeps the reservation.
<1>SpaceSame. ASSUME Active' = Active, written' = written, lh' = lh,
                     outstanding' = outstanding, Len(dhead') + 2 <= LOGSIZE
              PROVE  SpaceOK'
  <2> USE <1>SpaceSame
  <2>1. Used' = Used
    BY DEF Used, Logged
  <2>2. QED
    BY <2>1 DEF SpaceOK
\* One call more: MAXOPBLOCKS blocks for each are more than OpBlocks for each.
<1>Reserved. ASSUME NEW n \in Nat, OpBlocks < MAXOPBLOCKS
             PROVE  /\ OpBlocks * (n + 1) = OpBlocks * n + OpBlocks
                    /\ OpBlocks * (n + 1) + n + 1 <= (n + 1) * MAXOPBLOCKS
  <2> USE <1>Reserved
  <2>1. OpBlocks \in Nat /\ MAXOPBLOCKS \in Nat
    BY LogAssumption
  <2>2. PICK d \in Nat : MAXOPBLOCKS = OpBlocks + 1 + d
    <3>1. MAXOPBLOCKS - OpBlocks - 1 \in Nat
      BY <2>1
    <3>2. MAXOPBLOCKS = OpBlocks + 1 + (MAXOPBLOCKS - OpBlocks - 1)
      BY <2>1
    <3>3. QED
      BY <3>1, <3>2
  <2>3. (n + 1) * MAXOPBLOCKS = (n + 1) * OpBlocks + (n + 1) + (n + 1) * d
    BY <2>1, <2>2
  <2>4. (n + 1) * d \in Nat /\ (n + 1) * OpBlocks \in Nat
    BY <2>1
  <2>5. OpBlocks * (n + 1) = (n + 1) * OpBlocks
    BY <2>1
  <2>6. OpBlocks * (n + 1) = OpBlocks * n + OpBlocks
    BY <2>1
  <2>7. QED
    BY <2>3, <2>4, <2>5, <2>6, <2>1
<1>0. /\ outstanding \in Nat /\ Cardinality(Used) \in Nat /\ OpBlocks \in Nat
      /\ OpBlocks * outstanding \in Nat /\ Len(lh) \in Nat /\ LOGSIZE \in Nat
  BY LogAssumption DEF TypeOK, Finite
<1>a. outstanding' \in Nat /\ Cardinality(Used') \in Nat /\ IsFiniteSet(Used')
  BY DEF Finite
<1>b. Len(lh) + OpBlocks * outstanding + 2 <= LOGSIZE + Cardinality(Used)
      /\ Len(dhead) + 2 <= LOGSIZE
  BY DEF SpaceOK
<1>1. ASSUME NEW p \in Procs, begin_op(p) PROVE SpaceOK'
  <2>0. op[p] # "active" /\ lh' = lh /\ dhead' = dhead
    BY <1>1 DEF begin_op, disk
  <2>1. CASE op' = [op EXCEPT ![p] = "sleeping"]
    <3>1. Active' = Active
      BY <2>0, <2>1 DEF Active, TypeOK
    <3>2. outstanding' = outstanding /\ written' = written
      BY <1>1, <2>1 DEF begin_op, TypeOK
    <3>3. QED
      BY <2>0, <3>1, <3>2, <1>b, <1>SpaceSame
  <2>2. CASE op' = [op EXCEPT ![p] = "active"]
    <3>1. /\ outstanding' = outstanding + 1 /\ written' = [written EXCEPT ![p] = {}]
          /\ ~committing /\ ~recovering /\ ~LogFull
      BY <1>1, <2>2 DEF begin_op, TypeOK
    <3>2. \A q \in Procs : q \in Active' <=> q \in Active \/ q = p
      BY <2>2 DEF Active, TypeOK
    <3>3. \A q \in Procs : written'[q] = IF q = p THEN {} ELSE written[q]
      BY <3>1 DEF TypeOK
    <3>4. p \notin Active /\ Logged' = Logged
      BY <2>0 DEF Active, Logged
    <3>5. Used' = Used
      BY <3>2, <3>3, <3>4 DEF Used
    <3>6. Len(lh) + OpBlocks * (outstanding + 1) + 2 <= LOGSIZE + Cardinality(Used)
      <4>1. CASE outstanding = 0
        <5>1. Active = {}
          BY <4>1, ZenonT(40) DEF CallsOK, Finite, CountEmpty
        <5>2. stage = "none"
          BY <3>1 DEF StagesOK
        <5>3. Len(lh) = 0
          BY <5>1, <5>2 DEF StagesOK
        <5>4. OpBlocks * (outstanding + 1) = OpBlocks
          BY <4>1, <1>0
        <5>5. QED
          BY <5>3, <5>4, <1>0, LogAssumption DEF Spare
      <4>2. CASE outstanding # 0
        <5>1. Len(lh) + (outstanding + 1) * MAXOPBLOCKS <= LOGSIZE
          BY <3>1, <1>0, LogAssumption DEF LogFull
        <5>2. OpBlocks * (outstanding + 1) + outstanding + 1
                <= (outstanding + 1) * MAXOPBLOCKS
          BY <1>0, <1>Reserved, ZenonT(40) DEF Spare
        <5>3. OpBlocks * (outstanding + 1) \in Nat /\ (outstanding + 1) * MAXOPBLOCKS \in Nat
          BY <1>0, LogAssumption
        <5>4. QED
          BY <4>2, <5>1, <5>2, <5>3, <1>0
      <4>3. QED
        BY <4>1, <4>2
    <3>7. QED
      BY <2>0, <3>1, <3>5, <3>6, <1>b DEF SpaceOK
  <2>3. QED
    BY <1>1, <2>1, <2>2 DEF begin_op
<1>2. ASSUME NEW p \in Procs, log_entry(p) PROVE SpaceOK'
  <2> DEFINE b == logging[p]
  <2>1. /\ p \in Active /\ b \in written[p] /\ b \in Blocks /\ Active' = Active
        /\ outstanding' = outstanding /\ written' = written /\ dhead' = dhead
    BY <1>2 DEF log_entry, CallsOK, Active, TypeOK, disk
  <2>2. CASE b \in Logged
    <3>1. lh' = lh
      BY <1>2, <2>2 DEF log_entry, Absorbed
    <3>2. QED
      BY <2>1, <3>1, <1>b, <1>SpaceSame, ZenonT(40)
  <2>3. CASE b \notin Logged
    <3>1. lh' = Append(lh, b)
      BY <1>2, <2>3 DEF log_entry, Absorbed
    <3> HIDE DEF b
    <3>2. Len(lh') = Len(lh) + 1
      BY <3>1, <2>1 DEF TypeOK
    <3>3. Logged' = Logged \cup {b}
      BY <3>1, <2>1 DEF TypeOK, Logged
    <3>4. <<p, b>> \notin Used /\ Used \cup {<<p, b>>} \in SUBSET Used'
      BY <2>1, <2>3, <3>3 DEF Used, Active
    <3>5. Cardinality(Used \cup {<<p, b>>}) = Cardinality(Used) + 1
      BY <3>4, ZenonT(40) DEF Finite, CountAdd
    <3>6. Cardinality(Used) + 1 <= Cardinality(Used')
      BY <3>4, <3>5, <1>a DEF CountSubset
    <3> DEFINE c == Cardinality(Used)
               d == Cardinality(Used')
               x == OpBlocks * outstanding
    <3>7. c \in Nat /\ d \in Nat /\ c + 1 <= d /\ Len(lh) + x + 2 <= LOGSIZE + c
      BY <3>6, <1>0, <1>a, <1>b
    <3>8. x \in Nat /\ Len(lh) \in Nat /\ LOGSIZE \in Nat /\ OpBlocks * outstanding' = x
      BY <2>1, <1>0
    <3> HIDE DEF c, d, x
    <3>9. Len(lh) + 1 + x + 2 <= LOGSIZE + d
      BY <3>7, <3>8
    <3>10. QED
      BY <2>1, <3>2, <3>8, <3>9, <1>b DEF SpaceOK, d
  <2>4. QED
    BY <2>2, <2>3
<1>3. ASSUME NEW p \in Procs, end_op(p) PROVE SpaceOK'
  <2> DEFINE W == {p} \X written[p]
  <2>1. \A q \in Procs : op'[q] = "active" <=> op[q] = "active" /\ q # p
    <3>1. [op EXCEPT ![p] = "idle"] \in [Procs -> {"idle", "sleeping", "woken", "active"}]
      BY DEF TypeOK
    <3>2. QED
      BY <1>3, <3>1, WokenActive, ZenonT(40) DEF end_op, AfterEnd, TypeOK
  <2>2. /\ outstanding' = outstanding - 1 /\ written' = written /\ lh' = lh
        /\ dhead' = dhead
    BY <1>3 DEF end_op, disk
  <2>3. Used \in SUBSET (Used' \cup W)
    BY <2>1, <2>2 DEF Used, Active, Logged
  <2>4. IsFiniteSet(W) /\ Cardinality(W) <= OpBlocks /\ Cardinality(W) \in Nat
    <3>1. /\ IsFiniteSet(written[p]) /\ Cardinality(written[p]) <= OpBlocks
          /\ Cardinality(written[p]) \in Nat
      BY DEF CallsOK, CountEmpty
    <3>2. QED
      BY <3>1, ZenonT(40) DEF CountTagged
  <2> HIDE DEF W
  <2>5. /\ IsFiniteSet(Used' \cup W)
        /\ Cardinality(Used' \cup W) <= Cardinality(Used') + Cardinality(W)
    BY <1>a, <2>4, ZenonT(40) DEF CountUnion
  <2>6. Cardinality(Used) <= Cardinality(Used' \cup W)
    BY <2>3, <2>5 DEF CountSubset
  <2>7. Cardinality(Used' \cup W) \in Nat
    BY <2>5 DEF CountEmpty
  <2>8. OpBlocks * (outstanding - 1) = OpBlocks * outstanding - OpBlocks
    BY <1>0
  <2>9. Cardinality(Used) <= Cardinality(Used') + OpBlocks
    BY <2>4, <2>5, <2>6, <2>7, <1>0, <1>a
  <2> DEFINE c == Cardinality(Used)
             d == Cardinality(Used')
  <2>10. /\ c \in Nat /\ d \in Nat /\ c <= d + OpBlocks
         /\ Len(lh) + OpBlocks * outstanding + 2 <= LOGSIZE + c
    BY <2>9, <1>0, <1>a, <1>b
  <2> HIDE DEF c, d
  <2>11. Len(lh') + OpBlocks * outstanding' + 2 <= LOGSIZE + d
    BY <2>2, <2>8, <2>10, <1>0
  <2>12. QED
    BY <2>2, <2>11, <1>b DEF SpaceOK, d
<1>4. ASSUME NEW p \in Procs, NEW b \in Blocks, NEW v \in Values, log_write(p, b, v)
      PROVE  SpaceOK'
  <2>1. /\ Active' = Active /\ Logged' = Logged /\ lh' = lh /\ dhead' = dhead
        /\ outstanding' = outstanding
    BY <1>4 DEF log_write, Active, Logged, disk
  <2>2. \A q \in Procs : written[q] \subseteq written'[q]
    BY <1>4 DEF log_write, TypeOK
  <2>3. Used \subseteq Used'
    BY <2>1, <2>2 DEF Used
  <2>4. Cardinality(Used) <= Cardinality(Used')
    BY <2>3, <1>a DEF CountSubset
  <2> DEFINE c == Cardinality(Used)
             d == Cardinality(Used')
  <2>5. /\ c \in Nat /\ d \in Nat /\ c <= d
        /\ Len(lh) + OpBlocks * outstanding + 2 <= LOGSIZE + c
    BY <2>4, <1>0, <1>a, <1>b
  <2> HIDE DEF c, d
  <2>6. Len(lh') + OpBlocks * outstanding' + 2 <= LOGSIZE + d
    BY <2>1, <2>5, <1>0
  <2>7. QED
    BY <2>1, <2>6, <1>b DEF SpaceOK, d
<1>5. ASSUME NEW b \in Blocks, Recycle(b) PROVE SpaceOK'
  BY <1>5, <1>b, <1>SpaceSame DEF Recycle, Active, disk
<1>6. CASE write_log
  BY <1>6, <1>b, <1>SpaceSame DEF write_log, Active
<1>7. CASE write_head
  BY <1>7, <1>SpaceSame DEF write_head, Active, Room
<1>8. CASE install_trans
  BY <1>8, <1>b, <1>SpaceSame DEF install_trans, Active
<1>9. CASE erase
  <2>1. Active = {}
    BY <1>9 DEF erase, StagesOK, CallsOK
  <2>2. outstanding = 0
    BY <2>1 DEF CallsOK, CountEmpty
  <2>3. OpBlocks * outstanding' = 0 /\ Len(lh') = 0 /\ Len(dhead') = 0
    BY <1>9, <2>2, <1>0 DEF erase
  <2>4. 2 <= LOGSIZE
    BY LogAssumption DEF Room
  <2> DEFINE c == Cardinality(Used')
  <2>5. c \in Nat
    BY <1>a
  <2> HIDE DEF c
  <2>6. Len(lh') + OpBlocks * outstanding' + 2 <= LOGSIZE + c /\ Len(dhead') + 2 <= LOGSIZE
    BY <2>3, <2>4, <2>5, <1>0
  <2>7. QED
    BY <2>6 DEF SpaceOK, c
<1>10. CASE committed
  <2>1. Active' = Active
    BY <1>10, WokenActive, ZenonT(40) DEF committed, Active, TypeOK
  <2>2. QED
    BY <1>10, <2>1, <1>b, <1>SpaceSame DEF committed, disk
<1>11. CASE Crash
  <2>1. OpBlocks * outstanding' = 0 /\ lh' = dhead /\ dhead' = dhead
    BY <1>11, <1>0 DEF Crash, disk
  <2>2. Len(dhead) \in Nat
    BY DEF TypeOK
  <2> DEFINE c == Cardinality(Used')
  <2>3. c \in Nat
    BY <1>a
  <2> HIDE DEF c
  <2>4. Len(lh') + OpBlocks * outstanding' + 2 <= LOGSIZE + c
    BY <2>1, <2>2, <2>3, <1>0, <1>b
  <2>5. QED
    BY <2>1, <2>4, <1>b DEF SpaceOK, c
<1>12. CASE UNCHANGED vars
  BY <1>12, <1>b, <1>SpaceSame DEF vars, memory, disk, Active
<1>13. QED
  BY <1>1, <1>2, <1>3, <1>4, <1>5, <1>6, <1>7, <1>8, <1>9, <1>10, <1>11, <1>12, ZenonT(40)
     DEF Next, Commit

\* Every step keeps what is said about the stages.
LEMMA StagesNext ==
  ASSUME CountEmpty, Finite, TypeOK, CallsOK, StagesOK, CallsOK', ~panicked, [Next]_vars
  PROVE  StagesOK'
<1>1. ASSUME NEW p \in Procs, begin_op(p) PROVE StagesOK'
  BY <1>1 DEF begin_op, StagesOK, Active, TypeOK
<1>2. ASSUME NEW p \in Procs, log_entry(p) PROVE StagesOK'
  BY <1>2, ZenonT(40) DEF log_entry, StagesOK, Active, TypeOK, CallsOK
<1>3. ASSUME NEW p \in Procs, end_op(p) PROVE StagesOK'
  <2>1. /\ ~committing /\ ~recovering /\ stage = "none" /\ tail = 1
        /\ lh' = lh /\ recovering' = recovering /\ tail' = tail
    BY <1>3 DEF end_op, StagesOK, CallsOK, Active
  <2>2. CASE outstanding = 1
    <3>1. committing' = TRUE /\ stage' = IF NothingLogged THEN "end" ELSE "write_log"
      BY <1>3, <2>2 DEF end_op
    <3>2. NothingLogged => lh = << >>
      BY DEF NothingLogged, TypeOK
    <3>3. QED
      BY <2>1, <3>1, <3>2 DEF StagesOK
  <2>3. CASE outstanding # 1
    <3>1. committing' = committing /\ stage' = stage
      BY <1>3, <2>3 DEF end_op
    <3>2. Active' # {}
      <4>1. outstanding' # 0
        BY <1>3, <2>3 DEF end_op, Finite
      <4>2. QED
        BY <4>1, ZenonT(40) DEF CallsOK, CountEmpty
    <3>3. QED
      BY <2>1, <3>1, <3>2 DEF StagesOK
  <2>4. QED
    BY <2>2, <2>3, ZenonT(40)
<1>4. ASSUME NEW p \in Procs, NEW b \in Blocks, NEW v \in Values, log_write(p, b, v)
      PROVE  StagesOK'
  BY <1>4 DEF log_write, StagesOK, Active
<1>5. ASSUME NEW b \in Blocks, Recycle(b) PROVE StagesOK'
  BY <1>5 DEF Recycle, StagesOK, Active
<1>6. CASE write_log
  BY <1>6 DEF write_log, StagesOK, Active
<1>7. CASE write_head
  BY <1>7 DEF write_head, StagesOK, Active
<1>8. CASE install_trans
  BY <1>8 DEF install_trans, StagesOK, Active
<1>9. CASE erase
  BY <1>9 DEF erase, StagesOK, Active
<1>10. CASE committed
  BY <1>10 DEF committed, StagesOK
<1>11. CASE Crash
  BY <1>11 DEF Crash, StagesOK
<1>12. CASE UNCHANGED vars
  BY <1>12 DEF vars, memory, StagesOK, Active
<1>13. QED
  BY <1>1, <1>2, <1>3, <1>4, <1>5, <1>6, <1>7, <1>8, <1>9, <1>10, <1>11, <1>12, ZenonT(40)
     DEF Next, Commit

-----------------------------------------------------------------------------
(* The first state, panics, and what a quiet log has.                      *)

\* The fresh disk and the empty log satisfy the invariant.
LEMMA InvInit ==
  ASSUME CountEmpty, Spare, Init
  PROVE  IInv
<1>1. TypeOK
  <2>1. << >> \in Seq(Blocks) /\ stage \in Stages
    BY DEF Init, Stages
  <2>2. /\ op \in [Procs -> {"idle", "sleeping", "woken", "active"}]
        /\ written \in [Procs -> SUBSET Blocks]
        /\ logging \in [Procs -> Blocks \cup {NoBlock}]
    BY DEF Init
  <2>3. /\ cache \in [Blocks -> Values] /\ home \in [Blocks -> Values]
        /\ dlog \in [1..(nlog - 1) -> Values]
    BY LogAssumption DEF Init
  <2>4. committing \in BOOLEAN /\ recovering \in BOOLEAN
    BY ZenonT(40) DEF Init
  <2>5. QED
    BY <2>1, <2>2, <2>3, <2>4 DEF Init, TypeOK
<1>2. Active = {}
  BY DEF Init, Active
<1>3. CallsOK
  <2>1. \A p \in Procs : written[p] = {} /\ logging[p] = NoBlock
    BY DEF Init
  <2>2. \A p \in Procs : IsFiniteSet(written[p]) /\ Cardinality(written[p]) <= OpBlocks
    BY <2>1, LogAssumption DEF CountEmpty
  <2>3. outstanding = Cardinality(Active)
    BY <1>2 DEF Init, CountEmpty
  <2>4. QED
    BY <1>2, <2>1, <2>2, <2>3 DEF CallsOK
<1>4. SpaceOK
  <2>1. Len(lh) = 0 /\ Len(dhead) = 0 /\ OpBlocks * outstanding = 0
    BY LogAssumption DEF Init
  <2> DEFINE c == Cardinality(Used)
  <2>2. c \in Nat
    <3>1. Used = {}
      BY <1>2 DEF Used
    <3>2. QED
      BY <3>1 DEF CountEmpty
  <2> HIDE DEF c
  <2>3. 2 <= LOGSIZE
    BY LogAssumption DEF Spare
  <2>4. Len(lh) + OpBlocks * outstanding + 2 <= LOGSIZE + c /\ Len(dhead) + 2 <= LOGSIZE
    BY <2>1, <2>2, <2>3, LogAssumption
  <2>5. QED
    BY <2>4 DEF SpaceOK, c
<1>5. StagesOK
  BY DEF Init, StagesOK
<1>6. DataOK
  <2>1. HeadOK
    BY DEF Init, HeadOK, Distinct
  <2>2. CleanOK
    BY DEF Init, CleanOK
  <2>3. EntriesOK
    BY DEF Init, EntriesOK
  <2>4. QED
    BY <2>1, <2>2, <2>3 DEF DataOK
<1>7. QED
  BY <1>1, <1>3, <1>4, <1>5, <1>6 DEF IInv, Init

\* log_write finds room and is called inside a transaction; end_op finds no commit.
LEMMA PanicNext ==
  ASSUME CountEmpty, Finite, Spare, Room, IInv, [Next]_vars
  PROVE  ~panicked'
<1>0. TypeOK /\ CallsOK /\ SpaceOK /\ StagesOK /\ ~panicked
  BY DEF IInv
<1>1. ASSUME NEW p \in Procs, end_op(p) PROVE ~panicked'
  <2>1. op[p] = "active"
    BY <1>1 DEF end_op
  <2>2. ~committing
    BY <1>0, <2>1, Calling, ZenonT(40)
  <2>3. QED
    BY <1>1, <2>2 DEF end_op
<1>2. ASSUME NEW p \in Procs, NEW b \in Blocks, NEW v \in Values, log_write(p, b, v)
      PROVE  ~panicked'
  <2>1. p \in Active
    BY <1>2 DEF log_write, Active
  <2>2. outstanding # 0
    BY <1>0, <2>1 DEF CallsOK, Finite, CountEmpty
  <2>3. ~WritePanics
    BY <2>2, LogAssumption DEF WritePanics, Spare, Finite, Room
  <2>4. QED
    BY <1>2, <2>3 DEF log_write
<1>3. CASE Commit \/ (\E p \in Procs : begin_op(p) \/ log_entry(p)) \/ \E b \in Blocks : Recycle(b)
  BY <1>0, <1>3, ZenonT(40) DEF Commit, write_log, write_head, install_trans, erase, committed,
                    begin_op, log_entry, Recycle
<1>4. CASE Crash
  BY <1>4 DEF Crash
<1>5. CASE UNCHANGED vars
  BY <1>0, <1>5 DEF vars, memory
<1>6. QED
  BY <1>1, <1>2, <1>3, <1>4, <1>5 DEF Next

\* In a quiet log what system calls see is what a crash leaves.
LEMMA QuietState ==
  ASSUME CountEmpty, Finite, IInv
  PROVE  QuietIsStable
<1>1. SUFFICES ASSUME outstanding = 0, ~committing, ~recovering
               PROVE  cache = Recovered
  BY DEF QuietIsStable
<1>2. TypeOK /\ CallsOK /\ StagesOK /\ DataOK
  BY DEF IInv
<1>3. Active = {}
  BY <1>1, <1>2, ZenonT(40) DEF CallsOK, Finite, CountEmpty
<1>4. stage = "none" /\ lh = << >>
  BY <1>1, <1>2, <1>3 DEF StagesOK
<1>5. dhead = << >>
  BY <1>2, <1>4 DEF DataOK, HeadOK
<1>6. \A b \in Blocks : cache[b] = home[b]
  <2>1. Logged = {}
    BY <1>4 DEF Logged
  <2>2. \A p \in Procs, b \in Blocks : logging[p] # b
    BY <1>2, <1>3, LogAssumption, ZenonT(40) DEF CallsOK, Active
  <2>3. QED
    BY <1>1, <1>2, <2>1, <2>2, ZenonT(40) DEF DataOK, CleanOK
<1>7. cache = home
  BY <1>2, <1>6 DEF TypeOK
<1>8. QED
  BY <1>2, <1>5, <1>7, RecoveredHome

\* A fresh disk is one of AtomicDisk's.
LEMMA AtomicInit ==
  ASSUME Init
  PROVE  AD!Init
<1>1. Active = {} /\ cache = home /\ home = [b \in Blocks |-> Zero] /\ ~recovering
  BY DEF Init, Active
<1>2. Recovered = home
  BY <1>1 DEF Init, Recovered
<1>3. QED
  BY <1>1, <1>2 DEF AD!Init, Active

-----------------------------------------------------------------------------
(* Counting.                                                               *)

INSTANCE FiniteSetTheorems

\* The facts about finite sets.
LEMMA CountFacts ==
  CountEmpty /\ CountAdd /\ CountRemove /\ CountSubset /\ CountUnion /\ CountTagged
<1>1. CountEmpty
  BY FS_EmptySet, FS_CardinalityType DEF CountEmpty
<1>2. CountAdd
  BY FS_AddElement, ZenonT(40) DEF CountAdd
<1>3. CountRemove
  BY FS_RemoveElement, ZenonT(40) DEF CountRemove
<1>4. CountSubset
  BY FS_Subset, ZenonT(40) DEF CountSubset
<1>5. CountUnion
  <2> SUFFICES ASSUME NEW S, NEW T, IsFiniteSet(S), IsFiniteSet(T)
               PROVE  /\ IsFiniteSet(S \cup T)
                      /\ Cardinality(S \cup T) <= Cardinality(S) + Cardinality(T)
    BY DEF CountUnion
  <2>1. IsFiniteSet(S \cap T)
    BY FS_Subset
  <2>2. /\ IsFiniteSet(S \cup T)
        /\ Cardinality(S \cup T) = Cardinality(S) + Cardinality(T) - Cardinality(S \cap T)
    BY FS_Union
  <2>3. /\ Cardinality(S) \in Nat /\ Cardinality(T) \in Nat
        /\ Cardinality(S \cap T) \in Nat
    BY <2>1, FS_CardinalityType
  <2>4. QED
    BY <2>2, <2>3
<1>6. CountTagged
  <2> SUFFICES ASSUME NEW S, NEW x, IsFiniteSet(S)
               PROVE  IsFiniteSet({x} \X S) /\ Cardinality({x} \X S) = Cardinality(S)
    BY ZenonT(40) DEF CountTagged
  <2>1. IsFiniteSet({x}) /\ Cardinality({x}) = 1
    BY FS_Singleton, ZenonT(40)
  <2>2. IsFiniteSet({x} \X S) /\ Cardinality({x} \X S) = 1 * Cardinality(S)
    BY <2>1, FS_Product, ZenonT(40)
  <2>3. Cardinality(S) \in Nat
    BY FS_CardinalityType
  <2>4. QED
    BY <2>2, <2>3
<1>7. QED
  BY <1>1, <1>2, <1>3, <1>4, <1>5, <1>6

\* The calls in progress and the blocks they have used are finitely many.
LEMMA UsedFinite ==
  TypeOK /\ CallsOK => Finite
<1> SUFFICES ASSUME TypeOK, CallsOK
             PROVE  Finite
  OBVIOUS
<1>1. IsFiniteSet(Procs) /\ Active \in SUBSET Procs
  BY LogAssumption DEF Active
<1>2. IsFiniteSet(Active)
  BY <1>1, FS_Subset
<1>3. outstanding \in Nat
  BY <1>2, FS_CardinalityType DEF CallsOK
<1>4. IsFiniteSet(Logged)
  <2>1. Len(lh) \in Nat /\ lh \in [1..Len(lh) -> Logged]
    BY DEF TypeOK, Logged
  <2>2. lh \in Surjection(1..Len(lh), Logged)
    BY <2>1 DEF Surjection, Logged
  <2>3. IsFiniteSet(1..Len(lh))
    BY <2>1, FS_Interval
  <2>4. QED
    BY <2>2, <2>3, FS_Surjection
<1>5. IsFiniteSet(Active \X Logged)
  BY <1>2, <1>4, FS_Product
<1>6. Used \in SUBSET (Active \X Logged)
  BY DEF Used
<1>7. IsFiniteSet(Used)
  BY <1>5, <1>6, FS_Subset
<1>8. QED
  BY <1>2, <1>3, <1>7, FS_CardinalityType DEF Finite

\* What the log holds leaves two entries free, so that its blocks are on the disk
\* and log_write finds room.
LEMMA LogFits ==
  ASSUME Spare, TypeOK, CallsOK, SpaceOK
  PROVE  Room /\ Fits
\* Calls in progress have used at most OpBlocks blocks each.
<1>UsedBound. Cardinality(Used) <= OpBlocks * outstanding
  <2> DEFINE n == [p \in Procs |-> Cardinality(written[p])]
             D == {x \in Active \X (1..OpBlocks) : x[2] \in 1..n[x[1]]}
             W == {u \in Procs \X Blocks : u[1] \in Active /\ u[2] \in written[u[1]]}
             B(p) == CHOOSE f : f \in Bijection(1..n[p], written[p])
             g == [x \in D |-> <<x[1], B(x[1])[x[2]]>>]
  <2>1. \A p \in Procs : n[p] \in Nat /\ n[p] <= OpBlocks
    BY FS_CardinalityType DEF CallsOK
  <2>2. \A p \in Procs : B(p) \in Bijection(1..n[p], written[p])
    <3> SUFFICES ASSUME NEW p \in Procs PROVE B(p) \in Bijection(1..n[p], written[p])
      OBVIOUS
    <3>1. ExistsBijection(1..Cardinality(written[p]), written[p])
      BY FS_CardinalityType DEF CallsOK
    <3>2. QED
      BY <3>1 DEF ExistsBijection
  <2>3. Active \in SUBSET Procs /\ \A p \in Procs : written[p] \in SUBSET Blocks
    BY DEF Active, TypeOK
  <2>4. g \in [D -> W]
    <3> SUFFICES ASSUME NEW x \in D PROVE g[x] \in W
      BY ZenonT(40)
    <3>1. x[1] \in Active /\ x[1] \in Procs /\ x[2] \in 1..n[x[1]]
      BY <2>3
    <3> HIDE DEF B, n, D
    <3>2. B(x[1])[x[2]] \in written[x[1]]
      BY <2>2, <3>1, ZenonT(40) DEF Bijection, Injection
    <3>3. QED
      BY <2>3, <3>1, <3>2, ZenonT(40)
  <2>5. ASSUME NEW u \in W PROVE \E x \in D : g[x] = u
    <3>1. u[1] \in Active /\ u[1] \in Procs /\ u[2] \in written[u[1]] /\ u = <<u[1], u[2]>>
      BY <2>3
    <3> DEFINE q == u[1]
    <3>2. PICK i \in 1..n[q] : B(q)[i] = u[2]
      <4> HIDE DEF B, n
      <4>1. QED
        BY <2>2, <3>1 DEF Bijection, Surjection
    <3>3. <<q, i>> \in D
      <4> HIDE DEF n
      <4>1. n[q] \in Nat /\ n[q] <= OpBlocks
        BY <2>1, <3>1
      <4>2. i \in 1..OpBlocks
        BY <3>2, <4>1, LogAssumption
      <4>3. QED
        BY <3>1, <3>2, <4>2
    <3>4. g[<<q, i>>] = u
      <4> HIDE DEF B, n, D
      <4>1. QED
        BY <3>1, <3>2, <3>3
    <3>5. QED
      BY <3>3, <3>4, ZenonT(40)
  <2>6. g \in Surjection(D, W)
    <3> HIDE DEF g, D, W
    <3>1. QED
      BY <2>4, <2>5 DEF Surjection
  <2>7. /\ IsFiniteSet(Active \X (1..OpBlocks))
        /\ Cardinality(Active \X (1..OpBlocks)) = outstanding * OpBlocks
    <3>1. IsFiniteSet(1..OpBlocks) /\ Cardinality(1..OpBlocks) = OpBlocks
      BY FS_Interval, LogAssumption
    <3>2. QED
      BY <3>1, UsedFinite, FS_Product, ZenonT(40) DEF CallsOK, Finite
  <2>8. D \in SUBSET (Active \X (1..OpBlocks)) /\ Used \in SUBSET W
    BY DEF Used
  <2> HIDE DEF g, D, W
  <2>9. IsFiniteSet(D) /\ Cardinality(D) <= outstanding * OpBlocks
    BY <2>7, <2>8, FS_Subset
  <2>10. IsFiniteSet(W) /\ Cardinality(W) <= Cardinality(D)
    BY <2>6, <2>9, FS_Surjection
  <2>11. Cardinality(Used) <= Cardinality(W)
    BY <2>8, <2>10, FS_Subset
  <2>12. outstanding \in Nat /\ OpBlocks \in Nat /\ Cardinality(Used) \in Nat
         /\ Cardinality(W) \in Nat /\ Cardinality(D) \in Nat
    BY <2>9, <2>10, UsedFinite, FS_CardinalityType, LogAssumption DEF Finite
  <2>13. outstanding * OpBlocks = OpBlocks * outstanding /\ outstanding * OpBlocks \in Nat
    BY <2>12
  <2> DEFINE m == outstanding * OpBlocks
  <2>14. Cardinality(D) <= m /\ m \in Nat /\ m = OpBlocks * outstanding
    BY <2>9, <2>13
  <2> HIDE DEF m
  <2>15. Cardinality(Used) <= m
    BY <2>10, <2>11, <2>12, <2>14
  <2>16. QED
    BY <2>14, <2>15, ZenonT(40)
<1>1. Len(lh) \in Nat
  BY DEF TypeOK
<1>2. outstanding \in Nat /\ Cardinality(Used) \in Nat
  BY UsedFinite DEF Finite
<1>3. OpBlocks * outstanding \in Nat
  BY <1>2, LogAssumption
<1>4. Len(lh) + 2 <= LOGSIZE
  BY <1>1, <1>2, <1>3, <1>UsedBound, LogAssumption DEF SpaceOK
<1>5. QED
  BY <1>1, <1>4, LogAssumption DEF Spare, Fits, Room

-----------------------------------------------------------------------------
(* The invariant and what follows from it.                                 *)

\* The invariant is inductive.
LEMMA InvNext ==
  ASSUME Spare, IInv, [Next]_vars
  PROVE  IInv'
<1>0. TypeOK /\ CallsOK /\ SpaceOK /\ StagesOK /\ DataOK /\ ~panicked
  BY DEF IInv
<1>a. Finite /\ Room /\ Fits
  BY <1>0, UsedFinite, LogFits
<1>1. TypeOK'
  BY <1>0, <1>a, TypeNext
<1>2. CallsOK'
  BY <1>0, <1>a, CountFacts, CallsNext
<1>3. SpaceOK'
  <2>1. Finite'
    BY <1>1, <1>2, UsedFinite, PTL
  <2>2. QED
    BY <1>0, <1>a, <2>1, CountFacts, SpaceNext
<1>4. StagesOK'
  BY <1>0, <1>2, <1>a, CountFacts, StagesNext
<1>5. DataOK'
  BY <1>0, <1>a, <1>4, DataNext
<1>6. ~panicked'
  BY <1>a, CountFacts, PanicNext
<1>7. QED
  BY <1>1, <1>2, <1>3, <1>4, <1>5, <1>6 DEF IInv

\* The invariant holds in every state.
LEMMA Invariant ==
  ASSUME Spare
  PROVE  Spec => []IInv
<1>1. Init => IInv
  BY CountFacts, InvInit
<1>2. IInv /\ [Next]_vars => IInv'
  BY InvNext
<1>3. QED
  BY <1>1, <1>2, PTL DEF Spec

\* begin_op's reservation is enough: whatever calls overlap, log_write finds room in
\* the log and on the disk, and end_op never meets a running commit.
THEOREM ReservationSuffices ==
  ASSUME Spare
  PROVE  Spec => []NoPanic
<1>1. IInv => NoPanic
  BY DEF IInv, NoPanic
<1>2. QED
  BY <1>1, Invariant, PTL

\* Once the last end_op has returned, what system calls saw is what a crash leaves.
THEOREM QuietLogStable ==
  ASSUME Spare
  PROVE  Spec => []QuietIsStable
<1>1. IInv => QuietIsStable
  BY QuietState, UsedFinite, CountFacts DEF IInv
<1>2. QED
  BY <1>1, Invariant, PTL

\* Whatever the crashes, system calls that overlap reach the disk all at once or not
\* at all, and only when none of them is half-way.
THEOREM LogIsAtomic ==
  ASSUME Spare
  PROVE  Spec => CrashAtomicity
<1>1. Init => AD!Init
  BY AtomicInit
<1>2. IInv /\ [Next]_vars => [AD!Next]_<<Recovered, Current, Active>>
  BY RefineNext DEF IInv
<1>3. Init /\ []IInv /\ [][Next]_vars
        => AD!Init /\ [][AD!Next]_<<Recovered, Current, Active>>
  BY <1>1, <1>2, PTL
<1>4. QED
  BY <1>3, Invariant, PTL DEF Spec, CrashAtomicity, AD!Spec, Current, Active

=============================================================================
