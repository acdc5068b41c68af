--------------------------- MODULE BufCacheProofs ---------------------------
(***************************************************************************)
(* Proofs about BufCache, for any processes, blocks and number of buffers: *)
(* nobody sleeps for a lock that is free, the disk's queue is exactly what *)
(* processes wait for, and a call panics only when every buffer is in use  *)
(* or pinned.  On a disk whose reads succeed a clean buffer has what is on *)
(* the disk, and the cache implements BlockStore.                          *)
(***************************************************************************)
EXTENDS BufCache, Integers, TLAPS

-----------------------------------------------------------------------------
(* The inductive invariant                                                 *)

Points == {"idle", "acquire", "woken", "asleep", "holding", "iderw", "disk", "release"}
BufRecord ==
  [blockno : Blocks \cup {NoBlock}, valid : BOOLEAN, dirty : BOOLEAN,
   refcnt : Int, data : Values]

TypeOK ==
  /\ buf \in [Bufs -> BufRecord] /\ lock \in [Bufs -> Procs \cup {None}]
  /\ lru \in [Bufs -> Bufs] /\ idequeue \in Seq(Bufs)
  /\ disk \in [Blocks -> Values]
  /\ pc \in [Procs -> Points] /\ at \in [Procs -> 0..NBUF]

\* A process is at a buffer, which caches a block, from bget to the end of brelse.
PlacesOK ==
  \A p \in Procs :
    /\ pc[p] = "idle" <=> at[p] = 0
    /\ at[p] # 0 => buf[at[p]].blockno # NoBlock

\* A process has the lock of its buffer from acquiresleep to releasesleep, and no
\* other lock.
Owning == {"holding", "iderw", "disk"}
LocksOK ==
  \A p \in Procs, b \in Bufs : lock[b] = p <=> at[p] = b /\ pc[p] \in Owning

\* refcnt counts the processes at a buffer: they can be numbered from 1 to refcnt.
Users(b) == {p \in Procs : at[p] = b}
Numbers(f, n, S) ==
  /\ f \in [1..n -> S]
  /\ \A i, j \in 1..n : f[i] = f[j] => i = j
  /\ \A x \in S : \E i \in 1..n : f[i] = x
Counts(n, S) == n \in Nat /\ \E f \in [1..n -> S] : Numbers(f, n, S)
RefsOK == \A b \in Bufs : Counts(buf[b].refcnt, Users(b))

\* Only what was read is handed out or written; what is passed to iderw needs it.
FlagsOK ==
  /\ \A b \in Bufs : /\ buf[b].dirty => buf[b].valid
                     /\ buf[b].valid => buf[b].blockno # NoBlock
  /\ \A p \in Procs :
       /\ pc[p] = "holding" => buf[at[p]].valid
       /\ pc[p] \in {"iderw", "disk"} => buf[at[p]].valid = buf[at[p]].dirty

\* A block is in one buffer at most.
OneCopy ==
  \A b, c \in Bufs : buf[b].blockno = buf[c].blockno /\ buf[b].blockno # NoBlock => b = c

\* Every buffer is in the list.
ListOK == \A b \in Bufs : \E i \in Bufs : lru[i] = b

IInv ==
  /\ TypeOK /\ PlacesOK /\ LocksOK /\ SleeperHasHolder /\ QueueIsWaiters
  /\ RefsOK /\ FlagsOK /\ OneCopy /\ ListOK

\* A clean buffer has what is on the disk.
Coherent ==
  \A b \in Bufs : buf[b].valid /\ ~buf[b].dirty => buf[b].data = disk[buf[b].blockno]

-----------------------------------------------------------------------------
(* Counting the users of a buffer.                                         *)

LEMMA CountNone ==
  ASSUME NEW S
  PROVE  Counts(0, S) <=> S = {}
<1>1. ASSUME S = {} PROVE Counts(0, S)
  <2>1. Numbers([i \in 1..0 |-> 0], 0, S)
    BY <1>1 DEF Numbers
  <2>2. QED
    BY <2>1, ZenonT(40) DEF Counts, Numbers
<1>2. ASSUME Counts(0, S) PROVE S = {}
  BY <1>2 DEF Counts, Numbers
<1>3. QED
  BY <1>1, <1>2

-----------------------------------------------------------------------------
(* What each action does, field by field.                                  *)

\* A hit and a recycled buffer.
LEMMA BufferGot ==
  ASSUME TypeOK, NEW b \in Bufs, NEW k \in Blocks
  PROVE  /\ Hit(b) \in BufRecord /\ Recycled(b, k) \in BufRecord
         /\ Hit(b).blockno = buf[b].blockno /\ Hit(b).valid = buf[b].valid
         /\ Hit(b).dirty = buf[b].dirty /\ Hit(b).data = buf[b].data
         /\ Hit(b).refcnt = buf[b].refcnt + 1
         /\ Recycled(b, k).blockno = k /\ Recycled(b, k).refcnt = 1
         /\ ~Recycled(b, k).valid /\ ~Recycled(b, k).dirty
<1>1. buf[b] \in BufRecord
  BY DEF TypeOK
<1>2. /\ Hit(b) \in BufRecord /\ Hit(b).refcnt = buf[b].refcnt + 1
      /\ Hit(b).blockno = buf[b].blockno /\ Hit(b).valid = buf[b].valid
      /\ Hit(b).dirty = buf[b].dirty /\ Hit(b).data = buf[b].data
  BY <1>1 DEF Hit, BufRecord
<1>3. /\ Recycled(b, k) \in BufRecord
      /\ Recycled(b, k).blockno = k /\ Recycled(b, k).refcnt = 1
      /\ ~Recycled(b, k).valid /\ ~Recycled(b, k).dirty
  BY <1>1 DEF Recycled, BufRecord
<1>4. QED
  BY <1>2, <1>3

\* bget: p gets the buffer that caches k, or one that is not in use, if there is one.
BufferTaken(p, k, b) ==
  /\ pc[p] = "idle"
  /\ pc' = [pc EXCEPT ![p] = "acquire"] /\ at' = [at EXCEPT ![p] = b]
  /\ \/ buf' = [buf EXCEPT ![b] = Hit(b)] /\ buf[b].blockno = k
     \/ /\ buf' = [buf EXCEPT ![b] = Recycled(b, k)] /\ Recyclable(b)
        /\ \A c \in Bufs : buf[c].blockno # k
  /\ UNCHANGED <<lru, lock, idequeue, disk, panicked>>

LEMMA BgetStep ==
  ASSUME IInv, NEW p \in Procs, NEW k \in Blocks, bget(p, k)
  PROVE  \/ \E b \in Bufs : BufferTaken(p, k, b)
         \/ /\ pc[p] = "idle" /\ \A b \in Bufs : ~Recyclable(b)
            /\ UNCHANGED <<buf, lru, lock, idequeue, disk, pc, at>>
<1> DEFINE free == {i \in Bufs : Recyclable(lru[i])}
<1>0. TypeOK /\ ListOK
  BY DEF IInv
<1>1. pc[p] = "idle" /\ UNCHANGED <<lru, lock, idequeue, disk>>
  BY DEF bget
<1>2. CASE Cached(k) # {}
  BY <1>1, <1>2 DEF bget, Cached, Goto, BufferTaken
<1>3. CASE Cached(k) = {} /\ free # {}
  <2>1. PICK i \in free :
          /\ buf' = [buf EXCEPT ![lru[i]] = Recycled(lru[i], k)]
          /\ at' = [at EXCEPT ![p] = lru[i]] /\ Goto(p, "acquire") /\ UNCHANGED panicked
    BY <1>3 DEF bget
  <2>2. lru[i] \in Bufs /\ Recyclable(lru[i])
    BY <1>0 DEF TypeOK
  <2>4. \A c \in Bufs : buf[c].blockno # k
    BY <1>3 DEF Cached
  <2>5. QED
    BY <1>1, <2>1, <2>2, <2>4, ZenonT(40) DEF Goto, BufferTaken
<1>4. CASE Cached(k) = {} /\ free = {}
  BY <1>4, <1>0, <1>1 DEF bget, ListOK
<1>5. QED
  BY <1>2, <1>3, <1>4
-----------------------------------------------------------------------------
(* Every action keeps the invariant.                                       *)

\* The first part of FlagsOK, and the second.
BufFlags == \A b \in Bufs : /\ buf[b].dirty => buf[b].valid
                            /\ buf[b].valid => buf[b].blockno # NoBlock
ProcFlags(p) ==
  /\ pc[p] = "holding" => buf[at[p]].valid
  /\ pc[p] \in {"iderw", "disk"} => buf[at[p]].valid = buf[at[p]].dirty

\* The buffer that a process is at, and the process that has its lock.
LEMMA AtBuffer ==
  ASSUME IInv, NEW p \in Procs, pc[p] # "idle"
  PROVE  /\ at[p] \in Bufs
         /\ pc[p] \in Owning => lock[at[p]] = p
         /\ pc[p] \in Owning => \A q \in Procs \ {p} : at[q] = at[p] => pc[q] \notin Owning
<1>1. TypeOK /\ PlacesOK /\ LocksOK
  BY DEF IInv
<1>2. at[p] \in Bufs
  BY <1>1, BufCacheAssumption DEF TypeOK, PlacesOK, Bufs
<1>3. QED
  BY <1>1, <1>2 DEF LocksOK

\* The holder of a buffer changes it.
LEMMA BufferChanged ==
  ASSUME TypeOK, NEW b \in Bufs, NEW v \in Values,
         buf' = [buf EXCEPT ![b].data = v, ![b].dirty = TRUE]
  PROVE  /\ buf' \in [Bufs -> BufRecord] /\ \A c \in Bufs \ {b} : buf'[c] = buf[c]
         /\ buf'[b].blockno = buf[b].blockno /\ buf'[b].valid = buf[b].valid
         /\ buf'[b].refcnt = buf[b].refcnt /\ buf'[b].dirty /\ buf'[b].data = v
<1>1. buf \in [Bufs -> BufRecord]
  BY DEF TypeOK
<1>2. buf'[b] = [[buf[b] EXCEPT !.data = v] EXCEPT !.dirty = TRUE]
  BY <1>1
<1>3. /\ buf'[b] \in BufRecord
      /\ buf'[b].blockno = buf[b].blockno /\ buf'[b].valid = buf[b].valid
      /\ buf'[b].refcnt = buf[b].refcnt /\ buf'[b].dirty /\ buf'[b].data = v
  <2> DEFINE r == [buf[b] EXCEPT !.data = v]
             s == [r EXCEPT !.dirty = TRUE]
  <2>1. buf[b] \in BufRecord
    BY <1>1
  <2>2. /\ r \in BufRecord /\ r.blockno = buf[b].blockno /\ r.valid = buf[b].valid
        /\ r.refcnt = buf[b].refcnt /\ r.data = v
    BY <2>1 DEF BufRecord
  <2> HIDE DEF r
  <2>3. /\ s \in BufRecord /\ s.blockno = r.blockno /\ s.valid = r.valid
        /\ s.refcnt = r.refcnt /\ s.data = r.data /\ s.dirty
    BY <2>2, ZenonT(40) DEF BufRecord
  <2>4. buf'[b] = s
    BY <1>2 DEF r
  <2> HIDE DEF s
  <2>5. QED
    BY <2>2, <2>3, <2>4
<1>4. \A c \in Bufs \ {b} : buf'[c] = buf[c]
  BY <1>1
<1>5. DOMAIN buf' = Bufs /\ buf' = [c \in Bufs |-> buf'[c]]
  BY <1>1, ZenonT(40)
<1>6. QED
  BY <1>1, <1>3, <1>4, <1>5
\* ideintr: the process that waits for the first buffer of the queue has it.
BufferCame(w, b, ok) ==
  /\ pc[w] = "disk" /\ at[w] = b /\ buf[b].blockno \in Blocks
  /\ idequeue # << >> /\ b = Head(idequeue) /\ idequeue' = Tail(idequeue)
  /\ buf' \in [Bufs -> BufRecord] /\ \A c \in Bufs \ {b} : buf'[c] = buf[c]
  /\ buf'[b].blockno = buf[b].blockno /\ buf'[b].refcnt = buf[b].refcnt
  /\ buf'[b].valid /\ ~buf'[b].dirty
  /\ buf'[b].data = IF ~buf[b].dirty /\ ok THEN disk[buf[b].blockno] ELSE buf[b].data
  /\ disk' = IF buf[b].dirty THEN [disk EXCEPT ![buf[b].blockno] = buf[b].data] ELSE disk
  /\ pc' = [pc EXCEPT ![w] = "holding"]
  /\ UNCHANGED <<lru, lock, at, panicked>>

LEMMA IntrStep ==
  ASSUME IInv, NEW ok \in ReadSucceeds, ideintr(ok)
  PROVE  \E w \in Procs, b \in Bufs : BufferCame(w, b, ok)
\* A buffer that the disk is done with.
<1>BufferDone. ASSUME TypeOK, NEW b \in Bufs, NEW d \in Values,
                      buf' = [buf EXCEPT ![b] = [Done(b) EXCEPT !.data = d]]
               PROVE  /\ buf' \in [Bufs -> BufRecord] /\ \A c \in Bufs \ {b} : buf'[c] = buf[c]
                      /\ buf'[b].blockno = buf[b].blockno /\ buf'[b].refcnt = buf[b].refcnt
                      /\ buf'[b].valid /\ ~buf'[b].dirty /\ buf'[b].data = d
  <2> USE <1>BufferDone
  <2> DEFINE r == [buf[b] EXCEPT !.valid = TRUE]
             s == [r EXCEPT !.dirty = FALSE]
             t == [s EXCEPT !.data = d]
  <2>1. buf \in [Bufs -> BufRecord] /\ buf[b] \in BufRecord
    BY DEF TypeOK
  <2>2. /\ r \in BufRecord /\ r.blockno = buf[b].blockno /\ r.refcnt = buf[b].refcnt /\ r.valid
    BY <2>1, ZenonT(40) DEF BufRecord
  <2>3. Done(b) = s
    BY <2>1 DEF Done, BufRecord
  <2> HIDE DEF r
  <2>4. /\ s \in BufRecord /\ s.blockno = r.blockno /\ s.refcnt = r.refcnt
        /\ s.valid = r.valid /\ ~s.dirty
    BY <2>2, ZenonT(40) DEF BufRecord
  <2>5. buf' = [buf EXCEPT ![b] = t]
    BY <2>3
  <2> HIDE DEF s
  <2>6. /\ t \in BufRecord /\ t.blockno = s.blockno /\ t.refcnt = s.refcnt
        /\ t.valid = s.valid /\ t.dirty = s.dirty /\ t.data = d
    BY <2>4 DEF BufRecord
  <2> HIDE DEF t
  <2>7. buf'[b] = t /\ \A c \in Bufs \ {b} : buf'[c] = buf[c]
    BY <2>1, <2>5
  <2>8. buf' \in [Bufs -> BufRecord]
    BY <2>1, <2>5, <2>6
  <2>9. QED
    BY <2>2, <2>4, <2>6, <2>7, <2>8, ZenonT(40)
<1>0. TypeOK /\ PlacesOK /\ LocksOK /\ QueueIsWaiters
  BY DEF IInv
<1>1. idequeue # << >> /\ idequeue \in Seq(Bufs)
  BY <1>0 DEF TypeOK, ideintr
<1>2. PICK b \in Bufs : b = Head(idequeue)
  BY <1>1
<1>3. b \in Awaited
  BY <1>1, <1>2, <1>0 DEF QueueIsWaiters, Queued
<1>4. PICK w \in Procs : pc[w] = "disk" /\ at[w] = b
  BY <1>3 DEF Awaited
<1>5. \A q \in Procs \ {w} : at[q] = b => pc[q] # "disk"
  BY <1>4, AtBuffer DEF Owning
<1>6. buf[b].blockno \in Blocks /\ buf[b].data \in Values
  BY <1>0, <1>4 DEF TypeOK, PlacesOK, Bufs, BufRecord
<1> DEFINE d == IF ~buf[b].dirty /\ ok THEN disk[buf[b].blockno] ELSE buf[b].data
<1>7. d \in Values
  BY <1>0, <1>6 DEF TypeOK
<1>8. buf' = [buf EXCEPT ![b] = [Done(b) EXCEPT !.data = d]]
  BY <1>0, <1>2 DEF TypeOK, Done, BufRecord, ideintr
<1>9. /\ buf' \in [Bufs -> BufRecord] /\ \A c \in Bufs \ {b} : buf'[c] = buf[c]
      /\ buf'[b].blockno = buf[b].blockno /\ buf'[b].refcnt = buf[b].refcnt
      /\ buf'[b].valid /\ ~buf'[b].dirty /\ buf'[b].data = d
  <2> HIDE DEF d
  <2>1. QED
    BY <1>0, <1>7, <1>8, <1>BufferDone, ZenonT(40)
<1>10. pc' = [q \in Procs |-> IF pc[q] = "disk" /\ at[q] = b THEN "holding" ELSE pc[q]]
  BY <1>2, <1>9 DEF ideintr
<1>11. pc' = [pc EXCEPT ![w] = "holding"]
  BY <1>0, <1>4, <1>5, <1>10, ZenonT(40) DEF TypeOK
<1>12. /\ disk' = IF buf[b].dirty THEN [disk EXCEPT ![buf[b].blockno] = buf[b].data] ELSE disk
       /\ idequeue' = Tail(idequeue) /\ UNCHANGED <<lru, lock, at, panicked>>
  BY <1>2 DEF ideintr
<1>13. BufferCame(w, b, ok)
  BY <1>1, <1>2, <1>4, <1>6, <1>9, <1>11, <1>12 DEF BufferCame
<1>14. QED
  BY <1>13

LEMMA InitInv == Init => IInv
<1> SUFFICES ASSUME Init PROVE IInv
  OBVIOUS
<1>1. NBUF \in Nat /\ None \notin Procs /\ NoBlock \notin Blocks /\ Zero \in Values
  BY BufCacheAssumption
<1>2. \A i \in Bufs : NBUF + 1 - i \in Bufs
  BY <1>1 DEF Bufs
<1>3. TypeOK
  BY <1>1, <1>2 DEF Init, BufRecord, Points, TypeOK
<1>4. PlacesOK /\ LocksOK /\ SleeperHasHolder
  BY <1>1 DEF Init, PlacesOK, LocksOK, SleeperHasHolder, Bufs, Owning
<1>5. QueueIsWaiters
  BY DEF Init, Queued, Awaited, QueueIsWaiters
<1>6. RefsOK
  BY <1>1, CountNone DEF Init, Users, Bufs, RefsOK
<1>7. FlagsOK /\ OneCopy
  BY DEF Init, FlagsOK, OneCopy
<1>8. ListOK
  BY <1>1, <1>2 DEF Bufs, Init, ListOK
<1>10. QED
  BY <1>3, <1>4, <1>5, <1>6, <1>7, <1>8 DEF IInv

LEMMA StepInv ==
  ASSUME IInv, [Next]_vars
  PROVE  IInv'
<1>CountOneMore. ASSUME NEW n, NEW S, NEW x, x \notin S, Counts(n, S)
                 PROVE  Counts(n + 1, S \cup {x})
  <2> USE <1>CountOneMore
  <2>1. PICK f \in [1..n -> S] : Numbers(f, n, S)
    BY DEF Counts
  <2>2. n \in Nat
    BY DEF Counts
  <2> DEFINE g == [i \in 1..(n + 1) |-> IF i = n + 1 THEN x ELSE f[i]]
  <2>3. \A i \in 1..(n + 1) : i # n + 1 => i \in 1..n
    BY <2>2
  <2>4. g \in [1..(n + 1) -> S \cup {x}]
    BY <2>3
  <2>5. \A i, j \in 1..(n + 1) : g[i] = g[j] => i = j
    BY <2>1, <2>3 DEF Numbers
  <2>6. ASSUME NEW y \in S \cup {x} PROVE \E i \in 1..(n + 1) : g[i] = y
    <3>1. CASE y = x
      BY <2>2, <3>1
    <3>2. CASE y \in S
      <4>1. PICK i \in 1..n : f[i] = y
        BY <2>1, <3>2 DEF Numbers
      <4>2. i \in 1..(n + 1) /\ i # n + 1
        BY <2>2
      <4>3. QED
        BY <4>1, <4>2
    <3>3. QED
      BY <3>1, <3>2
  <2>7. Numbers(g, n + 1, S \cup {x})
    BY <2>4, <2>5, <2>6 DEF Numbers
  <2> HIDE DEF g
  <2>8. QED
    BY <2>2, <2>4, <2>7 DEF Counts
<1>CountOneLess. ASSUME NEW n, NEW S, NEW x \in S, Counts(n, S)
                 PROVE  Counts(n - 1, S \ {x})
  <2> USE <1>CountOneLess
  <2>1. PICK f \in [1..n -> S] : Numbers(f, n, S)
    BY DEF Counts
  <2>2. PICK k \in 1..n : f[k] = x
    BY <2>1 DEF Numbers
  <2>3. n \in Nat /\ n - 1 \in Nat /\ n \in 1..n
    BY DEF Counts
  <2> DEFINE g == [i \in 1..(n - 1) |-> IF i = k THEN f[n] ELSE f[i]]
  <2>4. \A i \in 1..(n - 1) : i \in 1..n /\ i # n
    BY <2>3
  <2>5. \A i, j \in 1..n : f[i] = f[j] => i = j
    BY <2>1 DEF Numbers
  <2>6. g \in [1..(n - 1) -> S \ {x}]
    BY <2>2, <2>3, <2>4, <2>5
  <2>7. \A i, j \in 1..(n - 1) : g[i] = g[j] => i = j
    BY <2>3, <2>4, <2>5
  <2>8. ASSUME NEW y \in S \ {x} PROVE \E i \in 1..(n - 1) : g[i] = y
    <3>1. PICK i \in 1..n : f[i] = y
      BY <2>1 DEF Numbers
    <3>2. CASE i = n
      BY <2>2, <3>1, <3>2
    <3>3. CASE i # n
      BY <2>3, <3>3, <2>2, <3>1
    <3>4. QED
      BY <3>2, <3>3
  <2>9. Numbers(g, n - 1, S \ {x})
    BY <2>6, <2>7, <2>8 DEF Numbers
  <2> HIDE DEF g
  <2>10. QED
    BY <2>3, <2>6, <2>9 DEF Counts
\* The queue and those who wait are the same.
<1>QueueFrom. ASSUME QueueIsWaiters, idequeue' = idequeue, Awaited' = Awaited
              PROVE  QueueIsWaiters'
  <2> USE <1>QueueFrom
  <2>1. Queued' = Queued
    BY DEF Queued
  <2>2. QED
    BY <2>1 DEF QueueIsWaiters
\* The counts, the blocks and the list are the same.
<1>CountsFrom. ASSUME RefsOK, OneCopy, ListOK, UNCHANGED <<lru, at>>,
                      \A c \in Bufs : buf'[c].refcnt = buf[c].refcnt /\ buf'[c].blockno = buf[c].blockno
               PROVE  RefsOK' /\ OneCopy' /\ ListOK'
  <2> USE <1>CountsFrom
  <2>1. \A c \in Bufs : Users(c)' = Users(c)
    BY DEF Users
  <2>2. RefsOK'
    BY <2>1 DEF RefsOK
  <2>3. OneCopy'
    BY DEF OneCopy
  <2>4. QED
    BY <2>2, <2>3 DEF ListOK
<1>FlagsFrom. ASSUME FlagsOK, NEW p \in Procs, BufFlags', ProcFlags(p)',
                     \A q \in Procs \ {p} :
                       pc'[q] \in Owning => /\ pc'[q] = pc[q] /\ at'[q] = at[q]
                                            /\ buf'[at[q]].valid = buf[at[q]].valid
                                            /\ buf'[at[q]].dirty = buf[at[q]].dirty
              PROVE  FlagsOK'
  <2> USE <1>FlagsFrom
  <2>1. ASSUME NEW q \in Procs \ {p} PROVE ProcFlags(q)'
    BY DEF ProcFlags, FlagsOK, Owning
  <2>2. \A q \in Procs : ProcFlags(q)'
    BY <2>1
  <2>3. QED
    BY <2>2 DEF FlagsOK, BufFlags, ProcFlags
<1>BufferTakenInv. ASSUME NEW p \in Procs, NEW k \in Blocks, NEW b \in Bufs,
                          BufferTaken(p, k, b)
                   PROVE  IInv'
  <2> USE <1>BufferTakenInv
  <2>0. /\ TypeOK /\ PlacesOK /\ LocksOK /\ SleeperHasHolder /\ QueueIsWaiters
        /\ RefsOK /\ FlagsOK /\ OneCopy /\ ListOK
    BY DEF IInv
  <2>1. /\ pc[p] = "idle"
        /\ pc' = [pc EXCEPT ![p] = "acquire"] /\ at' = [at EXCEPT ![p] = b]
        /\ \/ buf' = [buf EXCEPT ![b] = Hit(b)] /\ buf[b].blockno = k
           \/ /\ buf' = [buf EXCEPT ![b] = Recycled(b, k)] /\ Recyclable(b)
              /\ \A c \in Bufs : buf[c].blockno # k
        /\ UNCHANGED <<lru, lock, idequeue, disk, panicked>>
    BY DEF BufferTaken
  <2>2. /\ at[p] = 0 /\ at'[p] = b /\ b # 0 /\ pc'[p] = "acquire"
        /\ \A q \in Procs \ {p} : at'[q] = at[q] /\ pc'[q] = pc[q]
    BY <2>0, <2>1 DEF PlacesOK, TypeOK, Bufs
  <2>3. (\A c \in Bufs \ {b} : buf'[c] = buf[c]) /\ k # NoBlock
    BY <2>0, <2>1, BufCacheAssumption DEF TypeOK
  <2>4. /\ buf'[b] \in BufRecord
        /\ buf'[b].refcnt = buf[b].refcnt + 1 /\ buf'[b].blockno = k
        /\ \/ /\ buf[b].blockno = k /\ buf'[b].valid = buf[b].valid
              /\ buf'[b].dirty = buf[b].dirty
           \/ /\ Users(b) = {} /\ ~buf[b].dirty /\ ~buf'[b].valid /\ ~buf'[b].dirty
              /\ \A c \in Bufs : buf[c].blockno # k
    BY <2>0, BufferGot, CountNone, <2>1 DEF TypeOK, Recyclable, RefsOK
  <2>5. TypeOK'
    <3>1. buf' \in [Bufs -> BufRecord]
      <4>1. buf' = [c \in Bufs |-> buf'[c]] /\ \A c \in Bufs : buf[c] \in BufRecord
        BY <2>0, <2>1 DEF TypeOK
      <4>2. QED
        BY <2>3, <2>4, <4>1
    <3>2. pc' \in [Procs -> Points] /\ at' \in [Procs -> 0..NBUF]
      BY <2>0, <2>1 DEF TypeOK, Points, Bufs
    <3>3. QED
      BY <2>0, <2>1, <3>1, <3>2 DEF TypeOK
  <2>6. PlacesOK'
    <3>1. \A q \in Procs : at[q] # 0 => at[q] \in Bufs
      BY <2>0, BufCacheAssumption DEF TypeOK, Bufs
    <3>2. QED
      BY <2>0, <2>2, <2>3, <2>4, <3>1 DEF PlacesOK
  <2>7. LocksOK'
    BY <2>0, <2>1, <2>2 DEF LocksOK, Owning
  <2>8. SleeperHasHolder'
    BY <2>0, <2>1, <2>2 DEF SleeperHasHolder
  <2>9. QueueIsWaiters'
    BY <2>1, <2>2, <2>0, <1>QueueFrom DEF Awaited
  <2>10. RefsOK'
    <3>1. Users(b)' = Users(b) \cup {p} /\ p \notin Users(b)
      BY <2>2 DEF Users
    <3>2. \A c \in Bufs \ {b} : Users(c)' = Users(c)
      BY <2>2 DEF Users, Bufs
    <3>3. Counts(buf[b].refcnt + 1, Users(b)')
      BY <2>0, <3>1, <1>CountOneMore DEF RefsOK
    <3>4. QED
      BY <2>0, <2>3, <2>4, <3>2, <3>3 DEF RefsOK
  <2>11. FlagsOK'
    <3>1. ASSUME NEW q \in Procs \ {p}, at[q] = b
          PROVE  buf'[b].valid = buf[b].valid /\ buf'[b].dirty = buf[b].dirty
      BY <2>4, <3>1 DEF Users
    <3>2. ASSUME NEW q \in Procs \ {p}, pc[q] # "idle"
          PROVE  /\ buf'[at[q]].valid = buf[at[q]].valid
                 /\ buf'[at[q]].dirty = buf[at[q]].dirty
      BY <2>0, <2>3, <3>1, <3>2 DEF PlacesOK, TypeOK, Bufs
    <3>3. \A c \in Bufs : /\ buf'[c].dirty => buf'[c].valid
                          /\ buf'[c].valid => buf'[c].blockno # NoBlock
      BY <2>0, <2>3, <2>4 DEF FlagsOK
    <3>4. QED
      BY <2>0, <2>2, <3>2, <3>3 DEF FlagsOK
  <2>12. OneCopy'
    BY <2>0, <2>3, <2>4 DEF OneCopy
  <2>13. ListOK'
    BY <2>0, <2>1 DEF ListOK
  <2>15. QED
    BY <2>0, <2>1, <2>5, <2>6, <2>7, <2>8, <2>9, <2>10, <2>11, <2>12, <2>13 DEF IInv
\* acquiresleep takes a free lock, or the process goes to sleep.
<1>AcquireInv. ASSUME NEW p \in Procs, acquiresleep(p)
               PROVE  IInv'
  <2> USE <1>AcquireInv
  <2>0. /\ TypeOK /\ PlacesOK /\ LocksOK /\ SleeperHasHolder /\ QueueIsWaiters
        /\ RefsOK /\ FlagsOK /\ OneCopy /\ ListOK
    BY DEF IInv
  <2> DEFINE b == at[p]
  <2>1. pc[p] \in {"acquire", "woken"} /\ UNCHANGED <<buf, lru, idequeue, disk, at, panicked>>
    BY DEF acquiresleep
  <2>2. b \in Bufs
    BY <2>1, AtBuffer
  <2>3. \/ /\ lock[b] = None /\ lock' = [lock EXCEPT ![b] = p]
           /\ pc' = [pc EXCEPT ![p] = IF buf[b].valid THEN "holding" ELSE "iderw"]
        \/ lock[b] # None /\ lock' = lock /\ pc' = [pc EXCEPT ![p] = "asleep"]
    BY DEF acquiresleep, Goto, LockFree
  <2> HIDE DEF b
  <2>4. /\ \A q \in Procs \ {p} : pc'[q] = pc[q]
        /\ \A c \in Bufs \ {b} : lock'[c] = lock[c]
        /\ \/ /\ lock[b] = None /\ lock'[b] = p
              /\ pc'[p] = IF buf[b].valid THEN "holding" ELSE "iderw"
           \/ lock[b] # None /\ lock'[b] = lock[b] /\ pc'[p] = "asleep"
    BY <2>0, <2>2, <2>3 DEF TypeOK
  <2>5. TypeOK'
    <3>1. pc' \in [Procs -> Points]
      BY <2>0, <2>3 DEF TypeOK, Points
    <3>2. lock' \in [Bufs -> Procs \cup {None}]
      BY <2>0, <2>3 DEF TypeOK
    <3>3. QED
      BY <2>0, <2>1, <3>1, <3>2 DEF TypeOK
  <2>6. PlacesOK'
    BY <2>0, <2>1, <2>4 DEF PlacesOK
  <2>7. LocksOK'
    BY BufCacheAssumption, <2>0, <2>1, <2>4 DEF b, LocksOK, Owning
  <2>8. SleeperHasHolder'
    BY AtBuffer, BufCacheAssumption, <2>0, <2>1, <2>2, <2>4 DEF SleeperHasHolder, b
  <2>9. QueueIsWaiters'
    BY <2>1, <2>4, <2>0, <1>QueueFrom DEF Awaited
  <2>10. RefsOK' /\ OneCopy' /\ ListOK'
    BY <2>0, <2>1, ZenonT(40) DEF RefsOK, Users, OneCopy, ListOK
  <2>11. FlagsOK'
    BY <2>0, <2>1, <2>2, <2>4 DEF FlagsOK, b, TypeOK, BufRecord
  <2>13. QED
    BY <2>0, <2>1, <2>5, <2>6, <2>7, <2>8, <2>9, <2>10, <2>11 DEF IInv
\* bwrite: the buffer is dirty until the disk has it.
<1>BwriteInv. ASSUME NEW p \in Procs, NEW v \in Values, bwrite(p, v)
              PROVE  IInv'
  <2> USE <1>BwriteInv
  <2>0. /\ TypeOK /\ PlacesOK /\ LocksOK /\ SleeperHasHolder /\ QueueIsWaiters
        /\ RefsOK /\ FlagsOK /\ OneCopy /\ ListOK
    BY DEF IInv
  <2> DEFINE b == at[p]
  <2>1. /\ pc[p] = "holding" /\ pc' = [pc EXCEPT ![p] = "iderw"]
        /\ buf' = [buf EXCEPT ![b].data = v, ![b].dirty = TRUE]
        /\ panicked' = (lock[b] # p) /\ UNCHANGED <<lru, lock, idequeue, disk, at>>
    BY DEF bwrite, Goto
  <2>2. b \in Bufs /\ lock[b] = p /\ \A q \in Procs \ {p} : at[q] = b => pc[q] \notin Owning
    BY <2>1, AtBuffer DEF Owning
  <2>3. /\ buf' \in [Bufs -> BufRecord] /\ \A c \in Bufs \ {b} : buf'[c] = buf[c]
        /\ buf'[b].blockno = buf[b].blockno /\ buf'[b].valid = buf[b].valid
        /\ buf'[b].refcnt = buf[b].refcnt /\ buf'[b].dirty
    BY <2>0, <2>1, <2>2, BufferChanged, ZenonT(40)
  <2>4. pc'[p] = "iderw" /\ at[p] = b /\ \A q \in Procs \ {p} : pc'[q] = pc[q]
    BY <2>0, <2>1 DEF TypeOK
  <2>a. \A q \in Procs : pc[q] # "idle" => at[q] \in Bufs
    BY AtBuffer
  <2> HIDE DEF b
  <2>5. TypeOK'
    BY <2>0, <2>1, <2>3 DEF TypeOK, Points
  <2>6. PlacesOK'
    BY <2>0, <2>1, <2>2, <2>3, <2>4, <2>a DEF PlacesOK
  <2>7. LocksOK'
    BY <2>0, <2>1, <2>4 DEF LocksOK, Owning
  <2>8. SleeperHasHolder'
    BY <2>0, <2>1, <2>4 DEF SleeperHasHolder
  <2>9. QueueIsWaiters'
    BY <2>1, <2>4, <2>0, <1>QueueFrom DEF Awaited
  <2>10. RefsOK' /\ OneCopy' /\ ListOK'
    BY <2>3, <2>0, <2>1, <1>CountsFrom
  <2>11. FlagsOK'
    <3>1. buf[b].valid /\ buf[b].blockno # NoBlock
      BY <2>0, <2>1, <2>2 DEF FlagsOK, b
    <3>2. BufFlags'
      BY <2>0, <2>3, <3>1, ZenonT(40) DEF FlagsOK, BufFlags
    <3>3. ASSUME NEW q \in Procs \ {p}, pc[q] \in Owning PROVE at[q] # b /\ at[q] \in Bufs
      BY <2>2, <2>a, <3>3 DEF Owning
    <3>4. buf'[b].valid = buf'[b].dirty
      BY <2>2, <2>3, <3>1 DEF BufRecord
    <3>5. ProcFlags(p)'
      BY <2>1, <2>4, <3>4, ZenonT(40) DEF ProcFlags
    <3>6. ASSUME NEW q \in Procs \ {p}, pc'[q] \in Owning
          PROVE  /\ pc'[q] = pc[q] /\ at'[q] = at[q] /\ buf'[at[q]].valid = buf[at[q]].valid
                 /\ buf'[at[q]].dirty = buf[at[q]].dirty
      BY <2>1, <2>3, <2>4, <3>3, <3>6, ZenonT(40)
    <3>7. QED
      BY <2>0, <3>2, <3>5, <3>6, <1>FlagsFrom
  <2>13. QED
    BY <2>5, <2>6, <2>7, <2>8, <2>9, <2>10, <2>11 DEF IInv
\* log_write: one block more is pinned, and there was room for it.
<1>LogWriteInv. ASSUME NEW p \in Procs, NEW v \in Values, log_write(p, v)
                PROVE  IInv'
  <2> USE <1>LogWriteInv
  <2>0. /\ TypeOK /\ PlacesOK /\ LocksOK /\ SleeperHasHolder /\ QueueIsWaiters
        /\ RefsOK /\ FlagsOK /\ OneCopy /\ ListOK
    BY DEF IInv
  <2> DEFINE b == at[p]
  <2>1. /\ pc[p] = "holding"
        /\ buf' = [buf EXCEPT ![b].data = v, ![b].dirty = TRUE]
        /\ UNCHANGED <<lru, lock, idequeue, disk, pc, at, panicked>>
    BY DEF log_write
  <2>2. b \in Bufs /\ lock[b] = p /\ \A q \in Procs \ {p} : at[q] = b => pc[q] \notin Owning
    BY <2>1, AtBuffer DEF Owning
  <2>3. /\ buf' \in [Bufs -> BufRecord] /\ \A c \in Bufs \ {b} : buf'[c] = buf[c]
        /\ buf'[b].blockno = buf[b].blockno /\ buf'[b].valid = buf[b].valid
        /\ buf'[b].refcnt = buf[b].refcnt /\ buf'[b].dirty
    BY <2>0, <2>1, <2>2, BufferChanged, ZenonT(40)
  <2>a. (\A q \in Procs : pc[q] # "idle" => at[q] \in Bufs) /\ at[p] = b
    BY AtBuffer
  <2> HIDE DEF b
  <2>5. TypeOK'
    BY <2>0, <2>1, <2>3 DEF TypeOK
  <2>6. PlacesOK'
    BY <2>0, <2>1, <2>2, <2>3, <2>a DEF PlacesOK
  <2>7. LocksOK' /\ SleeperHasHolder'
    BY <2>0, <2>1 DEF LocksOK, SleeperHasHolder
  <2>8. QueueIsWaiters'
    BY <2>1, <2>0, <1>QueueFrom DEF Awaited
  <2>10. RefsOK' /\ OneCopy' /\ ListOK'
    BY <2>3, <2>0, <2>1, <1>CountsFrom
  <2>11. FlagsOK'
    <3>1. buf[b].valid /\ buf[b].blockno # NoBlock
      BY <2>0, <2>1, <2>2 DEF FlagsOK, b
    <3>2. BufFlags'
      BY <2>0, <2>3, <3>1, ZenonT(40) DEF FlagsOK, BufFlags
    <3>3. ASSUME NEW q \in Procs \ {p}, pc[q] \in Owning PROVE at[q] # b /\ at[q] \in Bufs
      BY <2>2, <2>a, <3>3 DEF Owning
    <3>4. ProcFlags(p)'
      BY <2>1, <2>3, <2>a, <3>1, ZenonT(40) DEF ProcFlags
    <3>5. QED
      BY <2>0, <2>1, <2>3, <3>2, <3>3, <3>4, <1>FlagsFrom, ZenonT(40)
  <2>13. QED
    BY <2>0, <2>1, <2>5, <2>6, <2>7, <2>8, <2>10, <2>11 DEF IInv
\* brelse gives the lock back and wakes everybody who sleeps for it.
<1>BrelseInv. ASSUME NEW p \in Procs, brelse(p)
              PROVE  IInv'
  <2> USE <1>BrelseInv
  <2>0. /\ TypeOK /\ PlacesOK /\ LocksOK /\ SleeperHasHolder /\ QueueIsWaiters
        /\ RefsOK /\ FlagsOK /\ OneCopy /\ ListOK
    BY DEF IInv
  <2> DEFINE b == at[p]
  <2>1. /\ pc[p] = "holding" /\ lock' = [lock EXCEPT ![b] = None]
        /\ pc' = [Wakeup(b) EXCEPT ![p] = "release"]
        /\ UNCHANGED <<buf, lru, idequeue, disk, at>>
    BY DEF brelse
  <2>2. b \in Bufs /\ at[p] = b /\ lock[b] = p
        /\ \A q \in Procs \ {p} : at[q] = b => pc[q] \notin Owning
    BY <2>1, AtBuffer DEF Owning
  <2> HIDE DEF b
  <2>3. /\ pc'[p] = "release"
        /\ \A q \in Procs \ {p} :
             pc'[q] = IF pc[q] = "asleep" /\ at[q] = b THEN "woken" ELSE pc[q]
    BY <2>1 DEF Wakeup
  <2>4. lock'[b] = None /\ \A c \in Bufs \ {b} : lock'[c] = lock[c]
    BY <2>0, <2>1, <2>2 DEF TypeOK
  <2>5. TypeOK'
    BY <2>0, <2>1, ZenonT(40) DEF TypeOK, Wakeup, Points
  <2>6. PlacesOK'
    BY <2>0, <2>1, <2>3 DEF PlacesOK
  <2>7. LocksOK'
    BY <2>0, BufCacheAssumption, <2>3, <2>2, <2>4, <2>1 DEF LocksOK, Owning
  <2>8. SleeperHasHolder'
    BY <2>3, AtBuffer, <2>0, <2>4, <2>1 DEF SleeperHasHolder
  <2>9. QueueIsWaiters'
    BY <2>1, <2>3, <2>0, <1>QueueFrom DEF Awaited
  <2>10. RefsOK' /\ OneCopy' /\ ListOK'
    BY <2>0, <2>1, <1>CountsFrom
  <2>11. FlagsOK'
    BY <2>0, <2>1, <2>3 DEF FlagsOK
  <2>13. QED
    BY <2>5, <2>6, <2>7, <2>8, <2>9, <2>10, <2>11 DEF IInv
\* Moving a buffer to the front keeps every buffer in the list.
<1>ListMoved. ASSUME TypeOK, ListOK, NEW b \in Bufs, lru' = MovedToFront(b)
              PROVE  lru' \in [Bufs -> Bufs] /\ ListOK'
  <2> USE <1>ListMoved
  <2>1. PICK k \in Bufs : k = CHOOSE i \in Bufs : lru[i] = b
    BY DEF ListOK
  <2>2. lru[k] = b
    BY <2>1 DEF ListOK
  <2>3. lru' = [i \in Bufs |-> IF i = 1 THEN b ELSE IF i <= k THEN lru[i - 1] ELSE lru[i]]
    BY <2>1 DEF MovedToFront
  <2>4. lru \in [Bufs -> Bufs] /\ NBUF \in Nat
    BY BufCacheAssumption DEF TypeOK
  <2>5. \A i \in Bufs : i # 1 => i - 1 \in Bufs
    BY <2>4 DEF Bufs
  <2>6. lru' \in [Bufs -> Bufs]
    BY <2>3, <2>4, <2>5
  <2>7. ASSUME NEW c \in Bufs PROVE \E i \in Bufs : lru'[i] = c
    <3>1. PICK j \in Bufs : lru[j] = c
      BY DEF ListOK
    <3>2. CASE j = k
      BY <2>4, <2>2, <2>3, <3>1, <3>2 DEF Bufs
    <3>3. CASE j < k
      <4>1. j + 1 \in Bufs /\ j + 1 # 1 /\ j + 1 <= k /\ (j + 1) - 1 = j
        BY <2>4, <3>3 DEF Bufs
      <4>2. lru'[j + 1] = c
        BY <2>3, <3>1, <4>1
      <4>3. QED
        BY <4>1, <4>2
    <3>4. CASE k < j
      BY <3>4, <2>3, <3>1 DEF Bufs
    <3>5. QED
      BY <3>2, <3>3, <3>4 DEF Bufs
  <2>8. QED
    BY <2>6, <2>7 DEF ListOK
\* The end of brelse: one user less.
<1>UnrefInv. ASSUME NEW p \in Procs, unref(p)
             PROVE  IInv'
  <2> USE <1>UnrefInv
  <2>0. /\ TypeOK /\ PlacesOK /\ LocksOK /\ SleeperHasHolder /\ QueueIsWaiters
        /\ RefsOK /\ FlagsOK /\ OneCopy /\ ListOK
    BY DEF IInv
  <2>2. PICK b \in Bufs : at[p] = b
    BY AtBuffer DEF unref
  <2>1. /\ pc[p] = "release" /\ buf' = [buf EXCEPT ![b].refcnt = @ - 1]
        /\ lru' = MovedToFront(b) \/ lru' = lru
        /\ pc' = [pc EXCEPT ![p] = "idle"] /\ at' = [at EXCEPT ![p] = 0]
        /\ UNCHANGED <<lock, idequeue, disk>>
    BY <2>2 DEF unref, Goto
  <2>3. /\ pc'[p] = "idle" /\ at'[p] = 0
        /\ \A q \in Procs \ {p} : pc'[q] = pc[q] /\ at'[q] = at[q]
    BY <2>0, <2>1 DEF TypeOK
  <2>4. /\ buf'[b] \in BufRecord /\ \A c \in Bufs \ {b} : buf'[c] = buf[c]
        /\ buf'[b].blockno = buf[b].blockno /\ buf'[b].valid = buf[b].valid
        /\ buf'[b].dirty = buf[b].dirty /\ buf'[b].refcnt = buf[b].refcnt - 1
    <3>1. buf'[b] = [buf[b] EXCEPT !.refcnt = @ - 1] /\ buf[b] \in BufRecord
      BY <2>0, <2>1, <2>2 DEF TypeOK
    <3>2. \A c \in Bufs \ {b} : buf'[c] = buf[c]
      BY <2>0, <2>1 DEF TypeOK
    <3>3. QED
      BY <3>1, <3>2 DEF BufRecord
  <2>a. \A q \in Procs : pc[q] # "idle" => at[q] \in Bufs
    BY AtBuffer
  <2>5. (lru' \in [Bufs -> Bufs]) /\ ListOK'
    BY <2>0, <2>2, <1>ListMoved, <2>1 DEF TypeOK, ListOK
  <2>6. TypeOK'
    <3>1. pc' \in [Procs -> Points] /\ at' \in [Procs -> 0..NBUF]
      BY <2>0, <2>1, BufCacheAssumption DEF TypeOK, Points
    <3>2. buf' \in [Bufs -> BufRecord]
      BY <2>0, <2>1, <2>4 DEF TypeOK
    <3>3. QED
      BY <2>0, <2>1, <2>5, <3>1, <3>2 DEF TypeOK
  <2>7. PlacesOK'
    BY <2>0, <2>3, <2>4, <2>a DEF PlacesOK
  <2>8. LocksOK'
    BY <2>0, <2>1, <2>3 DEF LocksOK, Owning
  <2>9. SleeperHasHolder'
    BY <2>0, <2>1, <2>3 DEF SleeperHasHolder
  <2>10. QueueIsWaiters'
    BY <2>1, <2>3, <2>0, <1>QueueFrom DEF Awaited
  <2>11. RefsOK'
    <3>1. Users(b)' = Users(b) \ {p} /\ p \in Users(b)
      BY <2>2, <2>3 DEF Users, Bufs
    <3>2. \A c \in Bufs \ {b} : Users(c)' = Users(c)
      BY <2>2, <2>3 DEF Users, Bufs
    <3>3. Counts(buf[b].refcnt - 1, Users(b)')
      BY <2>0, <3>1, <1>CountOneLess DEF RefsOK
    <3>4. QED
      BY <2>0, <2>4, <3>2, <3>3 DEF RefsOK
  <2>12. FlagsOK'
    BY <2>0, <2>4, <2>3, <2>a, <1>FlagsFrom DEF FlagsOK, BufFlags, ProcFlags, Owning
  <2>13. OneCopy'
    BY <2>0, <2>4 DEF OneCopy
  <2>15. QED
    BY <2>5, <2>6, <2>7, <2>8, <2>9, <2>10, <2>11, <2>12, <2>13 DEF IInv
\* iderw queues a buffer that is not in the queue: its caller has its lock.
<1>IderwInv. ASSUME NEW p \in Procs, iderw(p)
             PROVE  IInv'
  <2> USE <1>IderwInv
  <2>0. /\ TypeOK /\ PlacesOK /\ LocksOK /\ SleeperHasHolder /\ QueueIsWaiters
        /\ RefsOK /\ FlagsOK /\ OneCopy /\ ListOK
    BY DEF IInv
  <2>1. pc[p] = "iderw"
    BY DEF iderw
  <2>2. PICK b \in Bufs : at[p] = b
    BY <2>1, AtBuffer
  <2>3. /\ idequeue' = Append(idequeue, b) /\ pc' = [pc EXCEPT ![p] = "disk"]
        /\ UNCHANGED <<buf, lru, lock, disk, at>>
    BY <2>2 DEF iderw, Goto, Enqueued
  <2>4. pc'[p] = "disk" /\ \A q \in Procs \ {p} : pc'[q] = pc[q]
    BY <2>0, <2>3 DEF TypeOK
  <2>5. TypeOK'
    BY <2>0, <2>3, <2>2 DEF TypeOK, Points
  <2>6. PlacesOK'
    BY <2>0, <2>1, <2>3, <2>4 DEF PlacesOK
  <2>7. LocksOK'
    BY <2>0, <2>1, <2>3, <2>4 DEF LocksOK, Owning
  <2>8. SleeperHasHolder'
    BY <2>0, <2>3, <2>4 DEF SleeperHasHolder
  <2>9. QueueIsWaiters'
    <3>1. b \notin Awaited
      BY <2>1, <2>2, AtBuffer DEF Owning, Awaited
    <3>2. /\ \A i \in 1..Len(idequeue) : idequeue[i] # b
          /\ \A i, j \in 1..Len(idequeue) : idequeue[i] = idequeue[j] => i = j
      BY <2>0, <3>1 DEF QueueIsWaiters, Queued
    <3>3. /\ Len(idequeue') = Len(idequeue) + 1 /\ idequeue'[Len(idequeue) + 1] = b
          /\ \A i \in 1..Len(idequeue) : idequeue'[i] = idequeue[i]
          /\ Len(idequeue) \in Nat
      BY <2>0, <2>2, <2>3 DEF TypeOK
    <3>4. \A i, j \in 1..Len(idequeue') : idequeue'[i] = idequeue'[j] => i = j
      BY <3>2, <3>3
    <3>5. Queued' = Queued \cup {b}
      BY <3>3 DEF Queued
    <3>6. Awaited' = Awaited \cup {b}
      BY <2>1, <2>2, <2>3, <2>4 DEF Awaited
    <3>7. QED
      BY <2>0, <3>4, <3>5, <3>6 DEF QueueIsWaiters
  <2>10. RefsOK' /\ OneCopy' /\ ListOK'
    BY <2>0, <2>3, <1>CountsFrom, ZenonT(40)
  <2>11. FlagsOK'
    BY <2>0, <2>1, <2>3, <2>4, <1>FlagsFrom DEF FlagsOK, BufFlags, ProcFlags
  <2>13. QED
    BY <2>5, <2>6, <2>7, <2>8, <2>9, <2>10, <2>11 DEF IInv
<1>BufferCameInv. ASSUME NEW w \in Procs, NEW b \in Bufs, NEW ok,
                         BufferCame(w, b, ok)
                  PROVE  IInv'
  <2> USE <1>BufferCameInv
  <2>0. /\ TypeOK /\ PlacesOK /\ LocksOK /\ SleeperHasHolder /\ QueueIsWaiters
        /\ RefsOK /\ FlagsOK /\ OneCopy /\ ListOK
    BY DEF IInv
  <2>1. /\ pc[w] = "disk" /\ at[w] = b /\ buf[b].blockno \in Blocks
        /\ idequeue # << >> /\ b = Head(idequeue) /\ idequeue' = Tail(idequeue)
        /\ pc' = [pc EXCEPT ![w] = "holding"] /\ UNCHANGED <<lru, lock, at, panicked>>
    BY DEF BufferCame
  <2>2. /\ buf' \in [Bufs -> BufRecord] /\ \A c \in Bufs \ {b} : buf'[c] = buf[c]
        /\ buf'[b].blockno = buf[b].blockno /\ buf'[b].refcnt = buf[b].refcnt
        /\ buf'[b].valid /\ ~buf'[b].dirty
    BY DEF BufferCame
  <2>3. pc'[w] = "holding" /\ \A q \in Procs \ {w} : pc'[q] = pc[q]
    BY <2>0, <2>1 DEF TypeOK
  <2>4. \A q \in Procs \ {w} : at[q] = b => pc[q] \notin Owning
    BY <2>1, AtBuffer DEF Owning
  <2>a. \A q \in Procs : pc[q] # "idle" => at[q] \in Bufs
    BY AtBuffer, ZenonT(40)
  <2>5. TypeOK'
    BY <2>0, <2>1, <2>2 DEF TypeOK, Points, BufRecord, BufferCame
  <2>6. PlacesOK'
    BY <2>2, <2>0, <2>1, <2>3, <2>a DEF PlacesOK
  <2>7. LocksOK'
    BY <2>0, <2>1, <2>3 DEF LocksOK, Owning
  <2>8. SleeperHasHolder'
    BY <2>0, <2>1, <2>3 DEF SleeperHasHolder
  <2>9. QueueIsWaiters'
    <3>1. /\ Len(idequeue) \in Nat /\ Len(idequeue') = Len(idequeue) - 1 /\ idequeue[1] = b
          /\ Len(idequeue) # 0
          /\ \A i \in 1..Len(idequeue') : idequeue'[i] = idequeue[i + 1]
      BY <2>0, <2>1 DEF TypeOK
    <3>2. \A i, j \in 1..Len(idequeue) : idequeue[i] = idequeue[j] => i = j
      BY <2>0, ZenonT(40) DEF QueueIsWaiters
    <3>3. ASSUME NEW i \in 1..Len(idequeue'), NEW j \in 1..Len(idequeue'),
                 idequeue'[i] = idequeue'[j]
          PROVE  i = j
      <4>1. i + 1 \in 1..Len(idequeue) /\ j + 1 \in 1..Len(idequeue)
        BY <3>1
      <4>2. QED
        BY <3>1, <3>2, <3>3, <4>1
    <3>4. Queued' = Queued \ {b}
      <4>1. ASSUME NEW i \in 1..Len(idequeue') PROVE idequeue'[i] \in Queued \ {b}
        BY <3>1, <3>2 DEF Queued
      <4>2. ASSUME NEW i \in 1..Len(idequeue), idequeue[i] # b PROVE idequeue[i] \in Queued'
        <5>1. i - 1 \in 1..Len(idequeue') /\ (i - 1) + 1 = i
          BY <3>1, <4>2
        <5>2. idequeue[i] = idequeue'[i - 1]
          BY <3>1, <5>1
        <5>3. QED
          BY <5>1, <5>2 DEF Queued
      <4>3. QED
        BY <4>1, <4>2 DEF Queued
    <3>5. Awaited' = Awaited \ {b}
      BY <2>1, <2>3, <2>4, ZenonT(40) DEF Owning, Awaited
    <3>6. QED
      BY <2>0, <3>3, <3>4, <3>5 DEF QueueIsWaiters
  <2>10. RefsOK' /\ OneCopy' /\ ListOK'
    BY <2>2, <2>0, <2>1, <1>CountsFrom, ZenonT(40)
  <2>11. FlagsOK'
    <3>1. BufFlags'
      <4>1. \A c \in Bufs \ {b} : buf'[c] = buf[c]
        BY <2>1, <2>2, ZenonT(40)
      <4>2. buf'[b].blockno # NoBlock
        BY <2>1, <2>2, BufCacheAssumption
      <4>3. QED
        BY <2>0, <2>2, <4>1, <4>2, ZenonT(40) DEF FlagsOK, BufFlags
    <3>2. ProcFlags(w)'
      BY <2>1, <2>2, <2>3 DEF ProcFlags
    <3>3. ASSUME NEW q \in Procs \ {w}, pc[q] \in Owning PROVE at[q] # b /\ at[q] \in Bufs
      BY <2>4, <2>a, <3>3, ZenonT(40) DEF Owning
    <3>4. ASSUME NEW q \in Procs \ {w}, pc'[q] \in Owning
          PROVE  /\ pc'[q] = pc[q] /\ at'[q] = at[q] /\ buf'[at[q]].valid = buf[at[q]].valid
                 /\ buf'[at[q]].dirty = buf[at[q]].dirty
      BY <2>1, <2>2, <2>3, <3>3, <3>4
    <3>5. QED
      BY <2>0, <3>1, <3>2, <3>4, <1>FlagsFrom, ZenonT(40)
  <2>13. QED
    BY <2>5, <2>6, <2>7, <2>8, <2>9, <2>10, <2>11 DEF IInv
\* A panic of bget, and a step that changes nothing.
<1>SameInv. ASSUME UNCHANGED <<buf, lru, lock, idequeue, disk, pc, at>>
            PROVE  IInv'
  <2> USE <1>SameInv
  <2>0. /\ TypeOK /\ PlacesOK /\ LocksOK /\ SleeperHasHolder /\ QueueIsWaiters
        /\ RefsOK /\ FlagsOK /\ OneCopy /\ ListOK
    BY ZenonT(40) DEF IInv
  <2>1. TypeOK' /\ PlacesOK' /\ LocksOK' /\ SleeperHasHolder' /\ FlagsOK'
    BY <2>0 DEF TypeOK, PlacesOK, LocksOK, SleeperHasHolder, FlagsOK
  <2>2. QueueIsWaiters'
    BY <2>0, <1>QueueFrom DEF Awaited
  <2>3. RefsOK' /\ OneCopy' /\ ListOK'
    BY <2>0, <1>CountsFrom
  <2>5. QED
    BY <2>1, <2>2, <2>3 DEF IInv
<1>BgetInv. ASSUME NEW p \in Procs, NEW k \in Blocks, bget(p, k)
            PROVE  IInv'
  <2> USE <1>BgetInv
  <2>1. ASSUME NEW b \in Bufs, BufferTaken(p, k, b) PROVE IInv'
    BY <2>1, <1>BufferTakenInv
  <2>2. ASSUME UNCHANGED <<buf, lru, lock, idequeue, disk, pc, at>> PROVE IInv'
    BY <2>2, <1>SameInv
  <2>3. QED
    BY <2>1, <2>2, BgetStep
<1>1. ASSUME NEW p \in Procs, Step(p) PROVE IInv'
  <2>1. ASSUME NEW k \in Blocks, bget(p, k) PROVE IInv'
    BY <2>1, <1>BgetInv
  <2>2. ASSUME acquiresleep(p) PROVE IInv'
    BY <2>2, <1>AcquireInv
  <2>3. ASSUME iderw(p) PROVE IInv'
    BY <2>3, <1>IderwInv
  <2>4. ASSUME brelse(p) PROVE IInv'
    BY <2>4, <1>BrelseInv
  <2>5. ASSUME unref(p) PROVE IInv'
    BY <2>5, <1>UnrefInv
  <2>6. ASSUME NEW v \in Values, bwrite(p, v) PROVE IInv'
    BY <2>6, <1>BwriteInv
  <2>7. ASSUME NEW v \in Values, log_write(p, v) PROVE IInv'
    BY <2>7, <1>LogWriteInv
  <2>8. QED
    BY <1>1, <2>1, <2>2, <2>3, <2>4, <2>5, <2>6, <2>7 DEF Step
<1>2. ASSUME NEW ok \in ReadSucceeds, ideintr(ok) PROVE IInv'
  <2>1. PICK w \in Procs, b \in Bufs : BufferCame(w, b, ok)
    BY <1>2, IntrStep
  <2>2. QED
    BY <2>1, <1>BufferCameInv
<1>3. CASE UNCHANGED vars
  BY <1>3, <1>SameInv DEF vars
<1>4. QED
  BY <1>1, <1>2, <1>3 DEF Next, Interrupt

LEMMA Inductive == Spec => []IInv
<1>1. IInv /\ [Next]_vars => IInv'
  BY StepInv
<1>2. QED
  BY InitInv, <1>1, PTL DEF Spec

-----------------------------------------------------------------------------
(* What follows from it.                                                   *)

\* acquiresleep and releasesleep: a process that sleeps for the lock of a buffer
\* waits for a process that has it, so that a wakeup will come.
THEOREM SleepersHaveHolders == Spec => []SleeperHasHolder
<1>1. IInv => SleeperHasHolder
  BY DEF IInv
<1>2. QED
  BY Inductive, <1>1, PTL

\* iderw and ideintr: the buffers in idequeue are exactly those that processes wait
\* for, each once.
THEOREM QueueIsExact == Spec => []QueueIsWaiters
<1>1. IInv => QueueIsWaiters
  BY DEF IInv
<1>2. QED
  BY Inductive, <1>1, PTL

\* A panic is bget's, for a block that no buffer caches while every buffer is in
\* use or dirty; bwrite, brelse and iderw never panic: whoever calls them has the
\* lock of its buffer, and iderw has something to read or to write.
PanicStep ==
  ~panicked =>
    /\ panicked' => \E p \in Procs, k \in Blocks :
                      /\ bget(p, k) /\ Cached(k) = {}
                      /\ \A b \in Bufs : ~Recyclable(b)
    /\ \A p \in Procs :
         brelse(p) \/ iderw(p) \/ (\E v \in Values : bwrite(p, v)) => ~panicked'

\* The panics of bio.c and ide.c: the cache runs out of buffers for want of room,
\* and for no other reason.
THEOREM PanicsWithoutBuffers == Spec => [][PanicStep]_vars
<1>1. ASSUME IInv, NEW p \in Procs, pc[p] \in Owning PROVE lock[at[p]] = p
  BY <1>1, AtBuffer DEF Owning
<1>2. ASSUME IInv, ~panicked, NEW p \in Procs,
             brelse(p) \/ iderw(p) \/ \E v \in Values : bwrite(p, v)
      PROVE  ~panicked'
  <2>1. CASE brelse(p) \/ \E v \in Values : bwrite(p, v)
    BY <1>1, <1>2, <2>1, ZenonT(40) DEF brelse, bwrite, Owning
  <2>2. CASE iderw(p)
    BY <1>1, <1>2, <2>2, ZenonT(40) DEF IInv, FlagsOK, iderw, Owning
  <2>3. QED
    BY <1>2, <2>1, <2>2
<1>3. ASSUME IInv, ~panicked, [Next]_vars, panicked'
      PROVE  \E p \in Procs, k \in Blocks :
               bget(p, k) /\ Cached(k) = {} /\ \A b \in Bufs : ~Recyclable(b)
  <2>1. PICK p \in Procs : Step(p)
    BY <1>3, ZenonT(40) DEF Next, Interrupt, ideintr, vars
  <2>2. ~acquiresleep(p) /\ ~unref(p) /\ \A v \in Values : ~log_write(p, v)
    BY <1>3, ZenonT(40) DEF acquiresleep, unref, log_write
  <2>3. PICK k \in Blocks : bget(p, k)
    BY <1>2, <1>3, <2>1, <2>2, ZenonT(40) DEF Step
  <2>4. Cached(k) = {}
    BY <1>3, <2>3, ZenonT(40) DEF bget
  <2>5. \A b \in Bufs : ~Recyclable(b)
    BY <1>3, <2>3, BgetStep, ZenonT(40) DEF BufferTaken
  <2>6. QED
    BY <2>3, <2>4, <2>5
<1>4. IInv /\ [Next]_vars => [PanicStep]_vars
  BY <1>2, <1>3, ZenonT(40) DEF PanicStep
<1>5. QED
  BY Inductive, <1>4, PTL DEF Spec

\* Contents is a function of the blocks, Held one of the processes.
LEMMA ContentsFunction ==
  /\ Contents = [k \in Blocks |-> Contents[k]] /\ Contents' = [k \in Blocks |-> Contents'[k]]
  BY DEF Contents

LEMMA HeldFunction ==
  /\ Held = [q \in Procs |-> Held[q]] /\ Held' = [q \in Procs |-> Held'[q]]
  BY DEF Held

\* The steps of processes leave the disk alone; what they make of a buffer.
LEMMA StepBuffers ==
  ASSUME IInv, NEW p \in Procs, Step(p), NEW c \in Bufs
  PROVE  /\ disk' = disk
         /\ \/ /\ buf'[c].valid = buf[c].valid /\ buf'[c].dirty = buf[c].dirty
               /\ buf'[c].blockno = buf[c].blockno /\ buf'[c].data = buf[c].data
            \/ /\ ~buf[c].dirty /\ Users(c) = {} /\ ~buf'[c].valid /\ ~buf'[c].dirty
            \/ /\ pc[p] = "holding" /\ at[p] = c /\ buf'[c].dirty
               /\ buf'[c].blockno = buf[c].blockno
<1>0. TypeOK /\ RefsOK
  BY ZenonT(40) DEF IInv
<1>1. ASSUME NEW k \in Blocks, NEW b \in Bufs, BufferTaken(p, k, b)
      PROVE  /\ disk' = disk
             /\ \/ /\ buf'[c].valid = buf[c].valid /\ buf'[c].dirty = buf[c].dirty
                   /\ buf'[c].blockno = buf[c].blockno /\ buf'[c].data = buf[c].data
                \/ /\ ~buf[c].dirty /\ Users(c) = {} /\ ~buf'[c].valid /\ ~buf'[c].dirty
  <2>1. CASE c # b
    BY <1>0, <1>1, <2>1 DEF BufferTaken, TypeOK
  <2>2. CASE c = b /\ buf' = [buf EXCEPT ![b] = Hit(b)]
    BY <1>0, <2>2, <1>1, BufferGot, ZenonT(40) DEF TypeOK, BufferTaken
  <2>3. CASE c = b /\ buf' = [buf EXCEPT ![b] = Recycled(b, k)] /\ Recyclable(b)
    BY <1>0, <2>3, CountNone, <1>1, BufferGot DEF TypeOK, Recyclable, RefsOK, BufferTaken
  <2>4. QED
    BY <1>1, <2>1, <2>2, <2>3 DEF BufferTaken
<1>2. ASSUME NEW k \in Blocks, bget(p, k)
      PROVE  /\ disk' = disk
             /\ \/ /\ buf'[c].valid = buf[c].valid /\ buf'[c].dirty = buf[c].dirty
                   /\ buf'[c].blockno = buf[c].blockno /\ buf'[c].data = buf[c].data
                \/ /\ ~buf[c].dirty /\ Users(c) = {} /\ ~buf'[c].valid /\ ~buf'[c].dirty
  BY <1>1, <1>2, BgetStep, ZenonT(40)
<1>3. ASSUME acquiresleep(p) \/ iderw(p) \/ brelse(p) PROVE UNCHANGED <<buf, disk>>
  BY <1>3 DEF acquiresleep, iderw, brelse
<1>4. ASSUME unref(p)
      PROVE  /\ disk' = disk /\ buf'[c].valid = buf[c].valid /\ buf'[c].dirty = buf[c].dirty
             /\ buf'[c].blockno = buf[c].blockno /\ buf'[c].data = buf[c].data
  BY <1>0, <1>4 DEF unref, TypeOK, BufRecord
<1>5. ASSUME NEW v \in Values, bwrite(p, v) \/ log_write(p, v)
      PROVE  /\ disk' = disk /\ pc[p] = "holding"
             /\ \/ buf'[c] = buf[c]
                \/ at[p] = c /\ buf'[c].dirty /\ buf'[c].blockno = buf[c].blockno
  BY <1>5, AtBuffer, <1>0, BufferChanged DEF bwrite, log_write
<1>6. QED
  BY <1>2, <1>3, <1>4, <1>5, ZenonT(40) DEF Step

LEMMA CoherentStep ==
  ASSUME IInv, Coherent, ReadSucceeds \subseteq {TRUE}, [Next]_vars
  PROVE  Coherent'
\* Coherent is a matter of each buffer.
<1>CoherentFrom. ASSUME disk' = disk,
                        \A c \in Bufs : \/ /\ buf'[c].valid = buf[c].valid /\ buf'[c].dirty = buf[c].dirty
                                           /\ buf'[c].blockno = buf[c].blockno /\ buf'[c].data = buf[c].data
                                        \/ buf'[c].dirty \/ ~buf'[c].valid
                 PROVE  Coherent'
    BY <1>CoherentFrom, ZenonT(40) DEF Coherent
<1>1. ASSUME NEW p \in Procs, Step(p) PROVE Coherent'
  BY <1>1, StepBuffers, <1>CoherentFrom DEF Coherent
<1>2. ASSUME NEW ok \in ReadSucceeds, ideintr(ok) PROVE Coherent'
  <2>1. PICK w \in Procs, b \in Bufs : BufferCame(w, b, ok)
    BY <1>2, IntrStep
  <2>2. ok = TRUE
    BY ZenonT(40)
  <2>3. OneCopy /\ TypeOK /\ FlagsOK
    BY ZenonT(40) DEF IInv
  <2>4. buf'[b].data = disk'[buf'[b].blockno]
    BY <2>1, <2>2, <2>3, ZenonT(40) DEF BufferCame, TypeOK
  <2>5. ASSUME NEW c \in Bufs \ {b}, buf'[c].valid, ~buf'[c].dirty
        PROVE  buf'[c].data = disk'[buf'[c].blockno]
    BY <2>1, <2>3, <2>5 DEF BufferCame, FlagsOK, OneCopy, TypeOK, BufRecord, Coherent
  <2>6. QED
    BY <2>4, <2>5 DEF Coherent
<1>3. CASE UNCHANGED vars
  BY <1>3 DEF vars, Coherent
<1>4. QED
  BY <1>1, <1>2, <1>3 DEF Next, Interrupt

\* When reads succeed, a clean buffer has what is on the disk.
THEOREM CacheIsCoherent ==
  ASSUME ReadSucceeds \subseteq {TRUE}
  PROVE  Spec => []Coherent
<1>1. Init => Coherent
  BY DEF Init, Coherent
<1>2. IInv /\ Coherent /\ [Next]_vars => Coherent'
  BY CoherentStep, ZenonT(40)
<1>3. QED
  BY Inductive, <1>1, <1>2, PTL DEF Spec

\* A dirty buffer has the contents of its block; other blocks have theirs on the disk.
LEMMA ContentsAre ==
  ASSUME IInv, Coherent, NEW k \in Blocks
  PROVE  /\ \A b \in Bufs : buf[b].dirty /\ buf[b].blockno = k => Contents[k] = buf[b].data
         /\ (\A b \in Bufs : buf[b].blockno = k => ~buf[b].dirty) => Contents[k] = disk[k]
<1> DEFINE C == {b \in Bufs : buf[b].blockno = k /\ (buf[b].valid \/ buf[b].dirty)}
<1>0. FlagsOK /\ OneCopy /\ k # NoBlock
  BY BufCacheAssumption DEF IInv
<1>1. Contents[k] = IF C = {} THEN disk[k] ELSE buf[CHOOSE b \in C : TRUE].data
  BY DEF Contents
<1>2. \A b, c \in C : b = c
  BY <1>0, ZenonT(40) DEF OneCopy
<1>3. \A b \in C : Contents[k] = buf[b].data
  BY <1>1, <1>2, ZenonT(40)
<1>4. ASSUME \A b \in Bufs : buf[b].blockno = k => ~buf[b].dirty
      PROVE  Contents[k] = disk[k]
  BY <1>1, <1>3, <1>4 DEF Coherent
<1>5. QED
  BY <1>3, <1>4

\* The block that a process holds is in the buffer whose lock it has.
LEMMA HeldLock ==
  ASSUME IInv, NEW p \in Procs
  PROVE  /\ Holds(p) => pc[p] \in Owning /\ Held[p] = buf[at[p]].blockno /\ Held[p] # NoBlock
         /\ ~Holds(p) => Held[p] = NoBlock
         /\ \A b \in Bufs : Holds(p) /\ buf[b].blockno = Held[p] => lock[b] = p
<1>0. PlacesOK /\ OneCopy
  BY DEF IInv
<1>1. Holds(p) => pc[p] \in Owning
  BY DEF Holds, Owning
<1>2. Held[p] = IF Holds(p) THEN buf[at[p]].blockno ELSE NoBlock
  BY DEF Held
<1>3. ASSUME Holds(p) PROVE at[p] \in Bufs /\ lock[at[p]] = p /\ buf[at[p]].blockno # NoBlock
  BY <1>0, <1>1, <1>3, AtBuffer DEF PlacesOK, Owning, Bufs
<1>4. QED
  BY <1>0, <1>1, <1>2, <1>3 DEF OneCopy

\* A process whose place and buffer are the same holds the same block.
LEMMA HeldKept ==
  ASSUME NEW q \in Procs, at'[q] = at[q], pc'[q] = pc[q] \/ {pc[q], pc'[q]} \cap Owning = {},
         pc[q] \in Owning => /\ buf'[at[q]].blockno = buf[at[q]].blockno
                             /\ buf'[at[q]].dirty = buf[at[q]].dirty
  PROVE  Held'[q] = Held[q]
<1>1. Holds(q)' = Holds(q) /\ (Holds(q) => pc[q] \in Owning)
  BY ZenonT(40) DEF Holds, Owning
<1>2. QED
  BY <1>1 DEF Held

\* The same of the next state.
ContentsOK ==
  \A k \in Blocks :
    /\ \A b \in Bufs : buf[b].dirty /\ buf[b].blockno = k => Contents[k] = buf[b].data
    /\ (\A b \in Bufs : buf[b].blockno = k => ~buf[b].dirty) => Contents[k] = disk[k]

LEMMA ContentsAreOK == IInv /\ Coherent => ContentsOK
  BY ContentsAre DEF ContentsOK

LEMMA ContentsWillBe ==
  ASSUME IInv', Coherent', NEW k \in Blocks
  PROVE  /\ \A b \in Bufs : buf'[b].dirty /\ buf'[b].blockno = k => Contents'[k] = buf'[b].data
         /\ (\A b \in Bufs : buf'[b].blockno = k => ~buf'[b].dirty) => Contents'[k] = disk'[k]
<1>1. ContentsOK'
  BY ContentsAreOK, PTL
<1>2. QED
  BY <1>1 DEF ContentsOK

\* A step that keeps the dirty buffers and the disk keeps the contents.
LEMMA ContentsKept ==
  ASSUME IInv, Coherent, IInv', Coherent', disk' = disk,
         \A c \in Bufs : \/ /\ buf'[c].dirty = buf[c].dirty
                            /\ buf'[c].blockno = buf[c].blockno /\ buf'[c].data = buf[c].data
                         \/ ~buf[c].dirty /\ ~buf'[c].dirty
  PROVE  Contents' = Contents
<1>1. ASSUME NEW k \in Blocks PROVE Contents'[k] = Contents[k]
  BY ContentsAre, ContentsWillBe
<1>2. QED
  BY <1>1, ContentsFunction

\* bwrite and log_write change the contents of the block that their caller holds.
LEMMA ContentsChanged ==
  ASSUME IInv, Coherent, IInv', Coherent', NEW p \in Procs, NEW v \in Values,
         bwrite(p, v) \/ log_write(p, v)
  PROVE  Contents' = [Contents EXCEPT ![Held[p]] = v]
<1>0. TypeOK /\ OneCopy
  BY DEF IInv
<1>1. /\ disk' = disk /\ pc[p] = "holding"
      /\ buf' = [buf EXCEPT ![at[p]].data = v, ![at[p]].dirty = TRUE]
  BY DEF bwrite, log_write
<1>2. PICK b \in Bufs : at[p] = b
  BY <1>1, AtBuffer
<1>3. /\ \A c \in Bufs \ {b} : buf'[c] = buf[c]
      /\ buf'[b].blockno = buf[b].blockno /\ buf'[b].dirty /\ buf'[b].data = v
  BY <1>0, <1>1, <1>2, BufferChanged, ZenonT(40)
<1>4. Held[p] = buf[b].blockno /\ Held[p] # NoBlock
  BY <1>1, <1>2, HeldLock DEF Holds
<1>5. ASSUME NEW k \in Blocks PROVE Contents'[k] = IF k = Held[p] THEN v ELSE Contents[k]
  <2>1. CASE k = Held[p]
    <3>1. buf'[b].dirty /\ buf'[b].blockno = k
      BY <1>3, <1>4, <2>1, ZenonT(40)
    <3>2. Contents'[k] = buf'[b].data
      BY <3>1, ContentsWillBe, ZenonT(40)
    <3>3. QED
      BY <1>3, <2>1, <3>2, ZenonT(40)
  <2>2. ASSUME k # Held[p], NEW c \in Bufs, buf[c].dirty, buf[c].blockno = k
        PROVE  Contents'[k] = Contents[k]
    <3>1. buf'[c] = buf[c]
      BY <1>3, <1>4, <2>2, ZenonT(40)
    <3>2. Contents[k] = buf[c].data
      BY <2>2, ContentsAre, ZenonT(40)
    <3>3. Contents'[k] = buf'[c].data
      BY <2>2, <3>1, ContentsWillBe, ZenonT(40)
    <3>4. QED
      BY <3>1, <3>2, <3>3, ZenonT(40)
  <2>3. CASE k # Held[p] /\ \A c \in Bufs : buf[c].blockno = k => ~buf[c].dirty
    <3>1. \A c \in Bufs : buf'[c].blockno = k => ~buf'[c].dirty
      BY <1>3, <1>4, <2>3
    <3>2. Contents[k] = disk[k] /\ Contents'[k] = disk'[k]
      BY <2>3, <3>1, ContentsAre, ContentsWillBe, ZenonT(40)
    <3>3. QED
      BY <1>1, <2>3, <3>2, ZenonT(40)
  <2>4. QED
    BY <2>1, <2>2, <2>3, ZenonT(40)
<1>6. QED
  BY <1>5, ContentsFunction

\* The answer of the disk changes no contents: what was dirty is on the disk.
LEMMA ContentsCame ==
  ASSUME IInv, Coherent, IInv', Coherent', NEW w \in Procs, NEW b \in Bufs, NEW ok,
         BufferCame(w, b, ok)
  PROVE  Contents' = Contents
<1>0. TypeOK /\ OneCopy
  BY DEF IInv
<1>1. /\ \A c \in Bufs \ {b} : buf'[c] = buf[c]
      /\ buf'[b].blockno = buf[b].blockno /\ ~buf'[b].dirty /\ buf[b].blockno \in Blocks
      /\ disk' = IF buf[b].dirty THEN [disk EXCEPT ![buf[b].blockno] = buf[b].data] ELSE disk
  BY ZenonT(40) DEF BufferCame
<1>2. CASE ~buf[b].dirty
  BY <1>1, <1>2, ContentsKept
<1>3. CASE buf[b].dirty
  <2>1. \A k \in Blocks : disk'[k] = IF k = buf[b].blockno THEN buf[b].data ELSE disk[k]
    BY <1>0, <1>1, <1>3, ZenonT(40) DEF TypeOK
  <2>2. ASSUME NEW k \in Blocks PROVE Contents'[k] = Contents[k]
    <3>1. CASE k = buf[b].blockno
      <4>1. Contents[k] = buf[b].data
        BY <1>3, <3>1, ContentsAre, ZenonT(40)
      <4>2. ASSUME NEW c \in Bufs, buf'[c].blockno = k PROVE ~buf'[c].dirty
        <5>1. k # NoBlock
          BY BufCacheAssumption
        <5>2. c # b => buf[c].blockno = k
          BY <1>1, <4>2, ZenonT(40)
        <5>3. c = b
          BY <1>0, <3>1, <5>1, <5>2, ZenonT(40) DEF OneCopy
        <5>4. QED
          BY <1>1, <5>3, ZenonT(40)
      <4>3. Contents'[k] = disk'[k]
        BY <4>2, ContentsWillBe, ZenonT(40)
      <4>4. QED
        BY <2>1, <3>1, <4>1, <4>3, ZenonT(40)
    <3>2. ASSUME k # buf[b].blockno, NEW c \in Bufs, buf[c].dirty, buf[c].blockno = k
          PROVE  Contents'[k] = Contents[k]
      <4>1. buf'[c] = buf[c]
        BY <1>1, <3>2, ZenonT(40)
      <4>2. Contents[k] = buf[c].data
        BY <3>2, ContentsAre, ZenonT(40)
      <4>3. Contents'[k] = buf'[c].data
        BY <3>2, <4>1, ContentsWillBe, ZenonT(40)
      <4>4. QED
        BY <4>1, <4>2, <4>3, ZenonT(40)
    <3>3. CASE k # buf[b].blockno /\ \A c \in Bufs : buf[c].blockno = k => ~buf[c].dirty
      <4>1. \A c \in Bufs : buf'[c].blockno = k => ~buf'[c].dirty
        BY <1>1, <3>3, ZenonT(40)
      <4>2. Contents[k] = disk[k] /\ Contents'[k] = disk'[k]
        BY <3>3, <4>1, ContentsAre, ContentsWillBe, ZenonT(40)
      <4>3. QED
        BY <2>1, <3>3, <4>2, ZenonT(40)
    <3>4. QED
      BY <3>1, <3>2, <3>3, ZenonT(40)
  <2>3. QED
    BY <2>2, ContentsFunction
<1>4. QED
  BY <1>2, <1>3

\* A process that gets a buffer which nobody has the lock of holds its block.
LEMMA HoldStep ==
  ASSUME IInv, IInv', NEW p \in Procs, ~Holds(p), Holds(p)', NEW b \in Bufs, at'[p] = b,
         \A q \in Procs \ {p} : Held'[q] = Held[q] /\ lock[b] # q,
         buf'[b].blockno = buf[b].blockno, Contents' = Contents
  PROVE  BS!Next
<1>0. Held[p] = NoBlock /\ \A q \in Procs : Held[q] = buf[b].blockno => ~Holds(q) \/ q = p
  BY HeldLock
<1>1. TypeOK /\ PlacesOK' /\ buf[b] \in BufRecord
  BY ZenonT(40) DEF IInv, TypeOK
<1>2. Held'[p] = buf[b].blockno
  BY DEF Held
<1>3. buf[b].blockno # NoBlock
  BY <1>1 DEF PlacesOK, Bufs
<1>4. buf[b].blockno \in Blocks
  BY <1>1, <1>3, ZenonT(40) DEF BufRecord
<1>5. \A q \in Procs : Held[q] # buf[b].blockno
  BY <1>0, <1>3, HeldLock
<1>6. Held' = [Held EXCEPT ![p] = buf[b].blockno]
  BY <1>2, HeldFunction
<1>7. BS!Hold(p, buf[b].blockno)
  BY <1>0, <1>5, <1>6 DEF BS!Hold
<1>8. QED
  BY <1>4, <1>7 DEF BS!Next

\* Every step of a process is a step of BlockStore or changes neither the contents
\* of a block nor who holds it.
LEMMA StepRefines ==
  ASSUME IInv, Coherent, IInv', Coherent', NEW p \in Procs, Step(p)
  PROVE  BS!Next \/ UNCHANGED <<Contents, Held>>
<1>0. TypeOK /\ LocksOK /\ FlagsOK
  BY DEF IInv
<1>a. \A q \in Procs : pc[q] # "idle" => at[q] \in Bufs
  BY AtBuffer
<1>b. \A q \in Procs : pc[q] \in Owning => pc[q] # "idle"
  BY DEF Owning
<1>1. ASSUME NEW k \in Blocks, bget(p, k) PROVE UNCHANGED <<Contents, Held>>
  <2>1. ASSUME NEW c \in Bufs
        PROVE  /\ disk' = disk
               /\ \/ /\ buf'[c].dirty = buf[c].dirty
                     /\ buf'[c].blockno = buf[c].blockno /\ buf'[c].data = buf[c].data
                  \/ ~buf[c].dirty /\ ~buf'[c].dirty /\ Users(c) = {}
    BY <1>1, StepBuffers DEF bget
  <2>2. disk' = disk
    BY <1>1, ZenonT(40) DEF bget
  <2>3. Contents' = Contents
    BY <2>1, <2>2, ContentsKept, ZenonT(40)
  <2>4. /\ pc[p] = "idle" /\ pc'[p] \in {"idle", "acquire"}
        /\ \A q \in Procs \ {p} : pc'[q] = pc[q] /\ at'[q] = at[q]
    <3>1. ASSUME NEW b \in Bufs, BufferTaken(p, k, b)
          PROVE  /\ pc[p] = "idle" /\ pc'[p] \in {"idle", "acquire"}
                 /\ \A q \in Procs \ {p} : pc'[q] = pc[q] /\ at'[q] = at[q]
      BY <1>0, <3>1 DEF BufferTaken, TypeOK
    <3>2. QED
      BY <1>1, <3>1, BgetStep, ZenonT(40)
  <2>5. ASSUME NEW q \in Procs \ {p} PROVE Held'[q] = Held[q]
    BY <1>a, <1>b, <2>1, <2>4, HeldKept, ZenonT(40) DEF Users
  <2>6. Held'[p] = Held[p]
    BY <2>4 DEF Held, Holds
  <2>7. QED
    BY <2>3, <2>5, <2>6, HeldFunction, ZenonT(40)
<1>2. ASSUME acquiresleep(p) PROVE BS!Next \/ UNCHANGED <<Contents, Held>>
  <2>1. /\ pc[p] \in {"acquire", "woken"} /\ UNCHANGED <<buf, disk, at>>
        /\ \/ /\ lock[at[p]] = None
              /\ pc' = [pc EXCEPT ![p] = IF buf[at[p]].valid THEN "holding" ELSE "iderw"]
           \/ pc' = [pc EXCEPT ![p] = "asleep"]
    BY <1>2 DEF acquiresleep, Goto, LockFree
  <2>2. PICK b \in Bufs : at[p] = b
    BY <1>a, <2>1
  <2>3. /\ \A q \in Procs \ {p} : pc'[q] = pc[q]
        /\ \/ lock[b] = None /\ pc'[p] = IF buf[b].valid THEN "holding" ELSE "iderw"
           \/ pc'[p] = "asleep"
    BY <1>0, <2>1, <2>2 DEF TypeOK
  <2>4. Contents' = Contents
    BY <2>1, ContentsKept, ZenonT(40)
  <2>5. \A q \in Procs \ {p} : Held'[q] = Held[q]
    BY <2>1, <2>3, HeldKept
  <2>6. ~Holds(p)
    BY <2>1, ZenonT(40) DEF Holds
  <2>7. CASE lock[b] = None /\ pc'[p] = "holding"
    <3>1. Holds(p)' /\ at'[p] = b /\ buf'[b].blockno = buf[b].blockno
      BY <2>1, <2>2, <2>7, ZenonT(40) DEF Holds
    <3>2. \A q \in Procs \ {p} : Held'[q] = Held[q] /\ lock[b] # q
      BY <2>5, <2>7, BufCacheAssumption
    <3>3. QED
      BY <2>4, <2>6, <3>1, <3>2, HoldStep, ZenonT(40)
  <2>8. CASE (~buf[b].valid /\ pc'[p] = "iderw") \/ pc'[p] = "asleep"
    <3>1. ~buf[b].valid => ~buf[b].dirty
      BY <1>0, BufCacheAssumption DEF FlagsOK, BufFlags
    <3>2. ~Holds(p)'
      BY <2>1, <2>2, <2>8, <3>1 DEF Holds
    <3>3. Held'[p] = Held[p]
      BY <2>6, <3>2, ZenonT(40) DEF Held
    <3>4. QED
      BY <2>4, <2>5, <3>3, HeldFunction, ZenonT(40)
  <2>9. QED
    BY <2>3, <2>7, <2>8
<1>3. ASSUME iderw(p) PROVE UNCHANGED <<Contents, Held>>
  <2>1. /\ pc[p] = "iderw" /\ pc' = [pc EXCEPT ![p] = "disk"] /\ UNCHANGED <<buf, disk, at>>
    BY <1>3, ZenonT(40) DEF iderw, Goto
  <2>2. pc'[p] = "disk" /\ \A q \in Procs \ {p} : pc'[q] = pc[q]
    BY <1>0, <2>1 DEF TypeOK
  <2>3. Contents' = Contents
    BY <2>1, ContentsKept
  <2>4. \A q \in Procs \ {p} : Held'[q] = Held[q]
    BY <2>1, <2>2, HeldKept, ZenonT(40)
  <2>5. Held'[p] = Held[p]
    BY <2>1, <2>2 DEF Held, Holds
  <2>6. QED
    BY <2>3, <2>4, <2>5, HeldFunction
<1>4. ASSUME brelse(p) PROVE BS!Next
  <2>1. /\ pc[p] = "holding" /\ pc' = [Wakeup(at[p]) EXCEPT ![p] = "release"]
        /\ UNCHANGED <<buf, disk, at>>
    BY <1>4 DEF brelse
  <2>2. /\ pc'[p] = "release"
        /\ \A q \in Procs \ {p} : pc'[q] = pc[q] \/ (pc[q] = "asleep" /\ pc'[q] = "woken")
    BY <2>1, ZenonT(40) DEF Wakeup
  <2>3. Contents' = Contents
    BY <2>1, ContentsKept
  <2>4. ASSUME NEW q \in Procs \ {p} PROVE Held'[q] = Held[q]
    BY <2>2, <2>1, HeldKept, ZenonT(40) DEF Owning
  <2>5. Held'[p] = NoBlock
    BY <2>2 DEF Held, Holds
  <2>6. Held[p] # NoBlock
    BY <2>1, HeldLock, ZenonT(40) DEF Holds
  <2>7. Held' = [Held EXCEPT ![p] = NoBlock]
    BY <2>4, <2>5, HeldFunction
  <2>8. BS!Release(p)
    BY <2>3, <2>6, <2>7 DEF BS!Release
  <2>9. QED
    BY <2>8, ZenonT(40) DEF BS!Next
<1>5. ASSUME unref(p) PROVE UNCHANGED <<Contents, Held>>
  <2>1. /\ pc[p] = "release" /\ pc' = [pc EXCEPT ![p] = "idle"] /\ disk' = disk
        /\ at' = [at EXCEPT ![p] = 0] /\ buf' = [buf EXCEPT ![at[p]].refcnt = @ - 1]
    BY <1>5 DEF unref, Goto
  <2>2. pc'[p] = "idle" /\ \A q \in Procs \ {p} : pc'[q] = pc[q] /\ at'[q] = at[q]
    BY <1>0, <2>1 DEF TypeOK
  <2>3. ASSUME NEW c \in Bufs
        PROVE  /\ buf'[c].dirty = buf[c].dirty
               /\ buf'[c].blockno = buf[c].blockno /\ buf'[c].data = buf[c].data
    BY <1>0, <2>1 DEF TypeOK, BufRecord
  <2>4. Contents' = Contents
    BY <2>1, <2>3, ContentsKept, ZenonT(40)
  <2>5. \A q \in Procs \ {p} : Held'[q] = Held[q]
    BY <1>a, <1>b, <2>2, <2>3, HeldKept
  <2>6. Held'[p] = Held[p]
    BY <2>1, <2>2 DEF Held, Holds
  <2>7. QED
    BY <2>4, <2>5, <2>6, HeldFunction
<1>6. ASSUME NEW v \in Values, bwrite(p, v) \/ log_write(p, v) PROVE BS!Next
  <2>1. /\ pc[p] = "holding" /\ at' = at
        /\ pc' = pc \/ pc' = [pc EXCEPT ![p] = "iderw"]
        /\ buf' = [buf EXCEPT ![at[p]].data = v, ![at[p]].dirty = TRUE]
    BY <1>6 DEF bwrite, log_write, Goto
  <2>2. PICK b \in Bufs : at[p] = b
    BY <1>a, <2>1
  <2>3. /\ \A c \in Bufs \ {b} : buf'[c] = buf[c]
        /\ buf'[b].blockno = buf[b].blockno /\ buf'[b].dirty
    BY <1>0, <2>1, <2>2, BufferChanged, ZenonT(40)
  <2>4. pc'[p] \in {"holding", "iderw"} /\ \A q \in Procs \ {p} : pc'[q] = pc[q]
    BY <1>0, <2>1 DEF TypeOK
  <2>5. Contents' = [Contents EXCEPT ![Held[p]] = v]
    BY <1>6, ContentsChanged
  <2>6. Held[p] # NoBlock
    BY <2>1, HeldLock DEF Holds
  <2>7. Held'[p] = Held[p]
    BY <2>1, <2>2, <2>3, <2>4, ZenonT(40) DEF Held, Holds
  <2>8. ASSUME NEW q \in Procs \ {p} PROVE Held'[q] = Held[q]
    BY <1>a, <1>b, <2>1, <2>2, AtBuffer, <2>3, <2>4, HeldKept, ZenonT(40) DEF Owning
  <2>9. Held' = Held
    BY <2>7, <2>8, HeldFunction
  <2>10. BS!Change(p, v)
    BY <2>5, <2>6, <2>9 DEF BS!Change
  <2>11. QED
    BY <2>10 DEF BS!Next
<1>7. QED
  BY <1>1, <1>2, <1>3, <1>4, <1>5, <1>6 DEF Step

\* So is the answer of the disk: to a read, bread returns; a write was the holder's.
LEMMA IntrRefines ==
  ASSUME IInv, Coherent, IInv', Coherent', NEW w \in Procs, NEW b \in Bufs, NEW ok,
         BufferCame(w, b, ok)
  PROVE  BS!Next \/ UNCHANGED <<Contents, Held>>
<1>1. /\ pc[w] = "disk" /\ at[w] = b /\ at' = at /\ pc' = [pc EXCEPT ![w] = "holding"]
      /\ \A c \in Bufs \ {b} : buf'[c] = buf[c]
      /\ buf'[b].blockno = buf[b].blockno
  BY ZenonT(40) DEF BufferCame
<1>2. pc'[w] = "holding" /\ \A q \in Procs \ {w} : pc'[q] = pc[q]
  BY <1>1, ZenonT(40) DEF IInv, TypeOK
<1>3. lock[b] = w /\ \A q \in Procs \ {w} : at[q] = b => pc[q] \notin Owning
  BY <1>1, AtBuffer DEF Owning
<1>4. Contents' = Contents
  BY ContentsCame, ZenonT(40)
<1>5. ASSUME NEW q \in Procs \ {w} PROVE Held'[q] = Held[q]
  BY <1>3, AtBuffer, <1>1, <1>2, HeldKept, ZenonT(40) DEF Owning
<1>6. Holds(w)'
  BY <1>2 DEF Holds
<1>7. CASE buf[b].dirty
  <2>1. Held'[w] = Held[w]
    BY <1>1, <1>2, <1>7 DEF Held, Holds
  <2>2. QED
    BY <1>4, <1>5, <2>1, HeldFunction, ZenonT(40)
<1>8. CASE ~buf[b].dirty
  <2>1. ~Holds(w) /\ at'[w] = b
    BY <1>1, <1>8 DEF Holds
  <2>2. \A q \in Procs \ {w} : Held'[q] = Held[q] /\ lock[b] # q
    BY <1>3, <1>5, ZenonT(40)
  <2>3. QED
    BY <1>1, <1>4, <1>6, <2>1, <2>2, HoldStep, ZenonT(40)
<1>9. QED
  BY <1>7, <1>8, ZenonT(40)

\* bread, bwrite, log_write and brelse over the LRU list, the sleep locks and the
\* disk's queue implement BlockStore, when reads succeed: a block has one holder at
\* a time, and keeps the value its last holder gave it.
THEOREM CacheImplementsBlockStore ==
  ASSUME ReadSucceeds \subseteq {TRUE}
  PROVE  Spec => ImplementsBlockStore
<1>1. Init => BS!Init
  BY BufCacheAssumption DEF Init, Contents, Held, Holds, BS!Init
<1>2. IInv /\ IInv' /\ Coherent /\ Coherent' /\ [Next]_vars => [BS!Next]_<<Contents, Held>>
  <2> SUFFICES ASSUME IInv, IInv', Coherent, Coherent', [Next]_vars
               PROVE  BS!Next \/ UNCHANGED <<Contents, Held>>
    OBVIOUS
  <2>1. ASSUME NEW p \in Procs, Step(p) PROVE BS!Next \/ UNCHANGED <<Contents, Held>>
    BY <2>1, StepRefines
  <2>2. ASSUME NEW ok \in ReadSucceeds, ideintr(ok)
        PROVE  BS!Next \/ UNCHANGED <<Contents, Held>>
    <3>1. PICK w \in Procs, b \in Bufs : BufferCame(w, b, ok)
      BY <2>2, IntrStep
    <3>2. QED
      BY <3>1, IntrRefines
  <2>3. CASE UNCHANGED vars
    <3>1. Contents' = Contents
      BY <2>3 DEF vars, Contents
    <3>2. Held' = Held
      BY <2>3 DEF vars, Held, Holds
    <3>3. QED
      BY <3>1, <3>2
  <2>4. QED
    BY <2>1, <2>2, <2>3 DEF Next, Interrupt
<1>3. QED
  BY Inductive, CacheIsCoherent, <1>1, <1>2, PTL DEF Spec, ImplementsBlockStore, BS!Spec

=============================================================================
