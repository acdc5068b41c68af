------------------------------ MODULE BufCache ------------------------------
(***************************************************************************)
(* The buffer cache (bio.c), the sleep lock of each buffer (sleeplock.c)   *)
(* and the disk driver's request queue (ide.c).                            *)
(*                                                                         *)
(* A process reads a block with bread, changes it and writes it with       *)
(* bwrite or pins it in the cache with log_write (log.c), and lets it go   *)
(* with brelse.  A step is a stretch of code under bcache.lock, under the  *)
(* spin lock of one sleep lock, or under idelock.                          *)
(***************************************************************************)
EXTENDS Naturals, Sequences, FiniteSets

CONSTANTS
  Procs,
  Blocks, NoBlock,   \* NoBlock is the blockno of a buffer never used
  Values, Zero,
  NBUF,              \* param.h
  MaxPinned,         \* blocks the log keeps dirty at a time
  ReadSucceeds       \* outcomes of idewait(1) in ideintr

Bufs == 1..NBUF
None == "none"

ASSUME BufCacheAssumption ==
  /\ NoBlock \notin Blocks /\ Zero \in Values /\ None \notin Procs
  /\ NBUF \in Nat /\ MaxPinned \in Nat /\ ReadSucceeds \subseteq BOOLEAN
  /\ IsFiniteSet(Procs)

VARIABLES
  buf,        \* bcache.buf: blockno, flags, refcnt, data
  lru,        \* the list from head.next, most recently used first
  lock,       \* per buffer: the process that has its sleep lock
  idequeue,
  disk,
  pc,         \* per process: where it is in the calls below
  at,         \* per process: the buffer b of its call, 0 outside
  panicked

vars == <<buf, lru, lock, idequeue, disk, pc, at, panicked>>

\* binit, on a disk of zeros.
Init ==
  /\ buf = [b \in Bufs |-> [blockno |-> NoBlock, valid |-> FALSE,
                            dirty |-> FALSE, refcnt |-> 0, data |-> Zero]]
  /\ lru = [i \in Bufs |-> NBUF + 1 - i]
  /\ lock = [b \in Bufs |-> None]
  /\ idequeue = << >>
  /\ disk = [k \in Blocks |-> Zero]
  /\ pc = [p \in Procs |-> "idle"] /\ at = [p \in Procs |-> 0]
  /\ panicked = FALSE

Goto(p, l) == pc' = [pc EXCEPT ![p] = l]

-----------------------------------------------------------------------------
(* bio.c                                                                   *)

\* "Is the block already cached?"
Cached(k) == {b \in Bufs : buf[b].blockno = k}

Hit(b) == [buf[b] EXCEPT !.refcnt = @ + 1]

\* Faulty variant: a buffer that the log has pinned is recycled.
Recyclable_Pinned(b) == buf[b].refcnt = 0

\* "Even if refcnt==0, B_DIRTY indicates a buffer is in use"
Recyclable(b) == buf[b].refcnt = 0 /\ ~buf[b].dirty

Recycled(b, k) ==
  [blockno |-> k, valid |-> FALSE, dirty |-> FALSE, refcnt |-> 1, data |-> buf[b].data]

\* bread(k) up to acquiresleep: bget under bcache.lock.
bget(p, k) ==
  LET free == {i \in Bufs : Recyclable(lru[i])}
  IN
  /\ pc[p] = "idle"
  /\ IF Cached(k) # {}
     THEN \E b \in Cached(k) :
            /\ buf' = [buf EXCEPT ![b] = Hit(b)]
            /\ at' = [at EXCEPT ![p] = b]
            /\ Goto(p, "acquire") /\ UNCHANGED panicked
     ELSE IF free # {}
     THEN \E i \in free :
            /\ \A j \in free : j <= i
            /\ buf' = [buf EXCEPT ![lru[i]] = Recycled(lru[i], k)]
            /\ at' = [at EXCEPT ![p] = lru[i]]
            /\ Goto(p, "acquire") /\ UNCHANGED panicked
     ELSE panicked' = TRUE /\ UNCHANGED <<buf, at, pc>>
  /\ UNCHANGED <<lru, lock, idequeue, disk>>

\* while (lk->locked)
LockFree(b) == lock[b] = None

\* acquiresleep: a turn of its loop, and what bread does with the buffer.
acquiresleep(p) ==
  LET b == at[p] IN
  /\ pc[p] \in {"acquire", "woken"}
  /\ IF LockFree(b)
     THEN /\ lock' = [lock EXCEPT ![b] = p]
          /\ Goto(p, IF buf[b].valid THEN "holding" ELSE "iderw")
     ELSE Goto(p, "asleep") /\ UNCHANGED lock
  /\ UNCHANGED <<buf, lru, idequeue, disk, at, panicked>>

\* The caller of bread changes the block and calls bwrite; with an unchanged
\* value it is the write of a block that the log had pinned.
bwrite(p, v) ==
  /\ pc[p] = "holding"
  /\ buf' = [buf EXCEPT ![at[p]].data = v, ![at[p]].dirty = TRUE]
  /\ panicked' = (lock[at[p]] # p)
  /\ Goto(p, "iderw")
  /\ UNCHANGED <<lru, lock, idequeue, disk, at>>

\* The caller of bread changes the block and calls log_write, within the room
\* that begin_op has reserved.
log_write(p, v) ==
  /\ pc[p] = "holding"
  /\ Cardinality({b \in Bufs \ {at[p]} : buf[b].dirty}) < MaxPinned
  /\ buf' = [buf EXCEPT ![at[p]].data = v, ![at[p]].dirty = TRUE]
  /\ UNCHANGED <<lru, lock, idequeue, disk, pc, at, panicked>>

\* Faulty variant: nobody is woken.
Wakeup_Lost(b) == pc

\* releasesleep's wakeup(lk)
Wakeup(b) ==
  [q \in Procs |-> IF pc[q] = "asleep" /\ at[q] = b THEN "woken" ELSE pc[q]]

\* brelse: releasesleep, before it takes bcache.lock.
brelse(p) ==
  /\ pc[p] = "holding"
  /\ panicked' = (lock[at[p]] # p)
  /\ lock' = [lock EXCEPT ![at[p]] = None]
  /\ pc' = [Wakeup(at[p]) EXCEPT ![p] = "release"]
  /\ UNCHANGED <<buf, lru, idequeue, disk, at>>

\* lru with b unlinked and linked in again after head.
MovedToFront(b) ==
  LET k == CHOOSE i \in Bufs : lru[i] = b
  IN  [i \in Bufs |-> IF i = 1 THEN b ELSE IF i <= k THEN lru[i - 1] ELSE lru[i]]

\* The rest of brelse: "no one is waiting for it", to the head of the list.
unref(p) ==
  LET b == at[p] IN
  /\ pc[p] = "release"
  /\ buf' = [buf EXCEPT ![b].refcnt = @ - 1]
  /\ lru' = IF buf[b].refcnt = 1 THEN MovedToFront(b) ELSE lru
  /\ Goto(p, "idle")
  /\ at' = [at EXCEPT ![p] = 0]
  /\ UNCHANGED <<lock, idequeue, disk, panicked>>

-----------------------------------------------------------------------------
(* ide.c                                                                   *)

\* "Append b to idequeue"
Enqueued(b) == Append(idequeue, b)

\* iderw up to its sleep; the disk is started if b is first in the queue.
iderw(p) ==
  LET b == at[p] IN
  /\ pc[p] = "iderw"
  /\ panicked' = (lock[b] # p \/ (buf[b].valid /\ ~buf[b].dirty))
  /\ idequeue' = Enqueued(b)
  /\ Goto(p, "disk")
  /\ UNCHANGED <<buf, lru, lock, disk, at>>

\* Faulty variant: a written buffer stays dirty.
Done_Dirty(b) == [buf[b] EXCEPT !.valid = TRUE]

\* b->flags |= B_VALID; b->flags &= ~B_DIRTY
Done(b) == [buf[b] EXCEPT !.valid = TRUE, !.dirty = FALSE]

\* ideintr: the disk has read or written the first request (idestart).  The
\* process that sleeps on b finds it valid and not dirty and returns from
\* iderw; the next request is started.
ideintr(ok) ==
  /\ idequeue # << >>
  /\ LET b == Head(idequeue)
         k == buf[b].blockno
     IN  /\ buf' = [buf EXCEPT ![b] =
                      [Done(b) EXCEPT !.data = IF ~buf[b].dirty /\ ok
                                               THEN disk[k] ELSE @]]
         /\ disk' = IF buf[b].dirty THEN [disk EXCEPT ![k] = buf[b].data] ELSE disk
         /\ pc' = [q \in Procs |->
                     IF pc[q] = "disk" /\ at[q] = b
                        /\ buf'[b].valid /\ ~buf'[b].dirty
                     THEN "holding" ELSE pc[q]]
  /\ idequeue' = Tail(idequeue)
  /\ UNCHANGED <<lru, lock, at, panicked>>

-----------------------------------------------------------------------------
Step(p) ==
  \/ \E k \in Blocks : bget(p, k)
  \/ acquiresleep(p) \/ iderw(p) \/ brelse(p) \/ unref(p)
  \/ \E v \in Values : bwrite(p, v) \/ log_write(p, v)

Interrupt == \E ok \in ReadSucceeds : ideintr(ok)

Next == ~panicked /\ (Interrupt \/ \E p \in Procs : Step(p))

Spec == Init /\ [][Next]_vars

\* bread has returned to p and brelse has not released the lock.
Holds(p) ==
  \/ pc[p] = "holding"
  \/ pc[p] \in {"iderw", "disk"} /\ buf[at[p]].dirty

\* The contents of a block: the buffer that caches it, or else the disk.
Contents ==
  [k \in Blocks |->
     LET c == {b \in Bufs : buf[b].blockno = k /\ (buf[b].valid \/ buf[b].dirty)}
     IN  IF c = {} THEN disk[k] ELSE buf[CHOOSE b \in c : TRUE].data]

\* The block that a process holds.
Held == [p \in Procs |-> IF Holds(p) THEN buf[at[p]].blockno ELSE NoBlock]

BS == INSTANCE BlockStore WITH contents <- Contents, holder <- Held

\* Through misses, recycling, queued reads and writes, and pinned blocks, a
\* block keeps the value its last holder gave it, and has one holder at a time.
ImplementsBlockStore == BS!Spec

\* A process asleep in acquiresleep waits for a lock that somebody has.
SleeperHasHolder ==
  \A p \in Procs : pc[p] = "asleep" => lock[at[p]] # None

\* The buffers in the queue, and those that processes wait for.
Queued == {idequeue[i] : i \in 1..Len(idequeue)}
Awaited == {at[p] : p \in {q \in Procs : pc[q] = "disk"}}

\* A process waits in iderw exactly while its buffer is in the queue, once: no
\* request is lost, and no answer comes for a buffer nobody waits for.
QueueIsWaiters ==
  /\ \A i, j \in 1..Len(idequeue) : idequeue[i] = idequeue[j] => i = j
  /\ Queued = Awaited

=============================================================================
