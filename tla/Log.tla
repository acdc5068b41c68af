-------------------------------- MODULE Log ---------------------------------
(***************************************************************************)
(* The file system's write-ahead log (log.c) with crashes and recovery.    *)
(*                                                                         *)
(* A system call is begin_op, some log_write calls, end_op; the last one   *)
(* to end commits for all.  Every step here is a stretch of code under     *)
(* log.lock, or the write of one disk block, which the disk performs       *)
(* atomically.  A crash may come between any two steps.                    *)
(*                                                                         *)
(* The buffer cache is its contents and the set of buffers that are        *)
(* B_DIRTY; any other buffer may be recycled and read again.               *)
(***************************************************************************)
EXTENDS Naturals, Sequences, FiniteSets

CONSTANTS
  Procs,        \* processes making file system calls
  Blocks,       \* home locations the calls write
  Values, Zero, \* contents of a block; Zero is a fresh disk
  MAXOPBLOCKS,  \* blocks that begin_op reserves for a call (param.h)
  OpBlocks,     \* blocks that a call really writes
  LOGSIZE,      \* entries of the log header (param.h)
  nlog          \* blocks of the on-disk log, header included (superblock)

NoBlock == "none"

ASSUME LogAssumption ==
  /\ NoBlock \notin Blocks
  /\ MAXOPBLOCKS \in Nat /\ OpBlocks \in Nat
  /\ LOGSIZE \in Nat /\ nlog \in Nat \ {0}
  /\ OpBlocks <= MAXOPBLOCKS
  /\ Zero \in Values
  /\ IsFiniteSet(Procs)

VARIABLES
  lh,           \* log.lh in memory: the logged block numbers
  outstanding,
  committing,
  cache,        \* contents of the buffer cache
  dirty,        \* buffers with B_DIRTY
  op,           \* per process: idle, sleeping, woken (in begin_op), active
  written,      \* per process: the blocks its call has written
  logging,      \* per process: the block of a log_write past its checks
  stage,        \* the step of commit() or recovery that comes next
  tail,         \* its loop index
  recovering,   \* initlog() is still running
  panicked,
  home,         \* the disk: blocks at their home location,
  dlog,         \*   the log's data blocks,
  dhead         \*   and the log header

memory == <<lh, outstanding, committing, cache, dirty, op, written, logging,
            stage, tail, recovering, panicked>>
disk == <<home, dlog, dhead>>
vars == <<memory, disk>>

Stages == {"none", "write_log", "write_head", "install_trans", "erase", "end"}

-----------------------------------------------------------------------------
Init ==
  /\ lh = << >> /\ outstanding = 0 /\ committing = FALSE
  /\ cache = [b \in Blocks |-> Zero] /\ dirty = {}
  /\ op = [p \in Procs |-> "idle"] /\ written = [p \in Procs |-> {}]
  /\ logging = [p \in Procs |-> NoBlock]
  /\ stage = "none" /\ tail = 1 /\ recovering = FALSE /\ panicked = FALSE
  /\ home = [b \in Blocks |-> Zero]
  /\ dlog = [i \in 1..(nlog - 1) |-> Zero]
  /\ dhead = << >>

\* Faulty variant: the calls in progress are not counted.
LogFull_IgnoresOutstanding == Len(lh) + MAXOPBLOCKS > LOGSIZE

\* "this op might exhaust log space"
LogFull == Len(lh) + (outstanding + 1) * MAXOPBLOCKS > LOGSIZE

\* A pass of begin_op's loop; the call waits, or joins the transaction.
begin_op(p) ==
  /\ ~recovering
  /\ op[p] \in {"idle", "woken"}
  /\ \/ /\ committing \/ LogFull
        /\ op' = [op EXCEPT ![p] = "sleeping"]
        /\ UNCHANGED <<outstanding, written>>
     \/ /\ ~committing /\ ~LogFull
        /\ op' = [op EXCEPT ![p] = "active"]
        /\ outstanding' = outstanding + 1
        /\ written' = [written EXCEPT ![p] = {}]
  /\ UNCHANGED <<lh, committing, cache, dirty, logging, stage, tail,
                 recovering, panicked, disk>>

\* wakeup(&log)
Woken(f) == [p \in Procs |-> IF f[p] = "sleeping" THEN "woken" ELSE f[p]]

Logged == {lh[i] : i \in 1..Len(lh)}

\* Faulty variant: the buffer is not pinned.
Pinned_Not(b) == dirty

\* b->flags |= B_DIRTY
Pinned(b) == dirty \cup {b}

\* "log absorbtion"
Absorbed(b) == IF b \in Logged THEN lh ELSE Append(lh, b)

\* "too big a transaction", "log_write outside of trans"
WritePanics ==
  Len(lh) >= LOGSIZE \/ Len(lh) >= nlog - 1 \/ outstanding < 1

\* A call locks a buffer, modifies it and calls log_write, whose checks are
\* made without log.lock.
log_write(p, b, v) ==
  /\ op[p] = "active" /\ logging[p] = NoBlock
  /\ \A q \in Procs : logging[q] # b
  /\ Cardinality(written[p] \cup {b}) <= OpBlocks
  /\ cache' = [cache EXCEPT ![b] = v]
  /\ written' = [written EXCEPT ![p] = @ \cup {b}]
  /\ panicked' = WritePanics
  /\ logging' = [logging EXCEPT ![p] = b]
  /\ UNCHANGED <<lh, outstanding, committing, dirty, op, stage, tail,
                 recovering, disk>>

\* The rest of log_write, under log.lock, and the release of the buffer.
log_entry(p) ==
  /\ logging[p] # NoBlock
  /\ lh' = Absorbed(logging[p])
  /\ dirty' = Pinned(logging[p])
  /\ logging' = [logging EXCEPT ![p] = NoBlock]
  /\ UNCHANGED <<outstanding, committing, cache, op, written, stage, tail,
                 recovering, panicked, disk>>

\* Faulty variant: only the last call wakes the waiting ones.
AfterEnd_Silent(f) == f

\* "begin_op() may be waiting for log space": the wakeup of a call that is
\* not the last.
AfterEnd(f) == Woken(f)

\* Faulty variant: a transaction of one block is taken for an empty one.
NothingLogged_OffByOne == Len(lh) <= 1

NothingLogged == Len(lh) = 0

\* end_op, up to the call of commit().
end_op(p) ==
  /\ op[p] = "active" /\ logging[p] = NoBlock
  /\ panicked' = committing
  /\ outstanding' = outstanding - 1
  /\ \/ /\ outstanding = 1
        /\ committing' = TRUE
        /\ op' = [op EXCEPT ![p] = "idle"]
        /\ stage' = IF NothingLogged THEN "end" ELSE "write_log"
     \/ /\ outstanding # 1
        /\ op' = AfterEnd([op EXCEPT ![p] = "idle"])
        /\ UNCHANGED <<committing, stage>>
  /\ UNCHANGED <<lh, cache, dirty, written, logging, tail, recovering, disk>>

-----------------------------------------------------------------------------
(* commit()                                                                *)

\* One turn of write_log's loop, or its end.
write_log ==
  /\ stage = "write_log"
  /\ \/ /\ tail <= Len(lh)
        /\ dlog' = [dlog EXCEPT ![tail] = cache[lh[tail]]]
        /\ tail' = tail + 1
        /\ UNCHANGED stage
     \/ /\ tail > Len(lh)
        /\ stage' = "write_head"
        /\ tail' = 1
        /\ UNCHANGED dlog
  /\ UNCHANGED <<lh, outstanding, committing, cache, dirty, op, written,
                 logging, recovering, panicked, home, dhead>>

\* write_head: "the true point at which the current transaction commits".
write_head ==
  /\ stage = "write_head"
  /\ dhead' = lh
  /\ stage' = "install_trans"
  /\ UNCHANGED <<lh, outstanding, committing, cache, dirty, op, written,
                 logging, tail, recovering, panicked, home, dlog>>

\* One turn of install_trans's loop, or its end.
install_trans ==
  /\ stage = "install_trans"
  /\ \/ /\ tail <= Len(lh)
        /\ home' = [home EXCEPT ![lh[tail]] = dlog[tail]]
        /\ cache' = [cache EXCEPT ![lh[tail]] = dlog[tail]]
        /\ dirty' = dirty \ {lh[tail]}
        /\ tail' = tail + 1
        /\ UNCHANGED stage
     \/ /\ tail > Len(lh)
        /\ stage' = "erase"
        /\ tail' = 1
        /\ UNCHANGED <<home, cache, dirty>>
  /\ UNCHANGED <<lh, outstanding, committing, op, written, logging,
                 recovering, panicked, dlog, dhead>>

\* log.lh.n = 0; write_head(): the end of commit() and of recovery.
erase ==
  /\ stage = "erase"
  /\ lh' = << >>
  /\ dhead' = << >>
  /\ stage' = IF recovering THEN "none" ELSE "end"
  /\ recovering' = FALSE
  /\ UNCHANGED <<outstanding, committing, cache, dirty, op, written, logging,
                 tail, panicked, home, dlog>>

\* The rest of end_op after commit().
committed ==
  /\ stage = "end"
  /\ committing' = FALSE
  /\ op' = Woken(op)
  /\ stage' = "none"
  /\ UNCHANGED <<lh, outstanding, cache, dirty, written, logging, tail,
                 recovering, panicked, disk>>

-----------------------------------------------------------------------------
\* bget recycles the buffer of b, which is neither in use nor dirty; the next
\* bread reads it.
Recycle(b) ==
  /\ b \notin dirty
  /\ \A p \in Procs : logging[p] # b
  /\ cache' = [cache EXCEPT ![b] = home[b]]
  /\ UNCHANGED <<lh, outstanding, committing, dirty, op, written, logging,
                 stage, tail, recovering, panicked, disk>>

\* The machine stops and boots again: initlog, read_head, recover_from_log.
Crash ==
  /\ lh' = dhead /\ outstanding' = 0 /\ committing' = FALSE
  /\ cache' = home /\ dirty' = {}
  /\ op' = [p \in Procs |-> "idle"] /\ written' = [p \in Procs |-> {}]
  /\ logging' = [p \in Procs |-> NoBlock]
  /\ stage' = "install_trans" /\ tail' = 1
  /\ recovering' = TRUE /\ panicked' = FALSE
  /\ UNCHANGED disk

Commit == write_log \/ write_head \/ install_trans \/ erase \/ committed

Next ==
  \/ /\ ~panicked
     /\ \/ \E p \in Procs : begin_op(p) \/ log_entry(p) \/ end_op(p)
        \/ \E p \in Procs, b \in Blocks, v \in Values : log_write(p, b, v)
        \/ \E b \in Blocks : Recycle(b)
        \/ Commit
  \/ Crash

Spec == Init /\ [][Next]_vars

-----------------------------------------------------------------------------
(* Safety.                                                                 *)

\* What recovery makes of the disk: the home blocks, overlaid by the log.
Recovered ==
  [b \in Blocks |->
     IF \E i \in 1..Len(dhead) : dhead[i] = b
     THEN dlog[CHOOSE i \in 1..Len(dhead) : dhead[i] = b]
     ELSE home[b]]

AD == INSTANCE AtomicDisk
        WITH stable <- Recovered,
             current <- IF recovering THEN Recovered ELSE cache,
             active <- {p \in Procs : op[p] = "active"}

\* The log implements a disk whose contents become stable in one step and only
\* between system calls, whatever the crash (log.c:9-15): no call is ever half
\* on the disk, and recovery itself may be interrupted.
CrashAtomicity == AD!Spec

\* When no call is in progress and no commit is running, everything is on
\* disk: the last end_op does not return before its transaction is stable.
QuietIsStable ==
  outstanding = 0 /\ ~committing /\ ~recovering => cache = Recovered

\* begin_op's reservation is enough: log_write finds room and end_op never
\* meets a running commit, so neither panics.
NoPanic == ~panicked

-----------------------------------------------------------------------------
(* Liveness.  A system call makes finitely many writes and ends, a woken   *)
(* process runs, and commit() and recovery go on.                          *)

Fairness ==
  /\ \A p \in Procs : WF_vars(begin_op(p)) /\ WF_vars(log_entry(p))
                    /\ SF_vars(end_op(p))
  /\ WF_vars(Commit)

FairSpec == Spec /\ Fairness

\* A call waiting in begin_op looks at the log again, even while other calls
\* keep overlapping so that no commit ever happens (log.c:158-161).
SleeperWakes ==
  \A p \in Procs : op[p] = "sleeping" ~> op[p] # "sleeping"

=============================================================================
