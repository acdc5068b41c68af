# Verification of xv6-updated

TLA+ models of the kernel in `src/xv6-public` (xv6 with signals, a message
queue, shared memory and some new system calls) and of the scheduling simulators
beside it, checked with TLC; the proofs are checked with TLAPS.

## 1. The system

| part | source | state | operations | what is hard about it |
|---|---|---|---|---|
| processes, scheduler | `proc.c`, `trap.c` | `ptable`, `nextpid`, per-CPU `proc` | fork, exit, wait, kill, sleep, wakeup, yield, scheduler | `ptable.lock` changes hands across `swtch`; lost wakeups; stacks freed under a running CPU |
| signals | `trap.c`, `sysproc.c`, `proc.c` | pending bits, handlers | raise, deliver, `signal` | two places deliver; one drops the lock |
| log | `log.c` | `log`, the on-disk header and log blocks | begin_op, log_write, end_op, commit, recovery | a crash between any two disk writes; shared log space |
| message queue | `sysproc.c`, `msgqueue.h` | the ring `msgq` | send, recv | removal from the middle of a ring; full and empty |
| pipes | `pipe.c` | ring, two open flags | write, read, close | sleeping at both ends, kills, counters that wrap |
| spin locks, interrupts | `spinlock.c`, `sched` in `proc.c`, `trapasm.S` | holder, `ncli`, `intena`, the interrupt flag | acquire, release, pushcli, popcli, swtch | a thread that changes CPUs between two of them |
| buffer cache, disk | `bio.c`, `sleeplock.c`, `ide.c` | LRU list, request queue | bread, bwrite, brelse, interrupt | identity of buffers; completion order |
| inodes, directories, files | `fs.c`, `file.c`, `sysfile.c` | caches, references, directory tree | iget, iput, link, unlink, create, copy | references against links; lock order; orphans at a crash |
| memory | `kalloc.c`, `vm.c`, `exec.c`, `umalloc.c` | free list, page tables | kalloc, sbrk, fork's copy, exec | failure half-way |
| shell, grep | `sh.c`, `grep.c` | command tree, descriptors | parse, runcmd, match | recursion on every odd line; ends of pipes left open |
| console | `console.c`, `kbd.c` | input ring | interrupt, read | three wrapping indices |
| simulators | `edf_premption.c`, `rms_premption.c`, `lottery_sch_premption.c` | task tables | tick, draw | what the schedule guarantees |

Parts meet in few places. All blocking goes through `sleep` and `wakeup` (Proc), and
all mutual exclusion comes down to spin locks (SpinLock). Every file system call runs
inside `begin_op`/`end_op` (Log), over the buffer cache and the disk (BufCache). Pipes
and inodes are reached through the file table. Each module assumes of the part below
it what that part's own module shows: Fs takes a transaction as atomic and a crash as
a return to a moment between calls because Log implements AtomicDisk; Log takes a
buffer as one copy of its block because BufCache implements BlockStore; all of them
take a critical section as one step because of SpinLock's `LocksExclude`.
`PROJECT.json` lists every part with its status, the lines each definition
translates, and the hazards by line.

## 2. Modules

**SpinLock** models `spinlock.c` with what interrupts and `sched` do to it. `cur` is
the frame each CPU is in (a thread, a scheduler, an interrupt or `forkret`, and where
in acquire or release it is), `on` the context it belongs to, and `stack` the frames
an interrupt or `swtch` has put aside. A step is what another CPU or an interrupt can
come between: reading the flags, the rest of `pushcli`, the `xchg` that succeeds, the
record of the CPU, clearing it, and the store that frees the lock. Threads take any
lock they do not hold, in any order; a system call is code of a thread, because its
gate leaves interrupts enabled. **SpinLockInv** has its inductive invariant and what
steps do to locks and flags, **SpinLockProofs** stacks, counts and the theorems.

**Proc** models `proc.c` with the parts of `trap.c` and `sysproc.c` that change a
process. `proc` holds the fields of `struct proc` the properties need; `cpu` holds
`c->proc`, whose stack the CPU is on, and the scan index; `pc` says where each
process continues, and `trap` how far a `trap()` that interrupted it there has come:
the switch, which may raise a signal, comes before the delivery loop, and that before
the test of `killed` and `yield`. `lock` is explicit because `sched` leaves it to the scheduler,
which passes it on to the next process. A step is one stretch of code from acquire
to release on one side of a switch. User programs are free to make any call.
The number of ticks a `sys_sleep` waits for, files and memory are abstracted; a
failing `kalloc` or `copyuvm` is a choice (`ForkFails`). **ProcInv** has its invariants
and **ProcProofs** its theorems.

**Log** models `log.c`. `log_write` is two steps, because its checks run before it
takes `log.lock`. `commit` is one step per disk block written, and `Crash` may come
between any two steps; it resets memory and enters recovery, which replays the log
block by block and may crash again. The buffer cache is its contents plus the set of
dirty buffers; `Recycle` re-reads a clean, unused one. **AtomicDisk** is the promise:
a disk whose contents become stable as a whole, only between calls. The refinement
maps `stable` to the home blocks overlaid by the log the header describes.
**LogProofs** has its proofs.

**BufCache** models `bio.c` with the sleep lock of each buffer and the request queue
of `ide.c`: the LRU list, reference counts, dirty buffers that the log pins, and
requests that are answered by interrupts in the order of the queue. **BlockStore** is
the promise: one copy of each block, which one process at a time holds and changes.
The refinement maps a block's contents to its buffer if that is valid or dirty, and to
the disk otherwise; **BufCacheProofs** proves it.

**Fs** models the inode cache, directories, path names, the file table and the system
calls on them. A call is a list of things still to do (`namex` element by element,
then the body of the call, with the locks it keeps); a step waits for one inode's
lock and goes on to where the code waits for the next. `iput` is its two halves,
because the reference is dropped only after the lock is given up. `iget` panics when
the `NINODE` entries of the cache are all in use, `ialloc` when the disk has no inode
left. **FileData** models the contents of files: `balloc`, `bmap`, `itrunc`, `readi`,
`writei` and the transactions into which `filewrite` cuts a long write. Each round of
`filewrite` reads and moves `f->off`, which processes that share the `struct file` move
too (`ftable` has the struct files of writes in progress).

**Memory** models user address spaces and the calls that build and drop them, one
step per `kalloc` with what follows until the next one, any of which may fail. Pages
are counted rather than named. Sizes are unsigned and wrap at `UINT`.

**MsgQueue** models `send` and `recv` on the ring; **MsgChannel** is a bounded
channel with per-type receive; **IpcProofs** proves the one implements the other.

**Pipe** models `pipe.c` for processes that hold either end or both. A call that has
decided to sleep still holds `p->lock` for a moment (`run = "locked"`), in which only a
`kill` can happen. The counters wrap at `Word`, a multiple of `PIPESIZE`, as `uint`
does. **ByteStream** is the promise, and **IpcProofs** proves that it is kept.

**Console** models the ring of typed characters with its three wrapping indices, line
editing, readers that sleep, and the cursor. `out` is what the holder of `cons.lock`
has still to print, a character a step; until it is empty nothing else that needs the
lock happens. **LineDiscipline** is the promise: a line is edited as a whole, becomes
readable as a whole, and is read once and in order; **ConsoleProofs** proves it.

**Shell** and **Grep** are pure algorithms as recursive operators: `sh.c` from a line
to a command tree to the processes and descriptors `runcmd` makes of it, and the
matcher of `grep.c` beside a reference definition of what a pattern denotes. **Heap**
is the free list of `umalloc.c`. **Schedulers** is the loop of each of the three
simulators, a step per round.

**Counting** states what the proofs need of cardinalities (section 4).
**MCBufCache**, **MCConsole**, **MCFs**, **MCLog** and **MCPipe** add the symmetry,
calls and strings that TLC needs. **MCParts** puts seven modules that share nothing
side by side: a behaviour picks one of them and the others stand still. Definitions
commented "Faulty variant" are plausible bugs, used to see that each property can fail.

## 3. Runs

| run | question | bounds |
|---|---|---|
| proc | is a process ever lost, run twice, or without its stack; do exit, wait and kill lose a wakeup or a zombie; does a trap deliver every signal it raises before it yields or exits | 3 slots, 2 CPUs, pids to 3, SIGINT |
| proc_live | do runnable processes run, killed ones exit, orphans get reaped | 3 slots, 1 CPU |
| log | is the disk atomic under crashes, and stable when nothing is in progress | 2 calls of 2 blocks, 3 blocks, 2 values |
| log_reserve | does the reservation always suffice; is a call that waits for space woken | 3 calls of 1 of 2 reserved blocks, 3 blocks, log of 4 |
| bufcache | is the cache a coherent store of blocks; is a wakeup or a disk request lost | 2 processes, 4 blocks, 3 buffers, 1 pinned |
| fs | do references, links and locks stay right on every path of every call; does a check panic other than for want of an inode | 2 processes, 4 inodes, 3 cache entries, 2 names, 2 files, 4 calls, 1 crash |
| fs_leak | *violated*: two simultaneous `iput`s may leave an unlinked file allocated | as fs, without the crash |
| msgqueue | is the ring a bounded channel | 3 messages of 2 characters, 2 types |
| msgqueue_full | *violated*: a receive from a full queue may not remove the message | 3 messages of 2 characters, 2 types |
| pipe | is the ring a byte stream, freed once; do reads and writes that can go on return | 2 processes, one of which may be killed, pipe of 2, counters mod 4 |
| console | is a line read whole, once and in order; does anybody sleep beside input; is the end of file seen; does the cursor stay on the screen | 2 readers, ring of 3, indices mod 6, screen of 3 rows of 2 |
| parts: Shell | does the parser keep the words of every line; does every pipe end; are commands read back | lines of 5 of 6 characters; trees of up to 3 levels |
| parts: Grep | does `match` agree with the reference | patterns and texts of 3 characters |
| parts: Heap | is the heap partitioned into free and used blocks | 12 units, requests of 2, 3 and 5 |
| parts: FileData | is what was written read back; is every block accounted for; does a write fit its reservation | 2 files, 2 writers, 2 struct files, 5 blocks of 2 bytes, 3 writes |
| parts: Memory | is every page accounted for; is a process's size what it has mapped | 3 processes, 18 pages, page tables of 2 entries |
| parts: Schedulers | do accepted task sets meet their deadlines; is every draw somebody's | pairs and triples of tasks, 14 rounds |
| parts: SpinLock | do locks exclude; are interrupts enabled exactly where they should be | 2 CPUs, 2 threads, 2 locks, 3 frames |

Why the bounds are enough for the cases in question. Two CPUs are needed for a
stack to be freed under its user; three slots for init, a parent and the child it
abandons; three calls for a log that is full while a commit is put off; more blocks
than buffers for a buffer to be recycled, and a pinned one to be passed over; a pipe
or ring whose counters wrap after two turns for every offset between index and
counter. Two processes with four calls between them meet every pair of calls at every
step; three inodes are the root, a directory and something in it, and the fourth lets
both the cache (three entries) and the disk run out. A file
of one direct and two indirect blocks meets every boundary of `bmap`, and five data
blocks run out. A page table of two entries is crossed by every program. In SpinLock
three frames are a thread, an interrupt of it, and the scheduler's own interrupt;
two CPUs and two threads let a thread come back on the other CPU.

Some bounds keep a run within what the code can do. The log runs use one block fewer
per call than is reserved, because with the whole reservation in use the code does
panic (section 5). The bufcache run has as many buffers as can be held and pinned at a
time, because `bget` panics without one (`PanicsWithoutBuffers` says that nothing else
does), and its reads succeed, because a failed read is marked valid.
The pipe run allows a deadlock, because a reader that keeps the write end open really
waits for ever; the fs, console and parts runs because a bound on calls, a panic or
the end of a program ends them.

Fairness. proc_live: each CPU's scheduler loop runs and takes clock interrupts (weak);
the clock ticks and a process that is given the CPU again and again gets through its
kernel code (strong, since a time slice is many instructions); init calls wait again
and again (`init.c`). log_reserve: a woken call runs and commit goes on (weak); a call
makes finitely many writes and ends (strong). pipe: a process that finds the
lock free again and again gets it (strong); nobody is obliged to make a call. All
other runs check safety only, and need none.

## 4. Proofs

**SpinLockInv** and **SpinLockProofs**, for every set of CPUs, threads and locks, every
depth of interrupts and every number of locks held: `SpinLocksExclude` and `InterruptFlagsKept`.
The properties are not inductive. What the invariant `IInv` adds:

| conjunct | says | needed because |
|---|---|---|
| `StacksOK` | a frame put aside by an interrupt had interrupts enabled; one put aside by `sched` knows its `intena` (on for a thread, off for an interrupt); no context is on two CPUs | `iret` and `swtch` go on with what they find |
| `LocksOK` | a lock that a CPU has won, recorded or not, is locked and nobody else's; the CPU recorded in a lock is its holder, or nobody | `holding` reads the record without the lock |
| `CountsOK` | `ncli` is the number of locks held, plus one between `pushcli` and the lock (`Sums`); so it is 0 without locks and 1 with one (`Tested`) | `sched` and `popcli` test it |
| `FlagsOK` | interrupts are enabled only without locks; `intena` is what the frame had before its first lock | `popcli` enables by it |

Each conjunct is kept by every step under `IInv` (`TypeNext`, `LocksNext` and
`FlagsNext` in SpinLockInv, `StacksNext` and `CountsNext` in SpinLockProofs), with one
step per action; `NoPanics` and the lemmas named
`...Step` first show that no action takes its panic branch. The case that carries the
weight is `swtch`: the CPU's `intena` is another thread's until the line after
`swtch` in `sched` puts back the thread's own.

**ProcInv** and **ProcProofs**, for every number of slots and CPUs, every bound on
pids, any signals and any arguments of `kill`: all the safety invariants that the run
proc checks, and three more that no run needs to repeat (`TypeOK`, `PidsDiffer`,
`ParentsLive`). ProcInv names eleven kinds of step, by what they do to each field, and
shows in layers that each kind keeps the invariants. ProcProofs shows type correctness
and, action by action, that every step is of one of the kinds (`StepKinds`); with that
the layers become theorems:

| theorem | property | inductive invariant, on top of `TypeOK` |
|---|---|---|
| `CPUsCorrect` | `OneCPUPerProcess` | a scheduler that still names a process holds `ptable.lock` (`HandOver`); a fork in progress owns an `EMBRYO` slot nobody else owns (`ForkOwnsChild`) |
| `StacksCorrect` | `StacksInUse` | the layer above |
| `PidsCorrect` | `PidsDiffer` | every pid in use is below `nextpid` |
| `SignalsCorrect` | `SignalsStayInTrap` | a process at a point of `trap()` is on a CPU and does not hold the lock there, and only the point before the delivery loop has a pending signal (`TrapInv`) |
| `ParentsCorrect` | `ParentsLive` | init lives and has no parent; nobody is its own parent; a free or embryo slot has no parent |
| `WaitCorrect` | `WaiterHasReason` | the parents' layer; a process asleep in `wait` sleeps on its own slot |

`HandOver` is the heart of it: a zombie's CPU holds the lock until it has left the
zombie's stack, so the `wait` that finds the zombie finds it on no CPU.

**LogProofs**, for any number of processes, blocks and values and any
length of the log: `ReservationSuffices` (`NoPanic`), `QuietLogStable` (`QuietIsStable`)
and `LogIsAtomic` (the refinement of AtomicDisk). The theorems have one hypothesis,
`Spare`: a call writes fewer blocks than `begin_op` reserves, the log has room for more
than one reservation, and the disk has as many log blocks as the header has entries. The
last two are `param.h:11` and `mkfs.c:25`. The first is stronger than the comment on
`MAXOPBLOCKS`, and needed: `begin_op` counts `LOGSIZE` entries where there are
`LOGSIZE - 1` blocks, so calls that use all they reserve do panic. On the disk that
`mkfs` makes, the bitmap is one block, and a transaction of `filewrite` writes 7 blocks
of its 10. The inductive invariant has two halves:

| conjunct | says | needed because |
|---|---|---|
| `CallsOK` | `outstanding` counts the active calls; none is active in a commit or in recovery | `end_op` and `begin_op` decide by the count |
| `SpaceOK` | the header, plus `OpBlocks` for each active call, less what these calls have already logged, leaves two entries free | `begin_op` reserves for a call as a whole, `log_write` tests entry by entry, and absorption makes blocks of two calls share an entry |
| `StagesOK` | where commit and recovery can be, and that the header in memory is empty between transactions | |
| `HeadOK` | no block is logged twice; the header on disk is empty before `write_head` and after the log is erased, and else it is the one in memory | a crash decides by it whether the transaction happened |
| `CleanOK` | a block outside the transaction is the same in the cache and at home | it may be recycled |
| `EntriesOK` | a logged block is pinned until it is installed; once copied, the log has what the cache has; once installed, home has what the log has | a crash may come between any two blocks, in recovery too |

`SpaceOK` needs the cardinality of the set of pairs of an active call and a block it has
logged, and its bound by `OpBlocks * outstanding` (`UsedBound`). The other half takes
only `Fits` from it, that the entries have their places on disk. In the refinement only
`write_head` changes what a crash would leave, to what calls see (`HeadCommits`); that
installing a block and erasing the header leave it alone (`InstallStutters`,
`EraseStutters`) is what makes an interrupted recovery harmless.

**BufCacheProofs**, for any processes, blocks, values and number of buffers:
`SleepersHaveHolders` (`SleeperHasHolder`), `QueueIsExact` (`QueueIsWaiters`) and
`PanicsWithoutBuffers`: the only step that panics is a `bget` of a block that is not
cached while every buffer is in use or dirty, and no step of `bwrite`, `brelse` or
`iderw` takes a panic branch. `CacheIsCoherent` and
`CacheImplementsBlockStore` (the refinement of BlockStore) have the hypothesis that
reads succeed, without which they are false (section 5). The inductive invariant:

| conjunct | says | needed because |
|---|---|---|
| `PlacesOK` | a process in a call is at a buffer that caches a block | the steps of a call use the buffer they were given |
| `LocksOK` | a process has the lock of its buffer from `acquiresleep` to `releasesleep`, and no other | `holdingsleep` is tested by `bwrite`, `brelse` and `iderw` |
| `RefsOK` | `refcnt` is the number of processes at the buffer | `bget` recycles by it while another process is asleep for the lock or has still to take it |
| `FlagsOK` | a dirty buffer is valid, a valid one caches a block, a holder's is valid, and what is passed to `iderw` needs reading or writing | one flag tells the interrupt which of the two it was |
| `OneCopy` | a block is in one buffer at most | the refinement reads a block's contents off its buffer |
| `ListOK` | every buffer is in the LRU list | `bget` and its panic look only there |
| `SleeperHasHolder`, `QueueIsWaiters` | the properties themselves | a request that is answered is its waiter's |

In the refinement recycling a buffer and reading a block leave every block's contents
alone, because what is not dirty is what the disk has (`Coherent`); the interrupt that
answers a write changes the disk to what the store has already. That `refcnt` counts is
stated by a numbering of the processes at the buffer, so that nothing need be finite.

**ConsoleProofs**, for any readers, ring size, letters, outputs and screen, and every
range of the indices that is a larger multiple of the ring size: all that the run
console checks (`CursorStaysOnScreen`, `SleepersHaveNothing`, `EndOfFileIsSeen` and
`RingImplementsLineDiscipline`). The invariant: what is readable and what is being
edited fit the ring together, and a full ring has nothing left to edit (`RingOK`); the
line being edited has no end (`LineOK`); a sleeping reader has nothing to read and
nobody wants more than it asked for (`ReadersOK`). That a full ring is readable is what
keeps a line longer than the ring from stopping both sides, and needs the test
`input.e == input.r+INPUT_BUF` to be right across every wrap. As for pipes the work
is in the indices, which wrap at `Word` and address the ring modulo `INPUT_BUF`.

**IpcProofs** is about pipes and about the message queue.

Pipes, for any processes, strings and ring size, and every range of the
counters that is a larger multiple of the ring size: `FreedUnused` (`NoUseAfterFree`)
and `PipeIsByteStream` (the refinement of ByteStream). The invariant: the counters are
at most a ring apart, an end that somebody holds is open, and a process in a call holds
the end it uses. The lemmas are about `nread` and `nwrite`, which wrap at `Word` and
index the ring modulo `PIPESIZE`: that the two wraps agree (`RingWrap`), that different
bytes of the queue have different slots (`RingApart`), and from these that a stretch of
`pipewrite` appends to the queue (`QueuePut`) and one of `piperead` takes its front
(`QueueGet`). TLC checks one size and one range, where a wrap of the ring is never far
from a wrap of the counters.

The message queue, for every ring size above zero and every set of messages: the ring
keeps its type (`TypeCorrect`) and implements the channel (`RingImplementsChannel`).
The inductive invariant says that `head` stays 0, that `tail` is `count` modulo the
size, and that the i-th message is in slot i - 1 with its body already truncated;
without it the channel's contents cannot be read off the ring. The step that matters
is `recv`: shifting the later messages down by one slot is deletion from the
sequence. The refinement covers what the code does, the full-queue case included,
which MsgChannel names as the exception it is.

The proofs rest on the named assumptions of the modules (`SpinLockAssumption`,
`ProcAssumption`, `LogAssumption`, `BufCacheAssumption`, `PipeAssumption`,
`ConsoleAssumption` and that of MsgQueue), those of Log on `Spare` too, and the last two
of BufCache on reads that succeed. `MaxPid` bounds `nextpid`, so the theorems about Proc
are about runs in which the `int` does not wrap. The invariants `IInv` of SpinLock, Log,
Pipe, BufCache and Console were checked with TLC on small instances before they were
proved.

Lemmas about cardinalities assume the formulas of **Counting** (what the cardinality of
the empty set is, what adding or removing an element does), and the lemma `CountFacts`
proves these from FiniteSetTheorems near the end of SpinLockProofs and LogProofs, before
the theorems: with the theory of finite sets in sight from the beginning every other
step of these modules would be several times slower to check. No theorem assumes them.

Only model-checked: Fs, FileData, Memory, Heap, Shell, Grep and Schedulers. What the
recursive operators of Shell, Grep and Heap compute, and the folds by which FileData
writes and Schedulers adds up, need an induction over data that the installed provers
cannot instantiate. Fs and Memory could be proved and have not been: an inductive
invariant of Fs has to say of every call, at every point of it, which locks and
references it has, and one of Memory how many pages. Liveness stays with TLC
everywhere, since TLAPS does not handle fairness.

## 5. Findings

Two runs show the code doing other than its comments say.

1. `recv` on a full queue whose oldest message matches returns it without removing it,
   and drops the newest (`sysproc.c:182`; msgqueue_full).
2. Two processes that drop the last two references to an unlinked file at the same
   time each see the other's reference, and nobody frees it (`fs.c:337`; fs_leak).

Other things met while modelling, which the models contain or leave out as said:

- `kill(0)` marks a free slot and `allocproc` does not clear the mark, so that a
  process can be born killed (`proc.c:522`); run proc kills only real pids.
- The log holds `LOGSIZE - 1` blocks, and `begin_op` reserves against `LOGSIZE`
  (`log.c:132`, `log.c:218`). The buffer cache has no more buffers than the log has
  blocks (`bio.c:92`). Durability is promised for the last `end_op` only (`log.c:154`).
- A killed writer returns from a pipe it has filled without waking the readers
  (`pipe.c:88`); `CallsReturn` has exactly such a sleeping reader as its exception.
- A disk read that fails is marked valid all the same (`ide.c:118`).
- `iput` under another inode's lock can close a circle of waiting processes; `link` of
  something to `.` waits for itself; `sys_copy` never returns; `WaitsEnd` has the
  exceptions. An entry made in a directory that is already removed is lost with it. A
  crash while an unlinked file is open leaves it allocated (`fs.c:335`).
- `shmget` always panics ("remap"), because `SHMEM` is `KERNBASE`. An `sbrk` down to
  exactly 0 frees the pages and then fails without lowering the size (the exception of
  `SizeIsMapped`). Shift-C panics
  in `acquire` (`console.c:217`).
- EDF accepts task sets with deadlines before the end of the period and may miss them;
  `DeadlinesMet` is about deadlines at the end of the period or later. The lottery
  reports tasks without tickets as complete.
- `grep` forgets the beginning of a line when a read brings no end of line
  (`grep.c:29`).
- A new process may run `forkret` with interrupts disabled, as its CPU's `intena` is
  left from the scheduler; `InterruptsKept` is about threads and interrupts.

## 6. Not modelled

- Boot, MP and APIC set-up (`main.c`, `mp.c`, `lapic.c`, `ioapic.c`, `bootmain.c`):
  sequences of hardware writes that run once, before there is any concurrency.
- Port I/O, scan codes, drawing and `cprintf`'s formats: no property is about them.
- Page table bits, the guard page and segment registers: `Memory` counts pages.
- The fetching of system call arguments (`syscall.c`): comparisons with `sz` and a
  table lookup. `mkfs`, of which only the first directory and the sizes are taken.
- `getcallerpcs` and `procdump`, which are for debugging; `getppid`'s unlocked reads;
  the wrap of `ticks`.
- Rounding in the simulators: the utilisation is computed exactly.
- The other user programs and `usertests.c`: clients of the kernel. The loop of `grep`
  that cuts its input into lines.

What would come next: proofs about Memory and Fs; SpinLock composed with Proc, so that
`HandOver` speaks of the same lock.
