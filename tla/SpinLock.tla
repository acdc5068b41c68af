------------------------------ MODULE SpinLock ------------------------------
(***************************************************************************)
(* spinlock.c, and how interrupts and sched() live with it: acquire and    *)
(* release in the steps that other CPUs can see, the nesting of pushcli    *)
(* and popcli, interrupts wherever they are enabled, and kernel threads    *)
(* that leave a CPU holding ptable.lock and go on on another one.          *)
(*                                                                         *)
(* A CPU has its registers, the frame cur[c], and runs a context: a kernel *)
(* thread or its own scheduler.  A context's stack has the frames that an  *)
(* interrupt or swtch has put aside.                                       *)
(***************************************************************************)
EXTENDS Integers, FiniteSets, Sequences

CONSTANTS
  CPUs,
  Threads,
  Locks,
  ptable_lock,
  NoCPU,
  MaxHeld,      \* bound on the locks a CPU holds at a time
  MaxDepth      \* bound on the frames of a context

ASSUME SpinLockAssumption ==
  /\ CPUs \cap Threads = {} /\ NoCPU \notin CPUs
  /\ ptable_lock \in Locks

VARIABLES
  locked,       \* lk->locked
  owner,        \* lk->cpu
  intr,         \* FL_IF of each CPU
  ncli,
  intena,
  cur,          \* the frame that each CPU is in
  on,           \* the context it belongs to
  stack,        \* the frames put aside, of each context
  held          \* the locks that each CPU has acquired and not yet released

spinvars == <<locked, owner, intr, ncli, intena, cur, on, stack, held>>

Contexts == CPUs \cup Threads

\* Code of a thread (user mode and system calls, with interrupts enabled), of a
\* scheduler, of a trap, or of forkret; lk and eflags are locals of acquire and
\* release, intena is that of sched.
Frame(kind, pc) ==
  [kind |-> kind, pc |-> pc, lk |-> ptable_lock, eflags |-> FALSE, intena |-> FALSE]

\* allocproc: a new process returns through forkret to its user code.
NewStack == <<Frame("thread", "run"), Frame("forkret", "new")>>

\* Each CPU enters scheduler() with interrupts disabled.
SpinInit ==
  /\ locked = [l \in Locks |-> FALSE] /\ owner = [l \in Locks |-> NoCPU]
  /\ intr = [c \in CPUs |-> FALSE] /\ ncli = [c \in CPUs |-> 0]
  /\ intena = [c \in CPUs |-> FALSE] /\ held = [c \in CPUs |-> {}]
  /\ on = [c \in CPUs |-> c] /\ cur = [c \in CPUs |-> Frame("scheduler", "run")]
  /\ stack = [x \in Contexts |-> IF x \in Threads THEN NewStack ELSE << >>]

Goto(c, pc) == cur' = [cur EXCEPT ![c].pc = pc]
\* A call returns and its locals are gone.
Return(c) == cur' = [cur EXCEPT ![c] = Frame(@.kind, "run")]
Top(s) == s[Len(s)]
Popped(s) == SubSeq(s, 1, Len(s) - 1)

\* panic() does not return.
panic(c) == Goto(c, "panic") /\ UNCHANGED <<locked, owner, intr, ncli, intena, on, stack, held>>

holding(c, l) == locked[l] /\ owner[l] = c

-----------------------------------------------------------------------------
(* acquire                                                                 *)

\* acquire(l) is called, and pushcli reads eflags.  A scheduler makes this call when it
\* comes back from a signal handler.
acquire(c, l) ==
  /\ cur[c].pc = "run" /\ (cur[c].kind = "scheduler" => l = ptable_lock)
  /\ l \notin held[c] /\ Cardinality(held[c]) < MaxHeld
  /\ cur' = [cur EXCEPT ![c].pc = "pushcli", ![c].lk = l, ![c].eflags = intr[c]]
  /\ UNCHANGED <<locked, owner, intr, ncli, intena, on, stack, held>>

\* The loop of scheduler(): sti, and acquire(&ptable.lock) as above.
scheduler(c) ==
  /\ cur[c].pc = "run" /\ cur[c].kind = "scheduler" /\ held[c] = {}
  /\ intr' = [intr EXCEPT ![c] = TRUE]
  /\ cur' = [cur EXCEPT ![c].pc = "pushcli", ![c].lk = ptable_lock, ![c].eflags = TRUE]
  /\ UNCHANGED <<locked, owner, ncli, intena, on, stack, held>>

\* cli, the rest of pushcli, and the test of holding: only this CPU can make it true.
pushcli(c) ==
  /\ cur[c].pc = "pushcli"
  /\ intr' = [intr EXCEPT ![c] = FALSE]
  /\ intena' = [intena EXCEPT ![c] = IF ncli[c] = 0 THEN cur[c].eflags ELSE @]
  /\ ncli' = [ncli EXCEPT ![c] = @ + 1]
  /\ Goto(c, IF holding(c, cur[c].lk) THEN "panic" ELSE "xchg")
  /\ UNCHANGED <<locked, owner, on, stack, held>>

\* The xchg that finds 0; the others only spin.
xchg(c) ==
  /\ cur[c].pc = "xchg" /\ ~locked[cur[c].lk]
  /\ locked' = [locked EXCEPT ![cur[c].lk] = TRUE]
  /\ Goto(c, "mycpu")
  /\ UNCHANGED <<owner, intr, ncli, intena, on, stack, held>>

\* lk->cpu = mycpu(), which panics if interrupts are enabled.
mark(c) ==
  /\ cur[c].pc = "mycpu"
  /\ IF intr[c] THEN panic(c) ELSE
        /\ owner' = [owner EXCEPT ![cur[c].lk] = c]
        /\ held' = [held EXCEPT ![c] = @ \cup {cur[c].lk}]
        /\ Return(c)
        /\ UNCHANGED <<locked, intr, ncli, intena, on, stack>>

-----------------------------------------------------------------------------
(* release                                                                 *)

\* Faulty variant: release leaves the CPU recorded in the lock.
Cleared_Not(l) == owner

Cleared(l) == [owner EXCEPT ![l] = NoCPU]

\* release(l) up to lk->cpu = 0.
release(c, l) ==
  /\ cur[c].pc = "run" /\ l \in held[c]
  /\ IF ~holding(c, l) THEN panic(c) ELSE
        /\ owner' = Cleared(l)
        /\ cur' = [cur EXCEPT ![c].pc = "movl", ![c].lk = l]
        /\ UNCHANGED <<locked, intr, ncli, intena, on, stack, held>>

\* popcli after the release of a lock: whether interrupts are enabled again.
Enables(c) == ncli[c] = 1 /\ intena[c]

\* lk->locked = 0, and popcli.
popcli(c) ==
  /\ cur[c].pc = "movl"
  /\ locked' = [locked EXCEPT ![cur[c].lk] = FALSE]
  /\ held' = [held EXCEPT ![c] = @ \ {cur[c].lk}]
  /\ ncli' = [ncli EXCEPT ![c] = @ - 1]
  /\ intr' = [intr EXCEPT ![c] = @ \/ Enables(c)]
  /\ IF intr[c] \/ ncli[c] <= 0 THEN Goto(c, "panic") ELSE Return(c)
  /\ UNCHANGED <<owner, intena, on, stack>>

-----------------------------------------------------------------------------
(* Interrupts and context switches                                         *)

\* An interrupt is taken through an interrupt gate, which disables interrupts.
interrupt(c) ==
  /\ intr[c] /\ cur[c].pc # "panic" /\ Len(stack[on[c]]) < MaxDepth
  /\ stack' = [stack EXCEPT ![on[c]] = Append(@, cur[c])]
  /\ cur' = [cur EXCEPT ![c] = Frame("trap", "run")]
  /\ intr' = [intr EXCEPT ![c] = FALSE]
  /\ UNCHANGED <<locked, owner, ncli, intena, on, held>>

\* trapret: the flags come back with the interrupted frame.
iret(c) ==
  /\ cur[c].pc = "run" /\ cur[c].kind \in {"trap", "forkret"} /\ held[c] = {}
  /\ cur' = [cur EXCEPT ![c] = Top(stack[on[c]])]
  /\ stack' = [stack EXCEPT ![on[c]] = Popped(@)]
  /\ intr' = [intr EXCEPT ![c] = TRUE]
  /\ UNCHANGED <<locked, owner, ncli, intena, on, held>>

\* sched() up to swtch, in the thread, which "must hold only ptable.lock".
sched(c) ==
  /\ on[c] \in Threads /\ cur[c].pc = "run" /\ held[c] = {ptable_lock}
  /\ IF ~holding(c, ptable_lock) \/ ncli[c] # 1 \/ intr[c] THEN panic(c) ELSE
        /\ stack' = [stack EXCEPT
             ![on[c]] = Append(@, [cur[c] EXCEPT !.pc = "swtch", !.intena = intena[c]]),
             ![c] = Popped(@)]
        /\ cur' = [cur EXCEPT ![c] = Top(stack[c])]
        /\ on' = [on EXCEPT ![c] = c]
        /\ UNCHANGED <<locked, owner, intr, ncli, intena, held>>

\* Faulty variant: intena is taken for a property of the CPU.
Restored_Not(c, f) == intena[c]

\* What the thread whose frame is f puts in the CPU's intena when it goes on.
Restored(c, f) == IF f.pc = "swtch" THEN f.intena ELSE intena[c]

\* scheduler() switches to t, which goes on in sched() or starts in forkret.
swtch(c, t) ==
  /\ on[c] = c /\ cur[c].kind = "scheduler" /\ cur[c].pc = "run"
  /\ held[c] = {ptable_lock} /\ \A d \in CPUs : on[d] # t
  /\ stack' = [stack EXCEPT ![c] = Append(@, cur[c]), ![t] = Popped(@)]
  /\ cur' = [cur EXCEPT ![c] = Frame(Top(stack[t]).kind, "run")]
  /\ intena' = [intena EXCEPT ![c] = Restored(c, Top(stack[t]))]
  /\ on' = [on EXCEPT ![c] = t]
  /\ UNCHANGED <<locked, owner, intr, ncli, held>>

SpinNext ==
  \E c \in CPUs :
    \/ \E l \in Locks : acquire(c, l) \/ release(c, l)
    \/ scheduler(c) \/ pushcli(c) \/ xchg(c) \/ mark(c) \/ popcli(c)
    \/ interrupt(c) \/ iret(c) \/ sched(c)
    \/ \E t \in Threads : swtch(c, t)

SpinSpec == SpinInit /\ [][SpinNext]_spinvars

-----------------------------------------------------------------------------
\* acquire and release: no two CPUs hold the same lock, a CPU that holds one has its
\* interrupts disabled, and none of the panics of acquire, release, mycpu, popcli and
\* sched is reached, though threads take a lock on one CPU and give it up on another.
LocksExclude ==
  \A c \in CPUs :
    /\ cur[c].pc # "panic"
    /\ held[c] # {} => ~intr[c]
    /\ \A d \in CPUs \ {c} : held[c] \cap held[d] = {}

\* pushcli, popcli and sched: the code of an interrupt never runs with interrupts
\* enabled, wherever it has slept or yielded, so that interrupts do not pile up on a
\* stack; and a thread that has released its last lock has them enabled again.
InterruptsKept ==
  \A c \in CPUs :
    /\ cur[c].kind = "trap" => ~intr[c]
    /\ cur[c].kind = "thread" /\ cur[c].pc = "run" /\ held[c] = {} => intr[c]
=============================================================================
