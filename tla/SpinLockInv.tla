---------------------------- MODULE SpinLockInv ----------------------------
(***************************************************************************)
(* The inductive invariant of SpinLock, and the proofs that every step     *)
(* keeps its types, its locks and its flags.  SpinLockProofs has the       *)
(* stacks, the counts and the theorems.                                    *)
(***************************************************************************)
EXTENDS SpinLock, TLAPS

Kinds == {"thread", "scheduler", "trap", "forkret"}
PCs == {"run", "new", "pushcli", "xchg", "mycpu", "movl", "swtch", "panic"}
Frames == [kind : Kinds, pc : PCs, lk : Locks, eflags : BOOLEAN, intena : BOOLEAN]

TypeOK ==
  /\ locked \in [Locks -> BOOLEAN] /\ owner \in [Locks -> CPUs \cup {NoCPU}]
  /\ intr \in [CPUs -> BOOLEAN] /\ intena \in [CPUs -> BOOLEAN]
  /\ ncli \in [CPUs -> Int] /\ held \in [CPUs -> SUBSET Locks]
  /\ cur \in [CPUs -> Frames] /\ on \in [CPUs -> Contexts]
  /\ stack \in [Contexts -> Seq(Frames)]

-----------------------------------------------------------------------------
(* The inductive invariant                                                 *)

\* A frame that an interrupt has put aside had interrupts enabled.
Interrupted(f) == f.pc = "run" \/ (f.pc = "pushcli" /\ f.eflags)

\* The frame of a thread that is on no CPU: it knows its own intena.
Switched(f) ==
  \/ f.pc = "new" /\ f.kind = "forkret"
  \/ /\ f.pc = "swtch" /\ f.kind \in {"thread", "trap", "forkret"}
     /\ f.kind = "thread" => f.intena
     /\ f.kind = "trap" => ~f.intena

\* A trap and forkret return to a frame below them.
Returns(f, k) == f.kind \in {"trap", "forkret"} => k > 1

Off(t) == \A c \in CPUs : on[c] # t

\* A scheduler's stack.
SchedulerStack(c) ==
  /\ \A k \in 1..Len(stack[c]) : Interrupted(stack[c][k]) /\ stack[c][k].kind = "scheduler"
  /\ on[c] # c => Len(stack[c]) > 0 /\ Top(stack[c]).pc = "run"

\* A thread's stack.
ThreadStack(t) ==
  /\ \A k \in 1..Len(stack[t]) :
       /\ Returns(stack[t][k], k)
       /\ (k < Len(stack[t]) \/ ~Off(t)) =>
            Interrupted(stack[t][k]) /\ stack[t][k].kind \in {"thread", "forkret"}
  /\ Off(t) => Len(stack[t]) > 0 /\ Switched(Top(stack[t]))

StacksOK ==
  /\ \A c \in CPUs :
       /\ on[c] \in Threads \cup {c}
       /\ cur[c].kind \in IF on[c] = c THEN {"scheduler", "trap"} ELSE {"thread", "trap", "forkret"}
       /\ Returns(cur[c], Len(stack[on[c]]) + 1)
       /\ SchedulerStack(c)
  /\ \A c, d \in CPUs : on[c] = on[d] => c = d
  /\ \A t \in Threads : ThreadStack(t)

\* The locks that a CPU has won.
Won(c) == held[c] \cup IF cur[c].pc = "mycpu" THEN {cur[c].lk} ELSE {}

\* What a CPU in acquire or release relies on.
LockOK(c) ==
  /\ cur[c].pc \in {"run", "pushcli", "xchg", "mycpu", "movl"}
  /\ cur[c].pc \in {"pushcli", "xchg", "mycpu"} => cur[c].lk \notin held[c]
  /\ cur[c].pc = "movl" => cur[c].lk \in held[c] /\ owner[cur[c].lk] # c
  /\ \A l \in Won(c) : locked[l]
  /\ \A l \in held[c] : owner[l] = c \/ (cur[c].pc = "movl" /\ cur[c].lk = l)
  /\ \A l \in Locks : owner[l] = c => l \in held[c]

LocksOK ==
  /\ \A c \in CPUs : LockOK(c)
  /\ \A c, d \in CPUs : c # d => Won(c) \cap Won(d) = {}

\* Calls of acquire that have disabled interrupts and not yet taken the lock.
Pending(c) == IF cur[c].pc \in {"xchg", "mycpu"} THEN 1 ELSE 0

Sums ==
  \A c \in CPUs : IsFiniteSet(held[c]) /\ ncli[c] = Cardinality(held[c]) + Pending(c)

\* What pushcli, popcli and sched learn from a count n of the locks S, if no call is pending.
Tested(S, n, pending) ==
  /\ n >= 0
  /\ pending = 0 => (n = 0 <=> S = {}) /\ \A l \in S : n = 1 <=> S = {l}

CountsOK == Sums /\ \A c \in CPUs : Tested(held[c], ncli[c], Pending(c))

\* The code of this frame has interrupts enabled when it holds no lock.
Free(c) == held[c] = {} /\ cur[c].pc \in {"run", "pushcli"}

FlagOK(c) ==
  /\ intr[c] => Free(c)
  /\ cur[c].kind = "thread" /\ Free(c) => intr[c]
  /\ cur[c].kind = "trap" => ~intr[c]
  /\ cur[c].pc = "pushcli" /\ held[c] = {} => (cur[c].eflags <=> intr[c])
  /\ cur[c].kind = "thread" /\ ~Free(c) => intena[c]
  /\ cur[c].kind = "trap" /\ ~Free(c) => ~intena[c]

FlagsOK == \A c \in CPUs : FlagOK(c)

IInv == TypeOK /\ StacksOK /\ LocksOK /\ CountsOK /\ FlagsOK

-----------------------------------------------------------------------------
(* Facts about frames and stacks                                           *)

\* A new frame is one.
LEMMA FrameType ==
  ASSUME NEW kind \in Kinds, NEW pc \in PCs
  PROVE  Frame(kind, pc) \in Frames
BY SpinLockAssumption DEF Frame, Frames

\* Pushing a frame keeps those below it.
LEMMA Push ==
  ASSUME NEW s \in Seq(Frames), NEW f \in Frames
  PROVE  /\ Append(s, f) \in Seq(Frames) /\ Len(Append(s, f)) = Len(s) + 1
         /\ Append(s, f)[Len(s) + 1] = f
         /\ \A k \in 1..Len(s) : Append(s, f)[k] = s[k]
OBVIOUS

\* Popping the top frame keeps those below it.
LEMMA Pop ==
  ASSUME NEW s \in Seq(Frames), Len(s) > 0
  PROVE  /\ Popped(s) \in Seq(Frames) /\ Len(Popped(s)) = Len(s) - 1
         /\ Top(s) \in Frames
         /\ \A k \in 1..(Len(s) - 1) : Popped(s)[k] = s[k]
<1>1. Popped(s) \in Seq(Frames)
  BY DEF Popped
<1>2. Len(Popped(s)) = Len(s) - 1
  <2> DEFINE n == Len(s) - 1
  <2>1. n \in Nat
    OBVIOUS
  <2>2. Len(SubSeq(s, 1, n)) = IF 1 <= n THEN n - 1 + 1 ELSE 0
    OBVIOUS
  <2> HIDE DEF n
  <2>3. Len(SubSeq(s, 1, n)) = n
    BY <2>1, <2>2
  <2>4. QED
    BY <2>3 DEF Popped, n
<1>3. Top(s) \in Frames
  BY DEF Top
<1>4. \A k \in 1..(Len(s) - 1) : Popped(s)[k] = s[k]
  BY DEF Popped
<1>5. QED
  BY <1>1, <1>2, <1>3, <1>4

\* A call of acquire, which reads eflags, and one of sched, which saves intena.
LEMMA FlagType ==
  ASSUME NEW f \in Frames, NEW pc \in PCs, NEW l \in Locks, NEW e \in BOOLEAN
  PROVE  /\ [f EXCEPT !.pc = pc, !.lk = l, !.eflags = e] \in Frames
         /\ [f EXCEPT !.pc = pc, !.intena = e] \in Frames
BY ZenonT(40) DEF Frames

\* No step of a CPU ends in panic.
LEMMA NoPanics ==
  ASSUME IInv, NEW c \in CPUs
  PROVE  /\ cur[c].pc = "pushcli" => ~holding(c, cur[c].lk)
         /\ cur[c].pc = "mycpu" => ~intr[c]
         /\ \A l \in Locks : cur[c].pc = "run" /\ l \in held[c] => holding(c, l)
         /\ cur[c].pc = "movl" => ~intr[c] /\ ncli[c] > 0
         /\ cur[c].pc = "run" /\ held[c] = {ptable_lock} =>
              holding(c, ptable_lock) /\ ncli[c] = 1 /\ ~intr[c]
<1>1. cur[c].lk \in Locks /\ intr[c] \in BOOLEAN /\ ncli[c] \in Int
  BY DEF IInv, TypeOK, Frames
<1>2. cur[c].pc = "pushcli" => ~holding(c, cur[c].lk)
  BY <1>1 DEF IInv, LocksOK, LockOK, holding
<1>3. cur[c].pc \notin {"run", "pushcli"} \/ held[c] # {} => ~intr[c]
  BY DEF IInv, FlagsOK, FlagOK, Free
<1>4. \A l \in Locks : cur[c].pc = "run" /\ l \in held[c] => holding(c, l)
  BY DEF IInv, LocksOK, LockOK, holding, Won
<1>5. Pending(c) = 0 => (ncli[c] = 0 <=> held[c] = {}) /\ (\A l \in held[c] : ncli[c] = 1 <=> held[c] = {l})
  BY DEF IInv, CountsOK, Tested
<1>6. cur[c].pc = "movl" => ncli[c] > 0
  <2>1. cur[c].pc = "movl" => Pending(c) = 0 /\ held[c] # {}
    BY DEF IInv, LocksOK, LockOK, Pending
  <2>2. ncli[c] >= 0
    BY DEF IInv, CountsOK, Tested
  <2>3. QED
    BY <1>1, <1>5, <2>1, <2>2
<1>8. cur[c].pc = "run" /\ held[c] = {ptable_lock} => ncli[c] = 1
  <2>1. cur[c].pc = "run" => Pending(c) = 0
    BY DEF Pending
  <2>2. held[c] = {ptable_lock} => ptable_lock \in held[c]
    OBVIOUS
  <2>3. QED
    BY <1>5, <2>1, <2>2
<1>7. QED
  BY <1>2, <1>3, <1>4, <1>6, <1>8, SpinLockAssumption

-----------------------------------------------------------------------------
(* What the steps that test for a panic do                                 *)

\* pushcli finds the lock not held, so acquire does not panic.
LEMMA PushcliStep ==
  ASSUME IInv, NEW c \in CPUs, pushcli(c)
  PROVE  /\ cur[c].pc = "pushcli"
         /\ cur' = [cur EXCEPT ![c].pc = "xchg"]
         /\ intr' = [intr EXCEPT ![c] = FALSE]
         /\ intena' = [intena EXCEPT ![c] = IF ncli[c] = 0 THEN cur[c].eflags ELSE intena[c]]
         /\ ncli' = [ncli EXCEPT ![c] = ncli[c] + 1]
         /\ UNCHANGED <<locked, owner, on, stack, held>>
<1>1. ~holding(c, cur[c].lk)
  BY NoPanics DEF pushcli
<1>2. QED
  BY <1>1 DEF pushcli, Goto

\* mark does not panic: interrupts are disabled.
LEMMA MarkStep ==
  ASSUME IInv, NEW c \in CPUs, mark(c)
  PROVE  /\ cur[c].pc = "mycpu" /\ ~intr[c]
         /\ owner' = [owner EXCEPT ![cur[c].lk] = c]
         /\ held' = [held EXCEPT ![c] = held[c] \cup {cur[c].lk}]
         /\ Return(c)
         /\ UNCHANGED <<locked, intr, ncli, intena, on, stack>>
<1>1. ~intr[c]
  BY NoPanics DEF mark
<1>2. QED
  BY <1>1 DEF mark

\* release does not panic: the CPU is recorded in a lock that it holds.
LEMMA ReleaseStep ==
  ASSUME IInv, NEW c \in CPUs, NEW l \in Locks, release(c, l)
  PROVE  /\ cur[c].pc = "run" /\ l \in held[c]
         /\ owner' = [owner EXCEPT ![l] = NoCPU]
         /\ cur' = [cur EXCEPT ![c].pc = "movl", ![c].lk = l]
         /\ UNCHANGED <<locked, intr, ncli, intena, on, stack, held>>
<1>1. holding(c, l)
  BY NoPanics DEF release
<1>2. QED
  BY <1>1 DEF release, Cleared

\* popcli does not panic: interrupts are disabled and ncli counts the locks.
LEMMA PopcliStep ==
  ASSUME IInv, NEW c \in CPUs, popcli(c)
  PROVE  /\ cur[c].pc = "movl" /\ ~intr[c]
         /\ locked' = [locked EXCEPT ![cur[c].lk] = FALSE]
         /\ held' = [held EXCEPT ![c] = held[c] \ {cur[c].lk}]
         /\ ncli' = [ncli EXCEPT ![c] = ncli[c] - 1]
         /\ intr' = [intr EXCEPT ![c] = Enables(c)]
         /\ Return(c)
         /\ UNCHANGED <<owner, intena, on, stack>>
<1>1. ~intr[c] /\ ncli[c] > 0 /\ ncli[c] \in Int
  BY NoPanics DEF popcli, IInv, TypeOK
<1>2. Return(c)
  BY <1>1 DEF popcli
<1>3. intr' = [intr EXCEPT ![c] = Enables(c)]
  <2>1. (intr[c] \/ Enables(c)) = Enables(c)
    BY <1>1 DEF Enables
  <2>2. intr' = [intr EXCEPT ![c] = intr[c] \/ Enables(c)]
    BY DEF popcli
  <2>3. QED
    BY <2>1, <2>2, ZenonT(40)
<1>4. QED
  BY <1>1, <1>2, <1>3, ZenonT(40) DEF popcli

\* What sched does, which does not panic: the thread leaves its CPU to the scheduler.
LEMMA SchedStep ==
  ASSUME IInv, NEW c \in CPUs, sched(c)
  PROVE  LET f == [cur[c] EXCEPT !.pc = "swtch", !.intena = intena[c]] IN
         /\ on[c] \in Threads /\ on[c] # c /\ cur[c].pc = "run" /\ held[c] = {ptable_lock}
         /\ ncli[c] = 1 /\ ~intr[c]
         /\ f \in Frames /\ Len(stack[c]) > 0
         /\ stack' = [x \in Contexts |-> IF x = c THEN Popped(stack[c])
                                         ELSE IF x = on[c] THEN Append(stack[x], f) ELSE stack[x]]
         /\ cur' = [cur EXCEPT ![c] = Top(stack[c])]
         /\ on' = [on EXCEPT ![c] = c]
         /\ UNCHANGED <<locked, owner, intr, ncli, intena, held>>
<1> DEFINE f == [cur[c] EXCEPT !.pc = "swtch", !.intena = intena[c]]
<1>1. holding(c, ptable_lock) /\ ncli[c] = 1 /\ ~intr[c]
  BY NoPanics DEF sched
<1>2. on[c] \in Threads /\ on[c] # c
  BY SpinLockAssumption DEF sched
<1>3. f \in Frames
  BY FlagType, SpinLockAssumption, ZenonT(40) DEF IInv, TypeOK, PCs
<1>4. Len(stack[c]) > 0
  BY <1>2 DEF IInv, StacksOK, SchedulerStack
<1>5. stack' = [stack EXCEPT ![on[c]] = Append(@, f), ![c] = Popped(@)]
  BY <1>1 DEF sched
<1>6. stack' = [x \in Contexts |-> IF x = c THEN Popped(stack[c])
                                   ELSE IF x = on[c] THEN Append(stack[x], f) ELSE stack[x]]
  <2> HIDE DEF f
  <2> QED
    BY <1>2, <1>5, ZenonT(40) DEF IInv, TypeOK, Contexts
<1>7. /\ cur' = [cur EXCEPT ![c] = Top(stack[c])]
      /\ on' = [on EXCEPT ![c] = c]
      /\ UNCHANGED <<locked, owner, intr, ncli, intena, held>>
  BY <1>1 DEF sched
<1>8. QED
  BY <1>1, <1>2, <1>3, <1>4, <1>6, <1>7 DEF sched

\* What swtch does: the thread on top of whose stack it finds a frame goes on.
LEMMA SwtchStep ==
  ASSUME IInv, NEW c \in CPUs, NEW t \in Threads, swtch(c, t)
  PROVE  /\ on[c] = c /\ cur[c].kind = "scheduler" /\ cur[c].pc = "run"
         /\ held[c] = {ptable_lock} /\ Off(t) /\ t # c
         /\ Len(stack[t]) > 0 /\ Switched(Top(stack[t])) /\ Top(stack[t]).kind \in Kinds
         /\ stack' = [x \in Contexts |-> IF x = t THEN Popped(stack[t])
                                         ELSE IF x = c THEN Append(stack[c], cur[c]) ELSE stack[x]]
         /\ cur' = [cur EXCEPT ![c] = Frame(Top(stack[t]).kind, "run")]
         /\ intena' = [intena EXCEPT ![c] = Restored(c, Top(stack[t]))]
         /\ on' = [on EXCEPT ![c] = t]
         /\ UNCHANGED <<locked, owner, intr, ncli, held>>
<1>1. t # c /\ Off(t) /\ t \in Contexts
  BY SpinLockAssumption DEF swtch, Off, Contexts
<1>2. Len(stack[t]) > 0 /\ Switched(Top(stack[t]))
  BY <1>1 DEF IInv, StacksOK, ThreadStack
<1>3. Top(stack[t]).kind \in Kinds
  BY <1>2 DEF Switched, Kinds
<1>4. stack' = [stack EXCEPT ![c] = Append(@, cur[c]), ![t] = Popped(@)]
  BY DEF swtch
<1>5. stack' = [x \in Contexts |-> IF x = t THEN Popped(stack[t])
                                   ELSE IF x = c THEN Append(stack[c], cur[c]) ELSE stack[x]]
  BY <1>1, <1>4, ZenonT(40) DEF IInv, TypeOK, Contexts
<1>6. QED
  BY <1>1, <1>2, <1>3, <1>5, ZenonT(40) DEF swtch

-----------------------------------------------------------------------------
(* Each part of the invariant is kept.                                     *)

\* Every step keeps the types.
LEMMA TypeNext ==
  ASSUME IInv, SpinNext
  PROVE  TypeOK'
\* A step to another place of the code.
<1>GotoType. ASSUME TypeOK, NEW c \in CPUs, NEW pc \in PCs
             PROVE  [cur EXCEPT ![c].pc = pc] \in [CPUs -> Frames]
  BY <1>GotoType, ZenonT(40) DEF TypeOK, Frames
\* A call returns.
<1>ReturnType. ASSUME TypeOK, NEW c \in CPUs, Return(c)
               PROVE  cur' \in [CPUs -> Frames]
  <2> USE <1>ReturnType
  <2>1. cur[c].kind \in Kinds
    BY DEF TypeOK, Frames
  <2>2. QED
    BY <2>1, FrameType DEF Return, TypeOK, PCs
\* A call of release.
<1>CallType. ASSUME TypeOK, NEW c \in CPUs, NEW pc \in PCs, NEW l \in Locks
             PROVE  [cur EXCEPT ![c].pc = pc, ![c].lk = l] \in [CPUs -> Frames]
  <2> USE <1>CallType
  <2>1. \A f \in Frames : [f EXCEPT !.pc = pc, !.lk = l] \in Frames
    BY ZenonT(40) DEF Frames
  <2>2. QED
    BY <2>1, ZenonT(40) DEF TypeOK
<1> TypeOK /\ StacksOK
  BY DEF IInv
<1>g. ASSUME NEW c \in CPUs, NEW pc \in PCs, NEW l \in Locks
      PROVE  /\ [cur EXCEPT ![c].pc = pc] \in [CPUs -> Frames]
             /\ [cur EXCEPT ![c].pc = pc, ![c].lk = l] \in [CPUs -> Frames]
  BY <1>GotoType, <1>CallType
<1> USE DEF TypeOK
<1>p. \A pc \in {"run", "new", "pushcli", "xchg", "mycpu", "movl", "swtch", "panic"} : pc \in PCs
  BY DEF PCs
<1>f. \A f \in Frames : f.kind \in Kinds /\ f.lk \in Locks /\ f.eflags \in BOOLEAN
  BY DEF Frames
<1>1. ASSUME NEW c \in CPUs, NEW l \in Locks, acquire(c, l) PROVE TypeOK'
  BY <1>1, <1>p, FlagType, ZenonT(40) DEF acquire
<1>2. ASSUME NEW c \in CPUs, NEW l \in Locks, release(c, l) PROVE TypeOK'
  <2>1. cur' \in [CPUs -> Frames]
    <3>1. cur' = [cur EXCEPT ![c].pc = "movl", ![c].lk = l]
      BY <1>2, ReleaseStep, ZenonT(40)
    <3>2. QED
      BY <1>g, <1>p, <3>1, ZenonT(40)
  <2>2. owner' = [owner EXCEPT ![l] = NoCPU] /\ UNCHANGED <<locked, intr, ncli, intena, on, stack, held>>
    BY <1>2, ReleaseStep, ZenonT(40)
  <2>3. QED
    BY <2>1, <2>2
<1>3. ASSUME NEW c \in CPUs, scheduler(c) PROVE TypeOK'
  BY <1>3, <1>p, FlagType, SpinLockAssumption, ZenonT(40) DEF scheduler
<1>4. ASSUME NEW c \in CPUs, pushcli(c) PROVE TypeOK'
  <2>1. cur' \in [CPUs -> Frames]
    <3>1. cur' = [cur EXCEPT ![c].pc = "xchg"]
      BY <1>4, PushcliStep
    <3>2. QED
      BY <1>g, <1>p, <3>1, SpinLockAssumption, ZenonT(40)
  <2>2. cur[c].eflags \in BOOLEAN
    BY <1>f
  <2>3. QED
    <3>1. /\ intr' = [intr EXCEPT ![c] = FALSE]
          /\ intena' = [intena EXCEPT ![c] = IF ncli[c] = 0 THEN cur[c].eflags ELSE intena[c]]
          /\ ncli' = [ncli EXCEPT ![c] = ncli[c] + 1]
          /\ UNCHANGED <<locked, owner, on, stack, held>>
      BY <1>4, PushcliStep
    <3>2. QED
      BY <2>1, <2>2, <3>1
<1>5. ASSUME NEW c \in CPUs, xchg(c) PROVE TypeOK'
  BY <1>5, <1>p, <1>f, <1>GotoType DEF xchg, Goto
<1>6. ASSUME NEW c \in CPUs, mark(c) PROVE TypeOK'
  <2>1. cur' \in [CPUs -> Frames]
    BY <1>6, MarkStep, <1>ReturnType
  <2>2. /\ owner' = [owner EXCEPT ![cur[c].lk] = c]
        /\ held' = [held EXCEPT ![c] = held[c] \cup {cur[c].lk}]
        /\ UNCHANGED <<locked, intr, ncli, intena, on, stack>>
    BY <1>6, MarkStep
  <2>3. QED
    BY <1>f, <2>1, <2>2
<1>7. ASSUME NEW c \in CPUs, popcli(c) PROVE TypeOK'
  <2>1. Enables(c) \in BOOLEAN
    BY DEF Enables
  <2>2. cur' \in [CPUs -> Frames]
    BY <1>7, PopcliStep, <1>ReturnType
  <2>3. intr' = [intr EXCEPT ![c] = Enables(c)]
    BY <1>7, PopcliStep
  <2>4. QED
    <3>1. /\ locked' = [locked EXCEPT ![cur[c].lk] = FALSE]
          /\ held' = [held EXCEPT ![c] = held[c] \ {cur[c].lk}]
          /\ ncli' = [ncli EXCEPT ![c] = ncli[c] - 1]
          /\ UNCHANGED <<owner, intena, on, stack>>
      BY <1>7, PopcliStep
    <3>2. QED
      BY <1>f, <2>1, <2>2, <2>3, <3>1
<1>8. ASSUME NEW c \in CPUs, interrupt(c) PROVE TypeOK'
  BY <1>8, Push, FrameType DEF interrupt, Kinds, PCs
<1>9. ASSUME NEW c \in CPUs, iret(c) PROVE TypeOK'
  BY <1>9, Pop DEF iret, Returns, StacksOK
<1>10. ASSUME NEW c \in CPUs, sched(c) PROVE TypeOK'
  <2>1. c \in Contexts
    BY DEF Contexts
  <2> DEFINE f == [cur[c] EXCEPT !.pc = "swtch", !.intena = intena[c]]
  <2>2. /\ f \in Frames /\ Len(stack[c]) > 0
        /\ stack' = [x \in Contexts |-> IF x = c THEN Popped(stack[c])
                                        ELSE IF x = on[c] THEN Append(stack[x], f) ELSE stack[x]]
        /\ cur' = [cur EXCEPT ![c] = Top(stack[c])]
        /\ on' = [on EXCEPT ![c] = c]
        /\ UNCHANGED <<locked, owner, intr, ncli, intena, held>>
    BY <1>10, SchedStep, ZenonT(40)
  <2> HIDE DEF f
  <2>3. QED
    BY <2>1, <2>2, Push, Pop
<1>11. ASSUME NEW c \in CPUs, NEW t \in Threads, swtch(c, t) PROVE TypeOK'
  <2>1. c \in Contexts /\ t \in Contexts
    BY DEF Contexts
  <2>2. Restored(c, Top(stack[t])) \in BOOLEAN
    BY <1>11, <2>1, SwtchStep, Pop, ZenonT(40) DEF Restored, Frames
  <2>3. Frame(Top(stack[t]).kind, "run") \in Frames
    BY <1>11, <1>p, SwtchStep, FrameType
  <2>4. /\ Len(stack[t]) > 0
        /\ stack' = [x \in Contexts |-> IF x = t THEN Popped(stack[t])
                                        ELSE IF x = c THEN Append(stack[c], cur[c]) ELSE stack[x]]
    BY <1>11, SwtchStep
  <2>5. stack' \in [Contexts -> Seq(Frames)]
    BY <2>1, <2>4, Push, Pop
  <2>6. QED
    BY <1>11, <2>1, <2>2, <2>3, <2>5, ZenonT(40) DEF swtch
<1>12. QED
  BY <1>1, <1>2, <1>3, <1>4, <1>5, <1>6, <1>7, <1>8, <1>9, <1>10, <1>11 DEF SpinNext

\* A step of c leaves the registers of the other CPUs alone; its new frame.
Moves(c, kind, pc) ==
  /\ cur'[c].kind = kind /\ cur'[c].pc = pc
  /\ \A d \in CPUs \ {c} : cur'[d] = cur[d]

\* The frames after a jump.
LEMMA GotoMoves ==
  ASSUME TypeOK, NEW c \in CPUs, NEW pc, cur' = [cur EXCEPT ![c].pc = pc]
  PROVE  Moves(c, cur[c].kind, pc) /\ cur'[c].lk = cur[c].lk /\ cur'[c].eflags = cur[c].eflags
BY DEF TypeOK, Moves, Frames

\* The frames after a call returns.
LEMMA ReturnMoves ==
  ASSUME TypeOK, NEW c \in CPUs, Return(c)
  PROVE  Moves(c, cur[c].kind, "run")
BY DEF TypeOK, Moves, Return, Frame

\* The frames after a call with a lock as its argument.
LEMMA CallMoves ==
  ASSUME TypeOK, NEW c \in CPUs, NEW pc, NEW l,
         cur' = [cur EXCEPT ![c].pc = pc, ![c].lk = l]
  PROVE  Moves(c, cur[c].kind, pc) /\ cur'[c].lk = l
BY DEF TypeOK, Moves, Frames

\* The frames after a call that has also read eflags.
LEMMA FlagMoves ==
  ASSUME TypeOK, NEW c \in CPUs, NEW pc, NEW l, NEW e,
         cur' = [cur EXCEPT ![c].pc = pc, ![c].lk = l, ![c].eflags = e]
  PROVE  Moves(c, cur[c].kind, pc) /\ cur'[c].lk = l /\ cur'[c].eflags = e
BY DEF TypeOK, Moves, Frames

\* The frames after an interrupt, a return from one or a switch.
LEMMA FrameMoves ==
  ASSUME TypeOK, NEW c \in CPUs, NEW f, cur' = [cur EXCEPT ![c] = f]
  PROVE  Moves(c, f.kind, f.pc) /\ cur'[c] = f
BY DEF TypeOK, Moves

\* An interrupt enters a frame of its own.
LEMMA InterruptMoves ==
  ASSUME TypeOK, NEW c \in CPUs, interrupt(c)
  PROVE  Moves(c, "trap", "run")
<1>1. cur' = [cur EXCEPT ![c] = Frame("trap", "run")]
  BY DEF interrupt
<1>2. Frame("trap", "run").kind = "trap" /\ Frame("trap", "run").pc = "run"
  BY DEF Frame
<1>3. Moves(c, Frame("trap", "run").kind, Frame("trap", "run").pc)
  BY <1>1, FrameMoves, ZenonT(40)
<1>4. QED
  BY <1>2, <1>3

\* The frame that iret goes back to.
LEMMA StackTop ==
  ASSUME IInv, NEW c \in CPUs, iret(c)
  PROVE  LET s == stack[on[c]] IN
         /\ s \in Seq(Frames) /\ Len(s) > 0 /\ Interrupted(Top(s))
         /\ Top(s).kind \in IF on[c] = c THEN {"scheduler"} ELSE {"thread", "forkret"}
         /\ Returns(Top(s), Len(s))
<1> DEFINE s == stack[on[c]]
<1>1. s \in Seq(Frames) /\ Len(s) > 0
  BY DEF iret, IInv, TypeOK, StacksOK, Returns
<1>2. Len(s) \in 1..Len(s) /\ Top(s) = s[Len(s)]
  BY <1>1 DEF Top
<1>3. CASE on[c] = c
  <2>1. Interrupted(Top(s)) /\ Top(s).kind = "scheduler"
    BY <1>2, <1>3 DEF IInv, StacksOK, SchedulerStack
  <2>2. QED
    BY <1>1, <1>3, <2>1 DEF Returns
<1>4. CASE on[c] # c
  <2>1. on[c] \in Threads /\ ~Off(on[c])
    BY <1>4 DEF IInv, StacksOK, Off
  <2>2. QED
    BY <1>1, <1>2, <1>4, <2>1 DEF IInv, StacksOK, ThreadStack
<1>5. QED
  BY <1>3, <1>4

\* The frame that sched goes back to.
LEMMA SchedulerTop ==
  ASSUME IInv, NEW c \in CPUs, on[c] # c
  PROVE  Top(stack[c]).pc = "run" /\ Top(stack[c]).kind = "scheduler"
<1>1. stack[c] \in Seq(Frames) /\ Len(stack[c]) > 0 /\ Top(stack[c]).pc = "run"
  BY DEF IInv, TypeOK, StacksOK, SchedulerStack, Contexts
<1>2. Len(stack[c]) \in 1..Len(stack[c])
  BY <1>1
<1>3. QED
  BY <1>1, <1>2 DEF IInv, StacksOK, SchedulerStack, Top

\* The thread that swtch goes to enters its frame.
LEMMA SwtchMoves ==
  ASSUME IInv, NEW c \in CPUs, NEW t \in Threads, swtch(c, t)
  PROVE  Moves(c, Top(stack[t]).kind, "run")
<1> DEFINE f == Frame(Top(stack[t]).kind, "run")
<1>1. cur' = [cur EXCEPT ![c] = f] /\ TypeOK
  BY DEF swtch, IInv
<1>2. f.kind = Top(stack[t]).kind /\ f.pc = "run"
  BY DEF Frame
<1> HIDE DEF f
<1>3. Moves(c, f.kind, f.pc)
  BY <1>1, FrameMoves, ZenonT(40)
<1>4. QED
  BY <1>2, <1>3

\* Every step keeps LocksOK: the CPU that wins a lock is the only one to have it.
LEMMA LocksNext ==
  ASSUME IInv, SpinNext
  PROVE  LocksOK'
\* The steps between acquire, release, interrupts and switches: no lock changes hands
\* and none is asked for.
<1>LocksKept. ASSUME NEW c \in CPUs, NEW kind, Moves(c, kind, "run"),
                     cur[c].pc = "run" \/ cur[c].pc = "pushcli",
                     UNCHANGED <<locked, owner, held>>
              PROVE  LocksOK'
  BY <1>LocksKept DEF IInv, LocksOK, LockOK, Moves, Won
\* Only the locks that c wins or gives up concern the others.
<1>LocksFrom. ASSUME LocksOK, NEW c \in CPUs, LockOK(c)',
                     \A d \in CPUs \ {c} : LockOK(d)' /\ Won(d)' = Won(d),
                     \A l \in Won(c)' \ Won(c), d \in CPUs \ {c} : l \notin Won(d)
              PROVE  LocksOK'
  <2> USE <1>LocksFrom
  <2>1. ASSUME NEW d \in CPUs, NEW e \in CPUs, d # e PROVE Won(d)' \cap Won(e)' = {}
    BY <2>1 DEF LocksOK
  <2>2. QED
    BY <2>1 DEF LocksOK
\* A CPU whose frame and locks stay keeps what it relies on.
<1>OtherCPU. ASSUME NEW d \in CPUs, LockOK(d), cur'[d] = cur[d], held'[d] = held[d],
                    cur[d].lk \in Locks, held[d] \subseteq Locks,
                    \A l \in Won(d) : locked'[l],
                    \A l \in Locks : owner'[l] = d <=> owner[l] = d
             PROVE  LockOK(d)' /\ Won(d)' = Won(d)
  <2> USE <1>OtherCPU
  <2>1. Won(d)' = Won(d)
    BY DEF Won
  <2>2. QED
    BY <2>1 DEF LockOK
<1> TypeOK /\ LocksOK
  BY DEF IInv
<1>f. \A c \in CPUs : cur[c].lk \in Locks /\ held[c] \subseteq Locks
  BY DEF TypeOK, Frames
<1>w. \A c \in CPUs : LockOK(c) /\ \A d \in CPUs \ {c} : Won(c) \cap Won(d) = {}
  BY DEF LocksOK
<1>l. \A c \in CPUs : \A l \in Won(c) : locked[l]
  BY <1>w DEF LockOK
<1>1. ASSUME NEW c \in CPUs, NEW l \in Locks, acquire(c, l) PROVE LocksOK'
  <2>1. Moves(c, cur[c].kind, "pushcli") /\ cur'[c].lk = l
    BY <1>1, FlagMoves, ZenonT(40) DEF acquire
  <2>2. cur[c].pc = "run" /\ l \notin held[c] /\ UNCHANGED <<locked, owner, held>>
    BY <1>1 DEF acquire
  <2>3. LockOK(c)' /\ Won(c)' = Won(c)
    <3>1. cur'[c].pc = "pushcli"
      BY <2>1 DEF Moves
    <3>2. Won(c)' = Won(c)
      BY <2>2, <3>1 DEF Won
    <3>3. QED
      BY <1>w, <2>1, <2>2, <3>1, <3>2 DEF LockOK
  <2>4. ASSUME NEW d \in CPUs \ {c} PROVE LockOK(d)' /\ Won(d)' = Won(d)
    <3>1. cur'[d] = cur[d]
      BY <2>1 DEF Moves
    <3>2. QED
      BY <1>f, <1>w, <1>l, <2>2, <3>1, <1>OtherCPU
  <2>5. QED
    BY <2>3, <2>4, <1>LocksFrom
<1>2. ASSUME NEW c \in CPUs, NEW l \in Locks, release(c, l) PROVE LocksOK'
  <2>1. cur[c].pc = "run" /\ l \in held[c] /\ UNCHANGED <<locked, held>>
    BY <1>2, ReleaseStep, ZenonT(40)
  <2>2. Moves(c, cur[c].kind, "movl") /\ cur'[c].lk = l
    <3>1. cur' = [cur EXCEPT ![c].pc = "movl", ![c].lk = l]
      BY <1>2, ReleaseStep
    <3>2. QED
      BY <3>1, CallMoves, ZenonT(40)
  <2>3. owner'[l] = NoCPU /\ \A m \in Locks \ {l} : owner'[m] = owner[m]
    <3>1. owner' = [owner EXCEPT ![l] = NoCPU]
      BY <1>2, ReleaseStep, ZenonT(40)
    <3>2. QED
      BY <3>1 DEF TypeOK
  <2>4. LockOK(c)' /\ Won(c)' = Won(c)
    <3>1. NoCPU # c /\ cur'[c].pc = "movl" /\ cur'[c].lk = l
      BY <2>2, SpinLockAssumption DEF Moves
    <3>2. Won(c)' = Won(c)
      BY <2>1, <3>1, ZenonT(40) DEF Won
    <3>3. QED
      BY <1>f, <1>w, <2>1, <2>3, <3>1, <3>2 DEF LockOK
  <2>5. ASSUME NEW d \in CPUs \ {c} PROVE LockOK(d)' /\ Won(d)' = Won(d)
    <3>1. l \notin held[d]
      BY <1>w, <2>1 DEF Won
    <3>2. NoCPU # d /\ cur'[d] = cur[d] /\ Won(d)' = Won(d)
      BY <2>1, <2>2, SpinLockAssumption DEF Moves, Won
    <3>3. QED
      BY <1>f, <1>w, <2>1, <2>3, <3>1, <3>2 DEF LockOK
  <2>6. QED
    BY <2>4, <2>5, <1>LocksFrom
<1>3. ASSUME NEW c \in CPUs, scheduler(c) PROVE LocksOK'
  <2>1. Moves(c, cur[c].kind, "pushcli") /\ cur'[c].lk = ptable_lock
    BY <1>3, FlagMoves, ZenonT(40) DEF scheduler
  <2>2. cur[c].pc = "run" /\ held[c] = {} /\ UNCHANGED <<locked, owner, held>>
    BY <1>3 DEF scheduler
  <2>3. LockOK(c)' /\ Won(c)' = Won(c)
    <3>1. cur'[c].pc = "pushcli"
      BY <2>1 DEF Moves
    <3>2. Won(c)' = Won(c)
      BY <2>2, <3>1 DEF Won
    <3>3. QED
      BY <1>w, <2>1, <2>2, <3>1, <3>2 DEF LockOK
  <2>4. ASSUME NEW d \in CPUs \ {c} PROVE LockOK(d)' /\ Won(d)' = Won(d)
    <3>1. cur'[d] = cur[d]
      BY <2>1 DEF Moves
    <3>2. QED
      BY <1>f, <1>w, <1>l, <2>2, <3>1, <1>OtherCPU
  <2>5. QED
    BY <2>3, <2>4, <1>LocksFrom
<1>4. ASSUME NEW c \in CPUs, pushcli(c) PROVE LocksOK'
  <2>1. Moves(c, cur[c].kind, "xchg") /\ cur'[c].lk = cur[c].lk
    BY <1>4, PushcliStep, GotoMoves
  <2>2. cur[c].pc = "pushcli" /\ UNCHANGED <<locked, owner, held>>
    BY <1>4, PushcliStep
  <2>3. QED
    BY <2>1, <2>2 DEF LocksOK, LockOK, Moves, Won
<1>5. ASSUME NEW c \in CPUs, xchg(c) PROVE LocksOK'
  <2>1. Moves(c, cur[c].kind, "mycpu") /\ cur'[c].lk = cur[c].lk
    BY <1>5, GotoMoves, ZenonT(40) DEF xchg, Goto
  <2>2. /\ cur[c].pc = "xchg" /\ ~locked[cur[c].lk]
        /\ locked' = [locked EXCEPT ![cur[c].lk] = TRUE] /\ UNCHANGED <<owner, held>>
    BY <1>5 DEF xchg
  <2>3. locked'[cur[c].lk] /\ \A m \in Locks : locked[m] => locked'[m]
    BY <1>f, <2>2, ZenonT(40) DEF TypeOK
  <2>4. LockOK(c)' /\ Won(c)' = Won(c) \cup {cur[c].lk}
    <3>1. cur'[c].pc = "mycpu"
      BY <2>1 DEF Moves
    <3>2. Won(c)' = Won(c) \cup {cur[c].lk} /\ Won(c) = held[c]
      BY <2>1, <2>2, <3>1 DEF Won
    <3>3. \A l \in Won(c)' : locked'[l]
      BY <1>f, <1>l, <2>3, <3>2
    <3>4. QED
      BY <1>w, <2>1, <2>2, <3>1, <3>2, <3>3 DEF LockOK
  <2>5. ASSUME NEW d \in CPUs \ {c} PROVE LockOK(d)' /\ Won(d)' = Won(d) /\ cur[c].lk \notin Won(d)
    <3>1. cur'[d] = cur[d]
      BY <2>1 DEF Moves
    <3>2. cur[c].lk \notin Won(d) /\ Won(d) \subseteq Locks
      BY <1>f, <1>l, <2>2 DEF Won
    <3>3. \A l \in Won(d) : locked'[l]
      BY <1>l, <2>3, <3>2
    <3>4. QED
      BY <1>f, <1>w, <2>2, <3>1, <3>2, <3>3, <1>OtherCPU
  <2>6. QED
    BY <2>4, <2>5, <1>LocksFrom
<1>6. ASSUME NEW c \in CPUs, mark(c) PROVE LocksOK'
  <2>1. /\ cur[c].pc = "mycpu" /\ owner' = [owner EXCEPT ![cur[c].lk] = c]
        /\ held' = [held EXCEPT ![c] = held[c] \cup {cur[c].lk}] /\ locked' = locked
    BY <1>6, MarkStep
  <2>2. Moves(c, cur[c].kind, "run")
    BY <1>6, MarkStep, ReturnMoves
  <2>3. /\ owner'[cur[c].lk] = c /\ \A m \in Locks \ {cur[c].lk} : owner'[m] = owner[m]
        /\ held'[c] = held[c] \cup {cur[c].lk} /\ \A d \in CPUs \ {c} : held'[d] = held[d]
    BY <1>f, <2>1, ZenonT(40) DEF TypeOK
  <2>4. LockOK(c)' /\ Won(c)' = Won(c)
    <3>1. cur'[c].pc = "run"
      BY <2>2 DEF Moves
    <3>2. Won(c)' = Won(c) /\ held'[c] = Won(c)
      BY <2>1, <2>3, <3>1 DEF Won
    <3>3. \A l \in Won(c)' : locked'[l]
      BY <1>l, <2>1, <3>2
    <3>4. \A l \in held'[c] : owner'[l] = c
      BY <1>f, <1>w, <2>1, <2>3 DEF LockOK
    <3>5. \A l \in Locks : owner'[l] = c => l \in held'[c]
      BY <1>w, <2>3 DEF LockOK
    <3>6. QED
      BY <3>1, <3>2, <3>3, <3>4, <3>5 DEF LockOK
  <2>5. ASSUME NEW d \in CPUs \ {c} PROVE LockOK(d)' /\ Won(d)' = Won(d)
    <3>1. cur[c].lk \notin Won(d)
      BY <1>w, <2>1 DEF Won
    <3>2. cur'[d] = cur[d] /\ held'[d] = held[d]
      BY <2>2, <2>3 DEF Moves
    <3>3. owner[cur[c].lk] # d
      BY <1>f, <1>w, <3>1 DEF LockOK, Won
    <3>4. \A l \in Locks : owner'[l] = d <=> owner[l] = d
      BY <2>3, <3>3
    <3>5. QED
      BY <1>f, <1>w, <1>l, <2>1, <3>2, <3>4, <1>OtherCPU
  <2>6. QED
    BY <2>4, <2>5, <1>LocksFrom
<1>7. ASSUME NEW c \in CPUs, popcli(c) PROVE LocksOK'
  <2>1. /\ cur[c].pc = "movl" /\ locked' = [locked EXCEPT ![cur[c].lk] = FALSE]
        /\ held' = [held EXCEPT ![c] = held[c] \ {cur[c].lk}] /\ owner' = owner
    BY <1>7, PopcliStep
  <2>2. Moves(c, cur[c].kind, "run")
    BY <1>7, PopcliStep, ReturnMoves
  <2>3. /\ \A m \in Locks \ {cur[c].lk} : locked'[m] = locked[m]
        /\ held'[c] = held[c] \ {cur[c].lk} /\ \A d \in CPUs \ {c} : held'[d] = held[d]
    BY <1>f, <2>1, ZenonT(40) DEF TypeOK
  <2>4. LockOK(c)' /\ Won(c)' \subseteq Won(c)
    <3>1. cur'[c].pc = "run"
      BY <2>2 DEF Moves
    <3>2. Won(c)' = held'[c] /\ Won(c) = held[c]
      BY <2>1, <3>1 DEF Won
    <3>3. \A l \in Won(c)' : locked'[l]
      BY <1>f, <1>l, <2>3, <3>2
    <3>4. \A l \in held'[c] : owner'[l] = c
      BY <1>w, <2>1, <2>3 DEF LockOK
    <3>5. \A l \in Locks : owner'[l] = c => l \in held'[c]
      BY <1>w, <2>1, <2>3 DEF LockOK
    <3>6. QED
      BY <2>3, <3>1, <3>2, <3>3, <3>4, <3>5 DEF LockOK
  <2>5. ASSUME NEW d \in CPUs \ {c} PROVE LockOK(d)' /\ Won(d)' = Won(d)
    <3>1. cur[c].lk \notin Won(d) /\ Won(d) \subseteq Locks
      BY <1>f, <1>w, <2>1 DEF Won, LockOK
    <3>2. cur'[d] = cur[d] /\ held'[d] = held[d]
      BY <2>2, <2>3 DEF Moves
    <3>3. \A l \in Won(d) : locked'[l]
      BY <1>l, <2>3, <3>1
    <3>4. QED
      BY <1>f, <1>w, <2>1, <3>2, <3>3, <1>OtherCPU
  <2>6. QED
    BY <2>4, <2>5, <1>LocksFrom
<1>8. ASSUME NEW c \in CPUs, interrupt(c) PROVE LocksOK'
  <2>1. Moves(c, "trap", "run")
    BY <1>8, InterruptMoves
  <2>2. cur[c].pc \in {"run", "pushcli"}
    BY <1>8 DEF interrupt, IInv, FlagsOK, FlagOK, Free
  <2>3. QED
    BY <1>8, <2>1, <2>2, <1>LocksKept DEF interrupt
<1>9. ASSUME NEW c \in CPUs, iret(c) PROVE LocksOK'
  <2>1. cur'[c] = Top(stack[on[c]]) /\ Moves(c, cur'[c].kind, cur'[c].pc)
    BY <1>9, FrameMoves, ZenonT(40) DEF iret
  <2>2. cur'[c].pc \in {"run", "pushcli"}
    BY <1>9, <2>1, StackTop DEF Interrupted
  <2>3. cur[c].pc = "run" /\ held[c] = {} /\ UNCHANGED <<locked, owner, held>>
    BY <1>9 DEF iret
  <2>4. LockOK(c)' /\ Won(c)' = Won(c)
    BY <1>w, <2>2, <2>3 DEF LockOK, Won
  <2>5. ASSUME NEW d \in CPUs \ {c} PROVE LockOK(d)' /\ Won(d)' = Won(d)
    <3>1. cur'[d] = cur[d]
      BY <2>1 DEF Moves
    <3>2. QED
      BY <1>f, <1>w, <1>l, <2>3, <3>1, <1>OtherCPU
  <2>6. QED
    BY <2>4, <2>5, <1>LocksFrom
<1>10. ASSUME NEW c \in CPUs, sched(c) PROVE LocksOK'
  <2>1. cur[c].pc = "run" /\ UNCHANGED <<locked, owner, held>>
        /\ on[c] # c /\ cur' = [cur EXCEPT ![c] = Top(stack[c])]
    BY <1>10, SchedStep, ZenonT(40)
  <2>2. Top(stack[c]).pc = "run"
    BY <2>1 DEF IInv, StacksOK, SchedulerStack
  <2>3. Moves(c, Top(stack[c]).kind, "run")
    BY <2>1, <2>2, FrameMoves, ZenonT(40)
  <2>4. QED
    BY <2>1, <2>3, <1>LocksKept
<1>11. ASSUME NEW c \in CPUs, NEW t \in Threads, swtch(c, t) PROVE LocksOK'
  <2>1. Moves(c, Top(stack[t]).kind, "run") /\ cur[c].pc = "run" /\ UNCHANGED <<locked, owner, held>>
    BY <1>11, SwtchMoves, SwtchStep
  <2>2. QED
    BY <2>1, <1>LocksKept
<1>12. QED
  BY <1>1, <1>2, <1>3, <1>4, <1>5, <1>6, <1>7, <1>8, <1>9, <1>10, <1>11 DEF SpinNext

\* Every step keeps FlagsOK: interrupts are enabled only where the frame allows it.
LEMMA FlagsNext ==
  ASSUME IInv, SpinNext
  PROVE  FlagsOK'
<1> TypeOK /\ FlagsOK
  BY ZenonT(40) DEF IInv
<1>o. ASSUME NEW c \in CPUs, NEW kind, NEW pc, Moves(c, kind, pc), FlagOK(c)',
             \A d \in CPUs \ {c} : held'[d] = held[d] /\ intr'[d] = intr[d] /\ intena'[d] = intena[d]
      PROVE  FlagsOK'
  <2>1. ASSUME NEW d \in CPUs \ {c} PROVE FlagOK(d)'
    <3>1. cur'[d] = cur[d] /\ (Free(d)' <=> Free(d))
      BY <1>o, ZenonT(40) DEF Moves, Free
    <3>2. FlagOK(d)
      BY DEF FlagsOK
    <3>3. QED
      BY <1>o, <3>1, <3>2, ZenonT(40) DEF FlagOK
  <2>2. QED
    BY <1>o, <2>1 DEF FlagsOK
<1>w. \A c \in CPUs : FlagOK(c)
  BY DEF FlagsOK
<1>1. ASSUME NEW c \in CPUs, NEW l \in Locks, acquire(c, l) PROVE FlagsOK'
  <2>1. Moves(c, cur[c].kind, "pushcli") /\ cur'[c].eflags = intr[c]
    <3>1. cur' = [cur EXCEPT ![c].pc = "pushcli", ![c].lk = l, ![c].eflags = intr[c]]
      BY <1>1 DEF acquire
    <3>2. cur'[c].kind = cur[c].kind /\ cur'[c].pc = "pushcli" /\ \A d \in CPUs \ {c} : cur'[d] = cur[d]
      BY <3>1 DEF TypeOK, Frames
    <3>3. cur'[c].eflags = intr[c]
      BY <3>1 DEF TypeOK, Frames
    <3>4. QED
      BY <3>1, <3>2, <3>3, ZenonT(40) DEF Moves
  <2>2. cur[c].pc = "run" /\ UNCHANGED <<held, intr, intena>>
    BY <1>1 DEF acquire
  <2>3. FlagOK(c)'
    BY <1>w, <2>1, <2>2 DEF FlagOK, Free, Moves
  <2>4. QED
    BY <1>o, <2>1, <2>2, <2>3
<1>2. ASSUME NEW c \in CPUs, NEW l \in Locks, release(c, l) PROVE FlagsOK'
  <2>1. /\ cur[c].pc = "run" /\ l \in held[c] /\ UNCHANGED <<held, intr, intena>>
        /\ cur' = [cur EXCEPT ![c].pc = "movl", ![c].lk = l]
    BY <1>2, ReleaseStep
  <2>2. Moves(c, cur[c].kind, "movl")
    BY <2>1, CallMoves, ZenonT(40)
  <2>3. FlagOK(c)'
    <3>1. ~Free(c) /\ ~Free(c)' /\ cur'[c].pc # "pushcli" /\ cur'[c].kind = cur[c].kind
      BY <2>1, <2>2 DEF Free, Moves
    <3>2. QED
      BY <1>w, <2>1, <3>1 DEF FlagOK
  <2>4. QED
    BY <1>o, <2>1, <2>2, <2>3
<1>3. ASSUME NEW c \in CPUs, scheduler(c) PROVE FlagsOK'
  <2>1. Moves(c, "scheduler", "pushcli") /\ cur'[c].eflags = TRUE
    <3>1. /\ cur[c].kind = "scheduler"
          /\ cur' = [cur EXCEPT ![c].pc = "pushcli", ![c].lk = ptable_lock, ![c].eflags = TRUE]
      BY <1>3 DEF scheduler
    <3>2. cur'[c].kind = cur[c].kind /\ cur'[c].pc = "pushcli" /\ \A d \in CPUs \ {c} : cur'[d] = cur[d]
      BY <3>1 DEF TypeOK, Frames
    <3>3. cur'[c].eflags = TRUE
      BY <3>1 DEF TypeOK, Frames
    <3>4. QED
      BY <3>1, <3>2, <3>3, ZenonT(40) DEF Moves
  <2>2. held[c] = {} /\ UNCHANGED <<held, intena>> /\ intr' = [intr EXCEPT ![c] = TRUE]
    BY <1>3 DEF scheduler
  <2>3. intr'[c] = TRUE /\ \A d \in CPUs \ {c} : intr'[d] = intr[d]
    BY <2>2 DEF TypeOK
  <2>4. FlagOK(c)'
    BY <2>1, <2>2, <2>3 DEF FlagOK, Free, Moves
  <2>5. QED
    BY <1>o, <2>1, <2>2, <2>3, <2>4, ZenonT(40)
<1>4. ASSUME NEW c \in CPUs, pushcli(c) PROVE FlagsOK'
  <2>1. Moves(c, cur[c].kind, "xchg")
    BY <1>4, PushcliStep, GotoMoves, ZenonT(40)
  <2>2. /\ cur[c].pc = "pushcli" /\ held' = held
        /\ intr' = [intr EXCEPT ![c] = FALSE]
        /\ intena' = [intena EXCEPT ![c] = IF ncli[c] = 0 THEN cur[c].eflags ELSE intena[c]]
    BY <1>4, PushcliStep
  <2>3. /\ ~intr'[c] /\ intena'[c] = IF ncli[c] = 0 THEN cur[c].eflags ELSE intena[c]
        /\ \A d \in CPUs \ {c} : intr'[d] = intr[d] /\ intena'[d] = intena[d]
    BY <2>2 DEF TypeOK
  <2>4. ncli[c] = 0 <=> held[c] = {}
    BY <2>2 DEF IInv, CountsOK, Tested, Pending
  <2>5. FlagOK(c)'
    BY <1>w, <2>1, <2>2, <2>3, <2>4 DEF FlagOK, Free, Moves
  <2>6. QED
    BY <1>o, <2>1, <2>2, <2>3, <2>5, ZenonT(40)
<1>5. ASSUME NEW c \in CPUs, xchg(c) PROVE FlagsOK'
  <2>1. Moves(c, cur[c].kind, "mycpu") /\ cur[c].pc = "xchg" /\ UNCHANGED <<held, intr, intena>>
    BY <1>5, GotoMoves, ZenonT(40) DEF xchg, Goto
  <2>2. FlagOK(c)'
    BY <1>w, <2>1 DEF FlagOK, Free, Moves
  <2>3. QED
    BY <1>o, <2>1, <2>2
<1>6. ASSUME NEW c \in CPUs, mark(c) PROVE FlagsOK'
  <2>1. Moves(c, cur[c].kind, "run")
    BY <1>6, MarkStep, ReturnMoves
  <2>2. /\ cur[c].pc = "mycpu" /\ ~intr[c] /\ UNCHANGED <<intr, intena>>
        /\ held' = [held EXCEPT ![c] = held[c] \cup {cur[c].lk}]
    BY <1>6, MarkStep
  <2>3. held'[c] # {} /\ \A d \in CPUs \ {c} : held'[d] = held[d]
    BY <2>2, ZenonT(40) DEF TypeOK
  <2>4. FlagOK(c)'
    BY <1>w, <2>1, <2>2, <2>3 DEF FlagOK, Free, Moves
  <2>5. QED
    BY <1>o, <2>1, <2>2, <2>3, <2>4
<1>7. ASSUME NEW c \in CPUs, popcli(c) PROVE FlagsOK'
  <2>1. Moves(c, cur[c].kind, "run")
    BY <1>7, PopcliStep, ReturnMoves
  <2>2. /\ cur[c].pc = "movl" /\ ~intr[c] /\ UNCHANGED <<intena>>
        /\ held' = [held EXCEPT ![c] = held[c] \ {cur[c].lk}]
        /\ intr' = [intr EXCEPT ![c] = Enables(c)]
    BY <1>7, PopcliStep
  <2>3. /\ (intr'[c] <=> ncli[c] = 1 /\ intena[c]) /\ held'[c] = held[c] \ {cur[c].lk}
        /\ \A d \in CPUs \ {c} : held'[d] = held[d] /\ intr'[d] = intr[d]
    BY <2>2 DEF TypeOK, Enables
  <2>4. ncli[c] = 1 <=> held'[c] = {}
    <3>1. cur[c].lk \in held[c]
      BY <2>2 DEF IInv, LocksOK, LockOK
    <3>2. ncli[c] = 1 <=> held[c] = {cur[c].lk}
      BY <2>2, <3>1 DEF IInv, CountsOK, Tested, Pending
    <3>3. QED
      BY <2>3, <3>1, <3>2
  <2>5. FlagOK(c)'
    BY <1>w, <2>1, <2>2, <2>3, <2>4, ZenonT(40) DEF FlagOK, Free, Moves
  <2>6. QED
    BY <1>o, <2>1, <2>2, <2>3, <2>5, ZenonT(40)
<1>8. ASSUME NEW c \in CPUs, interrupt(c) PROVE FlagsOK'
  <2>1. Moves(c, "trap", "run")
    BY <1>8, InterruptMoves
  <2>2. intr[c] /\ UNCHANGED <<held, intena>> /\ intr' = [intr EXCEPT ![c] = FALSE]
    BY <1>8 DEF interrupt
  <2>3. ~intr'[c] /\ \A d \in CPUs \ {c} : intr'[d] = intr[d]
    BY <2>2 DEF TypeOK
  <2>4. FlagOK(c)'
    BY <1>w, <2>1, <2>2, <2>3 DEF FlagOK, Free, Moves
  <2>5. QED
    BY <1>o, <2>1, <2>2, <2>3, <2>4, ZenonT(40)
<1>9. ASSUME NEW c \in CPUs, iret(c) PROVE FlagsOK'
  <2>1. cur'[c] = Top(stack[on[c]]) /\ Moves(c, cur'[c].kind, cur'[c].pc)
    BY <1>9, FrameMoves, ZenonT(40) DEF iret
  <2>2. Interrupted(cur'[c]) /\ cur'[c].kind # "trap"
    BY <1>9, <2>1, StackTop
  <2>3. held[c] = {} /\ UNCHANGED <<held, intena>> /\ intr' = [intr EXCEPT ![c] = TRUE]
    BY <1>9, ZenonT(40) DEF iret
  <2>4. intr'[c] = TRUE /\ \A d \in CPUs \ {c} : intr'[d] = intr[d]
    BY <2>3 DEF TypeOK
  <2>5. FlagOK(c)'
    BY <2>2, <2>3, <2>4 DEF FlagOK, Free, Interrupted
  <2>6. QED
    BY <1>o, <2>1, <2>3, <2>4, <2>5, ZenonT(40)
<1>10. ASSUME NEW c \in CPUs, sched(c) PROVE FlagsOK'
  <2>1. /\ ~intr[c] /\ held[c] = {ptable_lock} /\ UNCHANGED <<held, intr, intena>>
        /\ on[c] # c /\ cur' = [cur EXCEPT ![c] = Top(stack[c])]
    BY <1>10, SchedStep, ZenonT(40)
  <2>2. Top(stack[c]).pc = "run" /\ Top(stack[c]).kind = "scheduler"
    BY <2>1, SchedulerTop
  <2>3. Moves(c, "scheduler", "run")
    <3>1. Moves(c, Top(stack[c]).kind, Top(stack[c]).pc)
      BY <2>1, FrameMoves, ZenonT(40)
    <3>2. QED
      BY <2>2, <3>1
  <2>4. FlagOK(c)'
    BY <2>1, <2>3 DEF FlagOK, Free, Moves
  <2>5. QED
    BY <1>o, <2>1, <2>3, <2>4
<1>11. ASSUME NEW c \in CPUs, NEW t \in Threads, swtch(c, t) PROVE FlagsOK'
  <2> DEFINE f == Top(stack[t])
  <2>1. Moves(c, f.kind, "run")
    BY <1>11, SwtchMoves, ZenonT(40)
  <2>2. /\ held[c] = {ptable_lock} /\ UNCHANGED <<held, intr>> /\ Switched(f)
        /\ intena' = [intena EXCEPT ![c] = Restored(c, f)]
    BY <1>11, SwtchStep
  <2> HIDE DEF f
  <2>3. intena'[c] = Restored(c, f) /\ \A d \in CPUs \ {c} : intena'[d] = intena[d]
    BY <2>2 DEF TypeOK
  <2>4. ~intr[c]
    BY <1>w, <2>2 DEF FlagOK, Free
  <2>5. (f.kind = "thread" => intena'[c]) /\ (f.kind = "trap" => ~intena'[c])
    BY <2>2, <2>3 DEF Switched, Restored
  <2>6. FlagOK(c)'
    BY <2>1, <2>2, <2>4, <2>5 DEF FlagOK, Free, Moves
  <2>7. QED
    BY <1>o, <2>1, <2>2, <2>3, <2>6
<1>12. QED
  BY <1>1, <1>2, <1>3, <1>4, <1>5, <1>6, <1>7, <1>8, <1>9, <1>10, <1>11 DEF SpinNext

=============================================================================
