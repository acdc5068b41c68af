--------------------------- MODULE SpinLockProofs ---------------------------
(***************************************************************************)
(* Every step of SpinLock keeps the stacks and the counts of the inductive *)
(* invariant, and the theorems that follow from it.                        *)
(***************************************************************************)
EXTENDS SpinLockInv, Counting

\* What is at a place of a stack after a push, and after a pop.
LEMMA PushAt ==
  ASSUME NEW s \in Seq(Frames), NEW f \in Frames, NEW k \in 1..Len(Append(s, f))
  PROVE  \/ k \in 1..Len(s) /\ Append(s, f)[k] = s[k]
         \/ k = Len(s) + 1 /\ Append(s, f)[k] = f
OBVIOUS

LEMMA PopAt ==
  ASSUME NEW s \in Seq(Frames), Len(s) > 0, NEW k \in 1..Len(Popped(s))
  PROVE  k \in 1..Len(s) /\ k < Len(s) /\ Popped(s)[k] = s[k]
<1>1. k \in 1..(Len(s) - 1) /\ Len(s) \in Nat
  BY Pop
<1>2. Popped(s)[k] = s[k]
  BY <1>1, Pop
<1>3. QED
  BY <1>1, <1>2

\* Every step keeps StacksOK: a frame put aside is one that may be returned to.
LEMMA StacksNext ==
  ASSUME IInv, SpinNext
  PROVE  StacksOK'
\* A step that switches to no other context and leaves the stacks alone.
<1>StacksKept. ASSUME NEW c \in CPUs, NEW pc, Moves(c, cur[c].kind, pc),
                      UNCHANGED <<on, stack>>
               PROVE  StacksOK'
  <2> USE <1>StacksKept
  <2>1. \A d \in CPUs : cur'[d].kind = cur[d].kind
    BY DEF Moves
  <2>2. \A d \in CPUs : SchedulerStack(d)'
    BY ZenonT(40) DEF IInv, StacksOK, SchedulerStack
  <2>3. \A t \in Threads : ThreadStack(t)'
    BY DEF IInv, StacksOK, ThreadStack, Off
  <2>4. \A d \in CPUs : Returns(cur'[d], Len(stack[on[d]]) + 1)
    BY <2>1, ZenonT(40) DEF IInv, StacksOK, Returns
  <2>5. QED
    BY <2>1, <2>2, <2>3, <2>4 DEF IInv, StacksOK
<1> TypeOK /\ StacksOK
  BY DEF IInv
<1>1. ASSUME NEW c \in CPUs, NEW l \in Locks, acquire(c, l) PROVE StacksOK'
  <2>1. Moves(c, cur[c].kind, "pushcli") /\ UNCHANGED <<on, stack>>
    BY <1>1, FlagMoves, ZenonT(40) DEF acquire
  <2>2. QED
    BY <2>1, <1>StacksKept
<1>2. ASSUME NEW c \in CPUs, NEW l \in Locks, release(c, l) PROVE StacksOK'
  <2>1. cur' = [cur EXCEPT ![c].pc = "movl", ![c].lk = l] /\ UNCHANGED <<on, stack>>
    BY <1>2, ReleaseStep
  <2>2. Moves(c, cur[c].kind, "movl")
    BY <2>1, CallMoves, ZenonT(40)
  <2>3. QED
    BY <2>1, <2>2, <1>StacksKept
<1>3. ASSUME NEW c \in CPUs, scheduler(c) PROVE StacksOK'
  <2>1. Moves(c, cur[c].kind, "pushcli") /\ UNCHANGED <<on, stack>>
    BY <1>3, FlagMoves, ZenonT(40) DEF scheduler
  <2>2. QED
    BY <2>1, <1>StacksKept
<1>4. ASSUME NEW c \in CPUs, pushcli(c) PROVE StacksOK'
  <2>1. cur' = [cur EXCEPT ![c].pc = "xchg"] /\ UNCHANGED <<on, stack>>
    BY <1>4, PushcliStep
  <2>2. Moves(c, cur[c].kind, "xchg")
    BY <2>1, GotoMoves, ZenonT(40)
  <2>3. QED
    BY <2>1, <2>2, <1>StacksKept
<1>5. ASSUME NEW c \in CPUs, xchg(c) PROVE StacksOK'
  <2>1. Moves(c, cur[c].kind, "mycpu") /\ UNCHANGED <<on, stack>>
    BY <1>5, GotoMoves, ZenonT(40) DEF xchg, Goto
  <2>2. QED
    BY <2>1, <1>StacksKept
<1>6. ASSUME NEW c \in CPUs, mark(c) PROVE StacksOK'
  <2>1. Moves(c, cur[c].kind, "run") /\ UNCHANGED <<on, stack>>
    BY <1>6, MarkStep, ReturnMoves, ZenonT(40)
  <2>2. QED
    BY <2>1, <1>StacksKept
<1>7. ASSUME NEW c \in CPUs, popcli(c) PROVE StacksOK'
  <2>1. Moves(c, cur[c].kind, "run") /\ UNCHANGED <<on, stack>>
    BY <1>7, PopcliStep, ReturnMoves, ZenonT(40)
  <2>2. QED
    BY <2>1, <1>StacksKept
<1>8. ASSUME NEW c \in CPUs, interrupt(c) PROVE StacksOK'
  <2> DEFINE s == stack[on[c]]
             u == Append(s, cur[c])
  <2>1. s \in Seq(Frames) /\ cur[c] \in Frames /\ on[c] \in Contexts
    BY DEF TypeOK
  <2>2. u \in Seq(Frames) /\ Len(u) = Len(s) + 1 /\ u[Len(s) + 1] = cur[c] /\ \A k \in 1..Len(s) : u[k] = s[k]
    BY <2>1, Push
  <2>3. stack'[on[c]] = u /\ \A x \in Contexts \ {on[c]} : stack'[x] = stack[x]
    BY <1>8, <2>1 DEF interrupt, TypeOK
  <2>4. on' = on /\ Moves(c, "trap", "run")
    BY <1>8, InterruptMoves, ZenonT(40) DEF interrupt
  <2>5. Interrupted(cur[c]) /\ cur[c].kind # "trap"
    BY <1>8, ZenonT(40) DEF interrupt, IInv, FlagsOK, FlagOK, Free, Interrupted
  <2>6. ASSUME NEW d \in CPUs
        PROVE  /\ on'[d] \in Threads \cup {d}
               /\ cur'[d].kind \in IF on'[d] = d THEN {"scheduler", "trap"} ELSE {"thread", "trap", "forkret"}
               /\ Returns(cur'[d], Len(stack'[on'[d]]) + 1)
    <3>1. CASE d = c
      BY <2>1, <2>2, <2>3, <2>4, <3>1 DEF StacksOK, Moves, Returns
    <3>2. CASE d # c
      <4>1. on[d] # on[c] /\ on[d] \in Contexts
        BY <3>2 DEF StacksOK, TypeOK
      <4>2. QED
        BY <2>3, <2>4, <3>2, <4>1 DEF StacksOK, Moves
    <3>3. QED
      BY <3>1, <3>2, ZenonT(40)
  <2>7. ASSUME NEW d \in CPUs PROVE SchedulerStack(d)'
    <3>1. CASE d = on[c]
      <4>1. on[c] = c /\ d = c
        BY <3>1, SpinLockAssumption DEF StacksOK
      <4>2. cur[c].kind = "scheduler"
        BY <2>5, <4>1 DEF StacksOK
      <4>3. \A k \in 1..Len(s) : Interrupted(s[k]) /\ s[k].kind = "scheduler"
        BY <4>1 DEF StacksOK, SchedulerStack
      <4>4. \A k \in 1..Len(u) : Interrupted(u[k]) /\ u[k].kind = "scheduler"
        BY <2>1, <2>2, <2>5, <4>2, <4>3
      <4>5. QED
        BY <2>3, <2>4, <4>1, <4>4 DEF SchedulerStack
    <3>2. CASE d # on[c]
      BY <2>3, <2>4, <3>2 DEF StacksOK, SchedulerStack, Contexts
    <3>3. QED
      BY <3>1, <3>2
  <2>8. ASSUME NEW t \in Threads PROVE ThreadStack(t)'
    <3>1. CASE t = on[c]
      <4>1. ~Off(t) /\ ~Off(t)' /\ on[c] # c
        BY <2>4, <3>1, SpinLockAssumption DEF Off
      <4>2. cur[c].kind \in {"thread", "forkret"} /\ Returns(cur[c], Len(s) + 1)
        BY <2>5, <4>1, ZenonT(40) DEF StacksOK
      <4>3. \A k \in 1..Len(s) : Returns(s[k], k) /\ Interrupted(s[k]) /\ s[k].kind \in {"thread", "forkret"}
        BY <3>1, <4>1, ZenonT(40) DEF StacksOK, ThreadStack
      <4>4. \A k \in 1..Len(u) : Returns(u[k], k) /\ Interrupted(u[k]) /\ u[k].kind \in {"thread", "forkret"}
        BY <2>1, <2>2, <2>5, <4>2, <4>3
      <4>5. QED
        BY <2>3, <3>1, <4>1, <4>4, ZenonT(40) DEF ThreadStack
    <3>2. CASE t # on[c]
      <4>1. stack'[t] = stack[t] /\ (Off(t)' <=> Off(t))
        BY <2>3, <2>4, <3>2 DEF Off, Contexts
      <4>2. QED
        BY <4>1 DEF StacksOK, ThreadStack
    <3>3. QED
      BY <3>1, <3>2
  <2>9. QED
    BY <2>4, <2>6, <2>7, <2>8 DEF StacksOK
<1>9. ASSUME NEW c \in CPUs, iret(c) PROVE StacksOK'
  <2> DEFINE s == stack[on[c]]
             u == Popped(s)
  <2>1. /\ s \in Seq(Frames) /\ Len(s) > 0 /\ Interrupted(Top(s)) /\ on[c] \in Contexts
        /\ Top(s).kind \in IF on[c] = c THEN {"scheduler"} ELSE {"thread", "forkret"}
        /\ Returns(Top(s), Len(s))
    BY <1>9, StackTop, ZenonT(40) DEF TypeOK
  <2>2. u \in Seq(Frames) /\ Len(u) = Len(s) - 1 /\ \A k \in 1..(Len(s) - 1) : u[k] = s[k]
    BY <2>1, Pop
  <2>3. stack'[on[c]] = u /\ \A x \in Contexts \ {on[c]} : stack'[x] = stack[x]
    BY <1>9, <2>1 DEF iret, TypeOK
  <2>4. on' = on /\ cur'[c] = Top(s) /\ \A d \in CPUs \ {c} : cur'[d] = cur[d]
    BY <1>9 DEF iret, TypeOK
  <2>5. ASSUME NEW d \in CPUs
        PROVE  /\ on'[d] \in Threads \cup {d}
               /\ cur'[d].kind \in IF on'[d] = d THEN {"scheduler", "trap"} ELSE {"thread", "trap", "forkret"}
               /\ Returns(cur'[d], Len(stack'[on'[d]]) + 1)
    <3>1. CASE d = c
      <4>1. Len(stack'[on'[d]]) + 1 = Len(s)
        BY <2>1, <2>2, <2>3, <2>4, <3>1
      <4>2. QED
        BY <2>1, <2>4, <3>1, <4>1, ZenonT(40) DEF StacksOK
    <3>2. CASE d # c
      <4>1. on[d] # on[c] /\ on[d] \in Contexts
        BY <3>2 DEF StacksOK, TypeOK
      <4>2. QED
        BY <2>3, <2>4, <3>2, <4>1, ZenonT(40) DEF StacksOK
    <3>3. QED
      BY <3>1, <3>2
  <2>6. ASSUME NEW d \in CPUs PROVE SchedulerStack(d)'
    <3>1. CASE d = on[c]
      <4>1. on[c] = c /\ d = c
        BY <3>1, SpinLockAssumption DEF StacksOK
      <4>2. \A k \in 1..Len(s) : Interrupted(s[k]) /\ s[k].kind = "scheduler"
        BY <4>1 DEF StacksOK, SchedulerStack
      <4>3. ASSUME NEW k \in 1..Len(u) PROVE Interrupted(u[k]) /\ u[k].kind = "scheduler"
        <5>1. k \in 1..Len(s) /\ u[k] = s[k]
          BY <2>1, PopAt
        <5>2. QED
          BY <4>2, <5>1, ZenonT(40)
      <4>4. QED
        BY <2>3, <2>4, <4>1, <4>3, ZenonT(40) DEF SchedulerStack
    <3>2. CASE d # on[c]
      BY <2>3, <2>4, <3>2 DEF StacksOK, SchedulerStack, Contexts
    <3>3. QED
      BY <3>1, <3>2
  <2>7. ASSUME NEW t \in Threads PROVE ThreadStack(t)'
    <3>1. CASE t = on[c]
      <4>1. ~Off(t) /\ ~Off(t)'
        BY <2>4, <3>1, ZenonT(40) DEF Off
      <4>2. \A k \in 1..Len(s) : Returns(s[k], k) /\ Interrupted(s[k]) /\ s[k].kind \in {"thread", "forkret"}
        BY <3>1, <4>1, ZenonT(40) DEF StacksOK, ThreadStack
      <4>3. \A k \in 1..Len(u) : Returns(u[k], k) /\ Interrupted(u[k]) /\ u[k].kind \in {"thread", "forkret"}
        BY <2>1, <4>2, PopAt, ZenonT(40)
      <4>4. QED
        BY <2>3, <3>1, <4>1, <4>3, ZenonT(40) DEF ThreadStack
    <3>2. CASE t # on[c]
      <4>1. stack'[t] = stack[t] /\ (Off(t)' <=> Off(t))
        BY <2>3, <2>4, <3>2 DEF Off, Contexts
      <4>2. QED
        BY <4>1 DEF StacksOK, ThreadStack
    <3>3. QED
      BY <3>1, <3>2
  <2>8. QED
    BY <2>4, <2>5, <2>6, <2>7 DEF StacksOK
<1>10. ASSUME NEW c \in CPUs, sched(c) PROVE StacksOK'
  <2> DEFINE f == [cur[c] EXCEPT !.pc = "swtch", !.intena = intena[c]]
  <2>1. /\ on[c] \in Threads /\ on[c] # c /\ held[c] = {ptable_lock} /\ f \in Frames /\ Len(stack[c]) > 0
        /\ stack' = [x \in Contexts |-> IF x = c THEN Popped(stack[c])
                                        ELSE IF x = on[c] THEN Append(stack[x], f) ELSE stack[x]]
        /\ cur' = [cur EXCEPT ![c] = Top(stack[c])] /\ on' = [on EXCEPT ![c] = c]
    BY <1>10, SchedStep, ZenonT(40)
  <2>0. PICK t \in Threads : t = on[c]
    BY <2>1
  <2> DEFINE s == stack[t]
             u == Append(s, f)
  <2>2. f.pc = "swtch" /\ f.kind = cur[c].kind /\ f.intena = intena[c]
    BY DEF TypeOK, Frames
  <2> HIDE DEF f
  <2>3. s \in Seq(Frames) /\ stack[c] \in Seq(Frames) /\ t \in Contexts /\ c \in Contexts
    BY ZenonT(40) DEF TypeOK, Contexts
  <2>4. stack'[t] = u /\ stack'[c] = Popped(stack[c]) /\ \A x \in Contexts \ {c, t} : stack'[x] = stack[x]
    BY <2>0, <2>1, <2>3
  <2>5. u \in Seq(Frames) /\ Len(u) = Len(s) + 1 /\ u[Len(s) + 1] = f /\ \A k \in 1..Len(s) : u[k] = s[k]
    BY <2>1, <2>3, Push, ZenonT(40)
  <2>6. /\ Popped(stack[c]) \in Seq(Frames) /\ Len(Popped(stack[c])) = Len(stack[c]) - 1
        /\ \A k \in 1..(Len(stack[c]) - 1) : Popped(stack[c])[k] = stack[c][k]
    BY <2>1, <2>3, Pop, ZenonT(40)
  <2>7. /\ on'[c] = c /\ cur'[c] = Top(stack[c])
        /\ \A d \in CPUs \ {c} : on'[d] = on[d] /\ cur'[d] = cur[d] /\ on[d] # t /\ on[d] # c
    <3>1. \A d \in CPUs \ {c} : on[d] # t /\ on[d] # c
      BY <2>0, <2>1, SpinLockAssumption DEF StacksOK
    <3>2. QED
      BY <2>1, <3>1, ZenonT(40) DEF TypeOK
  <2>8. cur'[c].kind = "scheduler"
    BY <2>1, <2>7, SchedulerTop
  <2>9. ASSUME NEW d \in CPUs
        PROVE  /\ on'[d] \in Threads \cup {d}
               /\ cur'[d].kind \in IF on'[d] = d THEN {"scheduler", "trap"} ELSE {"thread", "trap", "forkret"}
               /\ Returns(cur'[d], Len(stack'[on'[d]]) + 1)
    <3>1. CASE d = c
      BY <2>7, <2>8, <3>1 DEF Returns
    <3>2. CASE d # c
      <4>1. stack'[on'[d]] = stack[on[d]]
        BY <2>4, <2>7, <3>2 DEF TypeOK
      <4>2. QED
        BY <2>7, <3>2, <4>1, ZenonT(40) DEF StacksOK
    <3>3. QED
      BY <3>1, <3>2, ZenonT(40)
  <2>10. ASSUME NEW d \in CPUs PROVE SchedulerStack(d)'
    <3>1. CASE d = c
      <4>1. \A k \in 1..Len(stack[c]) : Interrupted(stack[c][k]) /\ stack[c][k].kind = "scheduler"
        BY ZenonT(40) DEF StacksOK, SchedulerStack
      <4>2. ASSUME NEW k \in 1..Len(stack'[c])
            PROVE  Interrupted(stack'[c][k]) /\ stack'[c][k].kind = "scheduler"
        <5>1. k \in 1..Len(Popped(stack[c]))
          BY <2>4, ZenonT(40)
        <5>2. k \in 1..Len(stack[c]) /\ Popped(stack[c])[k] = stack[c][k]
          BY <2>1, <2>3, <5>1, PopAt, ZenonT(40)
        <5>3. QED
          BY <2>4, <4>1, <5>2, ZenonT(40)
      <4>3. QED
        BY <2>7, <3>1, <4>2, ZenonT(40) DEF SchedulerStack
    <3>2. CASE d # c
      <4>1. stack'[d] = stack[d] /\ on'[d] = on[d]
        BY <2>1, <2>4, <2>7, <3>2, SpinLockAssumption, ZenonT(40) DEF Contexts
      <4>2. QED
        BY <4>1 DEF StacksOK, SchedulerStack
    <3>3. QED
      BY <3>1, <3>2
  <2>11. ThreadStack(t)'
    <3>1. ~Off(t) /\ Off(t)'
      BY <2>0, <2>7, SpinLockAssumption DEF Off
    <3>2. \A k \in 1..Len(s) : Returns(s[k], k) /\ Interrupted(s[k]) /\ s[k].kind \in {"thread", "forkret"}
      BY <2>1, <3>1, ZenonT(40) DEF StacksOK, ThreadStack
    <3>3. Returns(f, Len(s) + 1) /\ cur[c].kind \in {"thread", "trap", "forkret"}
      BY <2>0, <2>1, <2>2, ZenonT(40) DEF StacksOK, Returns
    <3>4. Switched(f)
      <4>1. ~Free(c) /\ FlagOK(c)
        BY <2>1, ZenonT(40) DEF Free, IInv, FlagsOK
      <4>2. QED
        BY <2>2, <3>3, <4>1, ZenonT(40) DEF Switched, FlagOK
    <3>5. Top(u) = f
      BY <2>5 DEF Top
    <3>6. \A k \in 1..Len(u) : /\ Returns(u[k], k)
                               /\ k < Len(u) => Interrupted(u[k]) /\ u[k].kind \in {"thread", "forkret"}
      BY <2>3, <2>5, <3>2, <3>3
    <3>7. Len(u) > 0
      BY <2>3, <2>5
    <3>8. QED
      BY <2>4, <3>1, <3>4, <3>5, <3>6, <3>7, ZenonT(40) DEF ThreadStack
  <2>12. ASSUME NEW v \in Threads, v # t PROVE ThreadStack(v)'
    <3>1. stack'[v] = stack[v] /\ (Off(v)' <=> Off(v))
      BY <2>0, <2>4, <2>7, <2>12, SpinLockAssumption, ZenonT(40) DEF Off, Contexts
    <3>2. QED
      BY <3>1, ZenonT(40) DEF StacksOK, ThreadStack
  <2>13. ASSUME NEW d \in CPUs, NEW e \in CPUs, on'[d] = on'[e] PROVE d = e
    BY <2>7, <2>13 DEF StacksOK
  <2>14. QED
    BY <2>9, <2>10, <2>11, <2>12, <2>13 DEF StacksOK
<1>11. ASSUME NEW c \in CPUs, NEW t \in Threads, swtch(c, t) PROVE StacksOK'
  <2> DEFINE s == stack[t]
             f == Top(s)
             u == Append(stack[c], cur[c])
  <2>1. /\ on[c] = c /\ cur[c].kind = "scheduler" /\ cur[c].pc = "run" /\ Off(t) /\ t # c
        /\ Len(s) > 0 /\ Switched(f)
        /\ stack' = [x \in Contexts |-> IF x = t THEN Popped(s)
                                        ELSE IF x = c THEN u ELSE stack[x]]
        /\ cur' = [cur EXCEPT ![c] = Frame(f.kind, "run")] /\ on' = [on EXCEPT ![c] = t]
    BY <1>11, SwtchStep
  <2>2. s \in Seq(Frames) /\ stack[c] \in Seq(Frames) /\ t \in Contexts /\ c \in Contexts /\ cur[c] \in Frames
    BY DEF TypeOK, Contexts
  <2>3. stack'[t] = Popped(s) /\ stack'[c] = u /\ \A x \in Contexts \ {c, t} : stack'[x] = stack[x]
    BY <2>1, <2>2
  <2>4. /\ u \in Seq(Frames) /\ Len(u) = Len(stack[c]) + 1 /\ u[Len(stack[c]) + 1] = cur[c]
        /\ \A k \in 1..Len(stack[c]) : u[k] = stack[c][k]
    BY <2>2, Push, ZenonT(40)
  <2>5. Popped(s) \in Seq(Frames) /\ Len(Popped(s)) = Len(s) - 1 /\ \A k \in 1..(Len(s) - 1) : Popped(s)[k] = s[k]
    BY <2>1, <2>2, Pop, ZenonT(40)
  <2>6. /\ on'[c] = t /\ cur'[c].kind = f.kind
        /\ \A d \in CPUs \ {c} : on'[d] = on[d] /\ cur'[d] = cur[d] /\ on[d] # t /\ on[d] # c
    <3>1. \A d \in CPUs \ {c} : on[d] # t /\ on[d] # c
      BY <2>1 DEF StacksOK, Off
    <3>2. cur'[c] = Frame(f.kind, "run") /\ on'[c] = t
      BY <2>1 DEF TypeOK
    <3>3. \A d \in CPUs \ {c} : on'[d] = on[d] /\ cur'[d] = cur[d]
      BY <2>1 DEF TypeOK
    <3>4. QED
      BY <3>1, <3>2, <3>3 DEF Frame
  <2>7. Returns(f, Len(s)) /\ \A k \in 1..(Len(s) - 1) : Returns(s[k], k) /\ Interrupted(s[k]) /\ s[k].kind \in {"thread", "forkret"}
    <3>1. Len(s) \in 1..Len(s) /\ \A k \in 1..(Len(s) - 1) : k \in 1..Len(s) /\ k < Len(s)
      BY <2>1, <2>2
    <3>2. QED
      BY <3>1, ZenonT(40) DEF StacksOK, ThreadStack, Top
  <2>8. ASSUME NEW d \in CPUs
        PROVE  /\ on'[d] \in Threads \cup {d}
               /\ cur'[d].kind \in IF on'[d] = d THEN {"scheduler", "trap"} ELSE {"thread", "trap", "forkret"}
               /\ Returns(cur'[d], Len(stack'[on'[d]]) + 1)
    <3>1. CASE d = c
      <4>1. Len(stack'[on'[d]]) + 1 = Len(s)
        BY <2>2, <2>3, <2>5, <2>6, <3>1
      <4>2. f.kind \in {"thread", "trap", "forkret"}
        BY <2>1 DEF Switched
      <4>3. QED
        BY <2>1, <2>6, <2>7, <3>1, <4>1, <4>2, ZenonT(40) DEF Returns
    <3>2. CASE d # c
      <4>1. stack'[on'[d]] = stack[on[d]]
        BY <2>3, <2>6, <3>2, ZenonT(40) DEF TypeOK
      <4>2. QED
        BY <2>6, <3>2, <4>1, ZenonT(40) DEF StacksOK
    <3>3. QED
      BY <3>1, <3>2
  <2>9. ASSUME NEW d \in CPUs PROVE SchedulerStack(d)'
    <3>1. CASE d = c
      <4>1. \A k \in 1..Len(stack[c]) : Interrupted(stack[c][k]) /\ stack[c][k].kind = "scheduler"
        BY DEF StacksOK, SchedulerStack
      <4>2. Interrupted(cur[c])
        BY <2>1, ZenonT(40) DEF Interrupted
      <4>3. ASSUME NEW k \in 1..Len(u) PROVE Interrupted(u[k]) /\ u[k].kind = "scheduler"
        <5>1. (k \in 1..Len(stack[c]) /\ u[k] = stack[c][k]) \/ u[k] = cur[c]
          BY <2>2, PushAt, ZenonT(40)
        <5>2. QED
          BY <2>1, <4>1, <4>2, <5>1, ZenonT(40)
      <4>4. Len(u) > 0 /\ Top(u).pc = "run"
        BY <2>1, <2>2, <2>4 DEF Top
      <4>5. QED
        BY <2>3, <3>1, <4>3, <4>4, ZenonT(40) DEF SchedulerStack
    <3>2. CASE d # c
      <4>1. stack'[d] = stack[d] /\ on'[d] = on[d]
        BY <2>3, <2>6, <3>2, SpinLockAssumption DEF Contexts
      <4>2. QED
        BY <4>1 DEF StacksOK, SchedulerStack
    <3>3. QED
      BY <3>1, <3>2
  <2>10. ThreadStack(t)'
    <3>1. ~Off(t)'
      BY <2>6, ZenonT(40) DEF Off
    <3>2. \A k \in 1..Len(stack'[t]) : /\ Returns(stack'[t][k], k)
                                       /\ Interrupted(stack'[t][k]) /\ stack'[t][k].kind \in {"thread", "forkret"}
      BY <2>2, <2>3, <2>5, <2>7, ZenonT(40)
    <3>3. QED
      BY <3>1, <3>2, ZenonT(40) DEF ThreadStack
  <2>11. ASSUME NEW v \in Threads, v # t PROVE ThreadStack(v)'
    <3>1. stack'[v] = stack[v] /\ (Off(v)' <=> Off(v))
      BY <2>1, <2>3, <2>6, <2>11, SpinLockAssumption DEF Off, Contexts
    <3>2. QED
      BY <3>1, ZenonT(40) DEF StacksOK, ThreadStack
  <2>12. ASSUME NEW d \in CPUs, NEW e \in CPUs, on'[d] = on'[e] PROVE d = e
    BY <2>6, <2>12 DEF StacksOK
  <2>13. QED
    BY <2>8, <2>9, <2>10, <2>11, <2>12, ZenonT(40) DEF StacksOK
<1>12. QED
  BY <1>1, <1>2, <1>3, <1>4, <1>5, <1>6, <1>7, <1>8, <1>9, <1>10, <1>11 DEF SpinNext

-----------------------------------------------------------------------------
(* The counts, and the theorems.                                           *)

\* So the tests of ncli are right after every step.
LEMMA CountsNext ==
  ASSUME CountEmpty, CountAdd, CountRemove, IInv, SpinNext
  PROVE  CountsOK'
\* What the number of elements of a set says of it.
<1>CountTested. ASSUME NEW S, IsFiniteSet(S), NEW pending \in {0, 1}
                PROVE  Tested(S, Cardinality(S) + pending, pending)
  <2> USE <1>CountTested
  <2>1. Cardinality(S) \in Nat /\ (Cardinality(S) = 0 <=> S = {})
    BY DEF CountEmpty
  <2>2. ASSUME NEW l \in S PROVE Cardinality(S) = 1 <=> S = {l}
    <3>1. IsFiniteSet(S \ {l}) /\ Cardinality(S \ {l}) = Cardinality(S) - 1
      BY DEF CountRemove
    <3>2. Cardinality(S \ {l}) = 0 <=> S \ {l} = {}
      BY <3>1, ZenonT(40) DEF CountEmpty
    <3>3. S \ {l} = {} <=> S = {l}
      OBVIOUS
    <3>4. QED
      BY <2>1, <3>1, <3>2, <3>3
  <2>3. QED
    BY <2>1, <2>2 DEF Tested
\* Every step keeps Sums: ncli is the number of locks held or about to be.
<1>SumsNext. Sums'
  <2> TypeOK /\ Sums
    BY DEF IInv, CountsOK
  <2>k. ASSUME NEW c \in CPUs, NEW kind, NEW pc, Moves(c, kind, pc), UNCHANGED <<held, ncli>>,
               cur[c].pc \in {"run", "pushcli"}, pc \in {"run", "pushcli", "movl"}
        PROVE  Sums'
    BY <2>k DEF Sums, Pending, Moves
  <2>1. ASSUME NEW c \in CPUs, NEW l \in Locks, acquire(c, l) PROVE Sums'
    <3>1. Moves(c, cur[c].kind, "pushcli") /\ cur[c].pc = "run" /\ UNCHANGED <<held, ncli>>
      BY <2>1, FlagMoves, ZenonT(40) DEF acquire
    <3>2. QED
      BY <2>k, <3>1
  <2>2. ASSUME NEW c \in CPUs, NEW l \in Locks, release(c, l) PROVE Sums'
    <3>1. /\ cur[c].pc = "run" /\ cur' = [cur EXCEPT ![c].pc = "movl", ![c].lk = l]
          /\ UNCHANGED <<held, ncli>>
      BY <2>2, ReleaseStep
    <3>2. QED
      BY <3>1, <2>k, CallMoves, ZenonT(40)
  <2>3. ASSUME NEW c \in CPUs, scheduler(c) PROVE Sums'
    BY <2>3, <2>k, FlagMoves, ZenonT(40) DEF scheduler
  <2>4. ASSUME NEW c \in CPUs, pushcli(c) PROVE Sums'
    <3>1. Moves(c, cur[c].kind, "xchg")
      BY <2>4, PushcliStep, GotoMoves, ZenonT(40)
    <3>2. cur[c].pc = "pushcli" /\ ncli' = [ncli EXCEPT ![c] = ncli[c] + 1] /\ held' = held
      BY <2>4, PushcliStep
    <3>3. ASSUME NEW d \in CPUs PROVE IsFiniteSet(held'[d]) /\ ncli'[d] = Cardinality(held'[d]) + Pending(d)'
      <4>1. IsFiniteSet(held[d]) /\ ncli[d] = Cardinality(held[d]) + Pending(d) /\ Cardinality(held[d]) \in Nat
        BY DEF Sums, CountEmpty
      <4>2. QED
        BY <3>1, <3>2, <4>1 DEF Pending, Moves, TypeOK
    <3>4. QED
      BY <3>3 DEF Sums
  <2>5. ASSUME NEW c \in CPUs, xchg(c) PROVE Sums'
    <3>1. Moves(c, cur[c].kind, "mycpu") /\ cur[c].pc = "xchg" /\ UNCHANGED <<held, ncli>>
      BY <2>5, GotoMoves, ZenonT(40) DEF xchg, Goto
    <3>2. QED
      BY <3>1, ZenonT(40) DEF Sums, Pending, Moves
  <2>6. ASSUME NEW c \in CPUs, mark(c) PROVE Sums'
    <3>1. Moves(c, cur[c].kind, "run")
      BY <2>6, MarkStep, ReturnMoves
    <3>2. /\ cur[c].pc = "mycpu" /\ cur[c].lk \notin held[c]
          /\ held' = [held EXCEPT ![c] = held[c] \cup {cur[c].lk}] /\ ncli' = ncli
      BY <2>6, MarkStep, ZenonT(40) DEF IInv, LocksOK, LockOK
    <3>3. ASSUME NEW d \in CPUs PROVE IsFiniteSet(held'[d]) /\ ncli'[d] = Cardinality(held'[d]) + Pending(d)'
      <4>1. IsFiniteSet(held[d]) /\ ncli[d] = Cardinality(held[d]) + Pending(d) /\ Cardinality(held[d]) \in Nat
        BY DEF Sums, CountEmpty
      <4>2. /\ IsFiniteSet(held[d] \cup {cur[c].lk})
            /\ cur[c].lk \notin held[d] => Cardinality(held[d] \cup {cur[c].lk}) = Cardinality(held[d]) + 1
        BY <4>1, ZenonT(40) DEF CountAdd
      <4>3. CASE d = c
        BY <3>1, <3>2, <4>1, <4>2, <4>3 DEF Pending, Moves, TypeOK
      <4>4. CASE d # c
        <5>1. held'[d] = held[d] /\ ncli'[d] = ncli[d] /\ Pending(d)' = Pending(d)
          BY <3>1, <3>2, <4>4 DEF Pending, Moves, TypeOK
        <5>2. QED
          BY <4>1, <5>1
      <4>5. QED
        BY <4>3, <4>4
    <3>4. QED
      BY <3>3 DEF Sums
  <2>7. ASSUME NEW c \in CPUs, popcli(c) PROVE Sums'
    <3>1. Moves(c, cur[c].kind, "run")
      BY <2>7, PopcliStep, ReturnMoves
    <3>2. /\ cur[c].pc = "movl" /\ cur[c].lk \in held[c]
          /\ held' = [held EXCEPT ![c] = held[c] \ {cur[c].lk}]
          /\ ncli' = [ncli EXCEPT ![c] = ncli[c] - 1]
      BY <2>7, PopcliStep, ZenonT(40) DEF IInv, LocksOK, LockOK
    <3>3. ASSUME NEW d \in CPUs PROVE IsFiniteSet(held'[d]) /\ ncli'[d] = Cardinality(held'[d]) + Pending(d)'
      <4>1. IsFiniteSet(held[d]) /\ ncli[d] = Cardinality(held[d]) + Pending(d) /\ Cardinality(held[d]) \in Nat
        BY DEF Sums, CountEmpty
      <4>2. cur[c].lk \in held[d] =>
              /\ IsFiniteSet(held[d] \ {cur[c].lk})
              /\ Cardinality(held[d] \ {cur[c].lk}) = Cardinality(held[d]) - 1
        BY <4>1, ZenonT(40) DEF CountRemove
      <4>3. CASE d = c
        <5>1. held'[d] = held[d] \ {cur[c].lk} /\ ncli'[d] = ncli[d] - 1
          BY <3>2, <4>3 DEF TypeOK
        <5>2. Pending(d) = 0 /\ Pending(d)' = 0
          BY <3>1, <3>2, <4>3 DEF Pending, Moves
        <5>3. cur[c].lk \in held[d]
          BY <3>2, <4>3
        <5>4. IsFiniteSet(held'[d]) /\ Cardinality(held'[d]) = Cardinality(held[d]) - 1
          BY <4>2, <5>1, <5>3, ZenonT(40)
        <5>5. ncli[d] = Cardinality(held[d])
          BY <4>1, <5>2
        <5>6. QED
          BY <4>1, <5>1, <5>2, <5>4, <5>5
      <4>4. CASE d # c
        <5>1. held'[d] = held[d] /\ ncli'[d] = ncli[d] /\ Pending(d)' = Pending(d)
          BY <3>1, <3>2, <4>4 DEF Pending, Moves, TypeOK
        <5>2. QED
          BY <4>1, <5>1
      <4>5. QED
        BY <4>3, <4>4
    <3>4. QED
      BY <3>3 DEF Sums
  <2>8. ASSUME NEW c \in CPUs, interrupt(c) PROVE Sums'
    <3>1. Moves(c, "trap", "run")
      BY <2>8, InterruptMoves
    <3>2. cur[c].pc \in {"run", "pushcli"} /\ UNCHANGED <<held, ncli>>
      BY <2>8, ZenonT(40) DEF interrupt, IInv, FlagsOK, FlagOK, Free
    <3>3. QED
      BY <2>k, <3>1, <3>2
  <2>9. ASSUME NEW c \in CPUs, iret(c) PROVE Sums'
    <3>1. cur'[c] = Top(stack[on[c]]) /\ Moves(c, cur'[c].kind, cur'[c].pc)
      BY <2>9, FrameMoves, ZenonT(40) DEF iret
    <3>2. cur'[c].pc \in {"run", "pushcli"}
      BY <2>9, <3>1, StackTop DEF Interrupted
    <3>3. cur[c].pc = "run" /\ UNCHANGED <<held, ncli>>
      BY <2>9 DEF iret
    <3>4. QED
      BY <2>k, <3>1, <3>2, <3>3
  <2>10. ASSUME NEW c \in CPUs, sched(c) PROVE Sums'
    <3>1. /\ cur[c].pc = "run" /\ UNCHANGED <<held, ncli>>
          /\ on[c] # c /\ cur' = [cur EXCEPT ![c] = Top(stack[c])]
      BY <2>10, SchedStep, ZenonT(40)
    <3>2. Top(stack[c]).pc = "run"
      BY <3>1 DEF IInv, StacksOK, SchedulerStack
    <3>3. Moves(c, Top(stack[c]).kind, "run")
      BY <3>1, <3>2, FrameMoves, ZenonT(40)
    <3>4. QED
      BY <2>k, <3>1, <3>3
  <2>11. ASSUME NEW c \in CPUs, NEW t \in Threads, swtch(c, t) PROVE Sums'
    <3>1. Moves(c, Top(stack[t]).kind, "run") /\ cur[c].pc = "run" /\ UNCHANGED <<held, ncli>>
      BY <2>11, SwtchMoves, SwtchStep, ZenonT(40)
    <3>2. QED
      BY <2>k, <3>1
  <2>12. QED
    BY <2>1, <2>2, <2>3, <2>4, <2>5, <2>6, <2>7, <2>8, <2>9, <2>10, <2>11, ZenonT(40) DEF SpinNext
<1>1. Sums'
  BY <1>SumsNext
<1>2. ASSUME NEW c \in CPUs PROVE Tested(held'[c], ncli'[c], Pending(c)')
  <2>1. IsFiniteSet(held'[c]) /\ ncli'[c] = Cardinality(held'[c]) + Pending(c)'
    BY <1>1 DEF Sums
  <2>2. Pending(c)' \in {0, 1}
    BY DEF Pending
  <2>3. QED
    BY <2>1, <2>2, <1>CountTested
<1>3. QED
  BY <1>1, <1>2 DEF CountsOK

-----------------------------------------------------------------------------
\* The invariant holds at first.
LEMMA InvInit ==
  ASSUME CountEmpty, SpinInit
  PROVE  IInv
<1>1. Frame("scheduler", "run") \in Frames /\ Frame("thread", "run") \in Frames /\ Frame("forkret", "new") \in Frames
  BY FrameType DEF Kinds, PCs
<1>2. NewStack \in Seq(Frames) /\ Len(NewStack) = 2 /\ Top(NewStack) = Frame("forkret", "new")
  BY <1>1 DEF NewStack, Top
<1>3. TypeOK
  BY <1>1, <1>2 DEF SpinInit, TypeOK, Contexts
<1>4. StacksOK
  <2>1. \A c \in CPUs : /\ on[c] = c /\ cur[c] = Frame("scheduler", "run") /\ stack[c] = << >>
    BY SpinLockAssumption DEF SpinInit, Contexts
  <2>2. \A t \in Threads : stack[t] = NewStack /\ Off(t)
    BY SpinLockAssumption DEF SpinInit, Contexts, Off
  <2>3. \A t \in Threads : ThreadStack(t)
    <3>1. Switched(Top(NewStack))
      BY <1>2 DEF Switched, Frame
    <3>2. Returns(NewStack[1], 1) /\ Interrupted(NewStack[1]) /\ NewStack[1].kind = "thread" /\ Returns(NewStack[2], 2)
      BY DEF NewStack, Returns, Interrupted, Frame
    <3>3. \A k \in 1..Len(NewStack) : k = 1 \/ (k = 2 /\ ~(k < Len(NewStack)))
      BY <1>2
    <3>4. ASSUME NEW t \in Threads PROVE ThreadStack(t)
      <4>1. stack[t] = NewStack /\ Off(t)
        BY <2>2
      <4>2. ASSUME NEW k \in 1..Len(stack[t])
            PROVE  /\ Returns(stack[t][k], k)
                   /\ k < Len(stack[t]) => Interrupted(stack[t][k]) /\ stack[t][k].kind = "thread"
        <5>1. CASE k = 1
          BY <3>2, <4>1, <5>1
        <5>2. CASE k # 1
          BY <3>2, <3>3, <4>1, <5>2
        <5>3. QED
          BY <5>1, <5>2
      <4>3. Len(stack[t]) > 0 /\ Switched(Top(stack[t]))
        <5>1. Len(NewStack) > 0
          BY <1>2
        <5>2. QED
          BY <3>1, <4>1, <5>1, ZenonT(40)
      <4>4. QED
        BY <4>1, <4>2, <4>3 DEF ThreadStack
    <3>5. QED
      BY <3>4
  <2>4. QED
    BY <2>1, <2>3 DEF StacksOK, SchedulerStack, Returns, Frame
<1>5. LocksOK
  BY SpinLockAssumption DEF SpinInit, LocksOK, LockOK, Won, Frame
<1>6. CountsOK
  BY DEF CountEmpty, SpinInit, CountsOK, Sums, Tested, Pending, Frame
<1>7. FlagsOK
  BY DEF SpinInit, FlagsOK, FlagOK, Free, Frame
<1>8. QED
  BY <1>3, <1>4, <1>5, <1>6, <1>7 DEF IInv

-----------------------------------------------------------------------------
(* The theorems.                                                           *)

INSTANCE FiniteSetTheorems

\* The facts about finite sets.
LEMMA CountFacts == CountEmpty /\ CountAdd /\ CountRemove
<1>1. CountEmpty
  BY FS_EmptySet, FS_CardinalityType DEF CountEmpty
<1>2. CountAdd
  BY FS_AddElement, ZenonT(40) DEF CountAdd
<1>3. CountRemove
  BY FS_RemoveElement, ZenonT(40) DEF CountRemove
<1>4. QED
  BY <1>1, <1>2, <1>3

\* Every step keeps the invariant.
LEMMA InvNext == IInv /\ [SpinNext]_spinvars => IInv'
<1> SUFFICES ASSUME IInv, [SpinNext]_spinvars PROVE IInv'
  OBVIOUS
<1>1. CASE SpinNext
  <2>1. TypeOK' /\ StacksOK' /\ LocksOK' /\ CountsOK' /\ FlagsOK'
    BY <1>1, CountFacts, TypeNext, StacksNext, LocksNext, CountsNext, FlagsNext, ZenonT(40)
  <2>2. QED
    BY <2>1 DEF IInv
<1>2. CASE UNCHANGED spinvars
  <2>1. TypeOK' /\ FlagsOK'
    BY <1>2, ZenonT(40) DEF spinvars, IInv, TypeOK, FlagsOK, FlagOK, Free
  <2>2. StacksOK'
    BY <1>2 DEF spinvars, IInv, StacksOK, SchedulerStack, ThreadStack, Off
  <2>3. LocksOK'
    BY <1>2, ZenonT(40) DEF spinvars, IInv, LocksOK, LockOK, Won
  <2>4. CountsOK'
    BY <1>2 DEF spinvars, IInv, CountsOK, Sums, Pending
  <2>5. QED
    BY <2>1, <2>2, <2>3, <2>4, ZenonT(40) DEF IInv
<1>3. QED
  BY <1>1, <1>2

\* The inductive invariant.
LEMMA Invariant == SpinSpec => []IInv
<1>1. SpinInit => IInv
  BY CountFacts, InvInit
<1>2. QED
  BY <1>1, InvNext, PTL DEF SpinSpec

\* For any number of CPUs, threads and locks: acquire excludes other CPUs, interrupts
\* are off while a lock is held, and no panic of spinlock.c, mycpu or sched is reached.
THEOREM SpinLocksExclude == SpinSpec => []LocksExclude
<1>1. ASSUME IInv PROVE LocksExclude
  <2>1. \A c \in CPUs : cur[c].pc # "panic"
    BY <1>1, ZenonT(40) DEF IInv, LocksOK, LockOK
  <2>2. \A c \in CPUs : held[c] # {} => ~intr[c]
    BY <1>1 DEF IInv, FlagsOK, FlagOK, Free
  <2>3. \A c, d \in CPUs : c # d => held[c] \cap held[d] = {}
    BY <1>1, ZenonT(40) DEF IInv, LocksOK, Won
  <2>4. QED
    BY <2>1, <2>2, <2>3 DEF LocksExclude
<1>2. QED
  BY <1>1, Invariant, PTL

\* For any number of CPUs, threads and locks: wherever a thread is switched to, the
\* code of an interrupt runs with interrupts off, and a thread without locks with them on.
THEOREM InterruptFlagsKept == SpinSpec => []InterruptsKept
<1>1. ASSUME IInv PROVE InterruptsKept
  BY <1>1 DEF IInv, FlagsOK, FlagOK, Free, InterruptsKept
<1>2. QED
  BY <1>1, Invariant, PTL

=============================================================================
