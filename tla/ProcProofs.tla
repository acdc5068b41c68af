----------------------------- MODULE ProcProofs -----------------------------
(***************************************************************************)
(* Type correctness of Proc, and what each of its actions does to the      *)
(* process table and the CPUs, field by field.  StepKinds sums this up,    *)
(* and with the invariants of ProcInv it gives the theorems.               *)
(***************************************************************************)
EXTENDS ProcInv, WellFoundedInduction

\* The first element of a non-empty set of slots is one of them.
LEMMA FirstIn ==
  ASSUME NEW S, S \subseteq Slots, S # {}
  PROVE  First(S) \in S
\* A non-empty set of natural numbers has a least element.
<1>LeastElement. ASSUME S \subseteq Nat
                 PROVE  \E x \in S : \A y \in S : x <= y
  <2> USE <1>LeastElement
  <2> DEFINE R == OpToRel(<, Nat)
  <2>1. \A x, y \in Nat : y < x => <<y, x>> \in R
    BY ZenonT(40) DEF OpToRel
  <2>2. IsWellFoundedOn(R, Nat)
    BY NatLessThanWellFounded, ZenonT(40)
  <2> HIDE DEF R
  <2>3. PICK x \in S : \A y \in S : ~(<<y, x>> \in R)
    BY <2>2, WFMin, ZenonT(40)
  <2>4. ASSUME NEW y \in S PROVE x <= y
    <3>1. ~(y < x)
      BY <2>1, <2>3, ZenonT(40)
    <3> QED
      BY <3>1
  <2>5. QED
    BY <2>4
<1>1. S \subseteq Nat
  BY ProcAssumption DEF Slots
<1>2. QED
  BY <1>1, <1>LeastElement, ZenonT(40) DEF First

\* wakeup1 keeps the type of the table.
LEMMA WakeupType ==
  ASSUME NEW t \in [Slots -> ProcRecord], NEW ch
  PROVE  wakeup1(t, ch) \in [Slots -> ProcRecord]
BY DEF wakeup1, ProcRecord, States

\* exit()'s hand-over of the children to init keeps the type of the table.
LEMMA ReparentedType ==
  ASSUME NEW t \in [Slots -> ProcRecord], NEW p \in Slots
  PROVE  Reparented(t, p) \in [Slots -> ProcRecord]
<1> DEFINE u == [q \in Slots |-> IF t[q].parent = p
                                 THEN [t[q] EXCEPT !.parent = initproc]
                                 ELSE t[q]]
<1>1. initproc \in Slots
  BY ProcAssumption DEF initproc, Slots
<1>2. u \in [Slots -> ProcRecord]
  BY <1>1 DEF ProcRecord
<1>3. QED
  BY <1>2, WakeupType DEF Reparented

\* The delivery of signals keeps the type of the table; of p's entry it changes
\* pending, killed and handlers alone, and leaves no signal pending.
LEMMA DeliveredEffect ==
  ASSUME NEW t \in [Slots -> ProcRecord], NEW p \in Slots
  PROVE  LET d == Delivered(t, p)
         IN  /\ d \in [Slots -> ProcRecord]
             /\ d[p].pending = {}
             /\ d[p].state = t[p].state /\ Body(d[p]) = Body(t[p])
             /\ \A q \in Slots : q # p => d[q] = t[q]
<1> DEFINE dead == t[p].killed \/ t[p].pending \ t[p].handlers # {}
<1> DEFINE h == t[p].handlers \ t[p].pending
<1> DEFINE x == [t[p] EXCEPT !.pending = {}, !.killed = dead, !.handlers = h]
<1>1. t[p] \in ProcRecord
  OBVIOUS
<1>2. dead \in BOOLEAN /\ h \in SUBSET {SIGINT, SIGFPE}
  BY <1>1 DEF ProcRecord
<1>3. Delivered(t, p) = [t EXCEPT ![p] = x]
  BY DEF Delivered
<1> HIDE DEF dead, h
<1>4. x \in ProcRecord
  BY <1>1, <1>2, ZenonT(40) DEF ProcRecord
<1>5. x.pending = {} /\ x.state = t[p].state /\ Body(x) = Body(t[p])
  BY <1>1 DEF ProcRecord, Body
<1> HIDE DEF x
<1>6. QED
  BY <1>3, <1>4, <1>5

\* The way back to user space keeps the type of pc.
LEMMA ReturnsType ==
  ASSUME NEW t, NEW p \in Slots, pc \in [Slots -> Points]
  PROVE  Returns(t, p) \in [Slots -> Points]
BY DEF Returns, Points

\* The state that userinit() and mpmain() leave is well typed.
LEMMA InitType == Init => TypeOK
<1> SUFFICES ASSUME Init PROVE TypeOK
  OBVIOUS
<1>0. initproc \in Slots /\ 1 \in 0..MaxPid /\ 0 \in 0..MaxPid /\ 0 \in 0..ticks /\ 2 \in 2..(MaxPid+1)
  BY ProcAssumption DEF initproc, Slots, ticks
<1>1. UnusedProc \in ProcRecord
  BY <1>0 DEF UnusedProc, ProcRecord, States, None
<1>2. proc \in [Slots -> ProcRecord]
  BY <1>0, <1>1, ZenonT(40) DEF Init, ProcRecord, States
<1>3. cpu \in [CPUs -> CPURecord]
  BY ProcAssumption DEF Init, CPURecord
<1>4. QED
  BY <1>0, <1>2, <1>3, ZenonT(40) DEF Init, TypeOK, Points, TrapPoints

\* Every step of the schedulers, processes and traps keeps the types.
LEMMA NextType == TypeOK /\ [Next]_vars => TypeOK'
\* Changing one slot of a table to a process record keeps its type.
<1>TableUpdate. ASSUME NEW t \in [Slots -> ProcRecord], NEW p, NEW x \in ProcRecord
                PROVE  [t EXCEPT ![p] = x] \in [Slots -> ProcRecord]
  BY <1>TableUpdate, ZenonT(40)
\* Changing one field of a process record to a value of its type keeps the
\* record's type.
<1>FieldUpdate. ASSUME NEW x \in ProcRecord
                PROVE  /\ \A v \in States : [x EXCEPT !.state = v] \in ProcRecord
                       /\ \A v \in 0..MaxPid : [x EXCEPT !.pid = v] \in ProcRecord
                       /\ \A v \in Slots \cup {None} : [x EXCEPT !.parent = v] \in ProcRecord
                       /\ \A v \in 0..ticks : [x EXCEPT !.chan = v] \in ProcRecord
                       /\ \A v \in BOOLEAN : [x EXCEPT !.killed = v] \in ProcRecord
                       /\ \A v \in BOOLEAN : [x EXCEPT !.kstack = v] \in ProcRecord
                       /\ \A v \in SUBSET {SIGINT, SIGFPE} :
                            /\ [x EXCEPT !.pending = v] \in ProcRecord
                            /\ [x EXCEPT !.handlers = v] \in ProcRecord
  BY <1>FieldUpdate DEF ProcRecord
\* sched() keeps the types of the lock and of the CPUs.
<1>schedType. ASSUME TypeOK, NEW c \in CPUs, sched(c)
              PROVE  lock' \in CPUs \cup {None} /\ cpu' \in [CPUs -> CPURecord]
  BY <1>schedType DEF TypeOK, sched, CPURecord
<1> SUFFICES ASSUME TypeOK, [Next]_vars PROVE TypeOK'
  OBVIOUS
<1> USE DEF TypeOK
<1>1. ASSUME NEW c \in CPUs, Dispatch(c) PROVE TypeOK'
  <2> DEFINE ready == {p \in InState("RUNNABLE") : p >= cpu[c].next}
  <2> DEFINE p == First(ready)
  <2>1. p \in Slots
    <3>1. ready # {}
      BY <1>1 DEF Dispatch
    <3>2. ready \subseteq Slots
      BY DEF InState
    <3> HIDE DEF ready
    <3>3. QED
      BY <3>1, <3>2, FirstIn
  <2> HIDE DEF p
  <2>2. SchedDelivered(proc, p) \in [Slots -> ProcRecord]
    <3> DEFINE dead == proc[p].killed \/ SIGINT \in proc[p].pending \ proc[p].handlers
    <3>1. proc[p] \in ProcRecord
      BY <2>1
    <3>2. dead \in BOOLEAN
      BY <3>1 DEF ProcRecord
    <3> HIDE DEF dead
    <3>3. [proc[p] EXCEPT !.pending = {}, !.killed = dead] \in ProcRecord
      BY <3>1, <3>2, ZenonT(40) DEF ProcRecord
    <3>4. SchedDelivered(proc, p) =
            [proc EXCEPT ![p] = [proc[p] EXCEPT !.pending = {}, !.killed = dead]]
      BY DEF SchedDelivered, dead
    <3>5. QED
      BY <3>3, <3>4, <1>TableUpdate
  <2>3. proc' = [SchedDelivered(proc, p) EXCEPT ![p].state = "RUNNING"]
    BY <1>1 DEF Dispatch, p
  <2>4. proc' \in [Slots -> ProcRecord]
    BY <2>1, <2>2, <2>3, <1>FieldUpdate, <1>TableUpdate, ZenonT(40) DEF States
  <2>5. cpu' \in [CPUs -> CPURecord]
    BY <1>1, <2>1, ProcAssumption DEF Dispatch, CPURecord, ScanFrom, Slots, p
  <2>6. QED
    BY <1>1, <2>4, <2>5 DEF Dispatch
<1>2. ASSUME NEW c \in CPUs, EndOfScan(c) PROVE TypeOK'
  BY <1>2, ProcAssumption DEF EndOfScan, CPURecord
<1>3. CASE Tick
  BY <1>3, WakeupType DEF Tick
<1>4. ASSUME NEW c \in CPUs, NEW p \in Slots, Resume(c, p) PROVE TypeOK'
  <2>1. proc' \in [Slots -> ProcRecord]
    <3>1. proc' = [proc EXCEPT ![p].chan = None]
      BY <1>4 DEF Resume
    <3>2. None \in 0..ticks
      BY ProcAssumption DEF ticks, None
    <3>3. QED
      BY <3>1, <3>2, <1>FieldUpdate, <1>TableUpdate, ZenonT(40)
  <2>2. pc' \in [Slots -> Points]
    BY <1>4, ReturnsType DEF Resume, Points
  <2>3. QED
    BY <1>4, <2>1, <2>2 DEF Resume
<1>5. ASSUME NEW c \in CPUs, NEW p \in Slots, Wait(c, p) PROVE TypeOK'
  <2> DEFINE zombies == Children(p) \cap InState("ZOMBIE")
  <2> DEFINE awake == [proc EXCEPT ![p].chan = None]
  <2>1. awake \in [Slots -> ProcRecord]
    BY ProcAssumption DEF ProcRecord, ticks, None
  <2>2. Returns(proc, p) \in [Slots -> Points]
    BY ReturnsType
  <2>3. CASE zombies # {} /\ proc' = [awake EXCEPT ![First(zombies)] = Reaped(@)]
             /\ lock' = None /\ pc' = Returns(proc, p) /\ UNCHANGED cpu
    <3>1. First(zombies) \in Slots
      <4>1. zombies # {} /\ zombies \subseteq Slots
        BY <2>3 DEF InState
      <4> HIDE DEF zombies
      <4>2. QED
        BY <4>1, FirstIn
    <3>2. Reaped(awake[First(zombies)]) \in ProcRecord
      <4>1. awake[First(zombies)] \in ProcRecord
        BY <2>1, <3>1
      <4>2. 0 \in 0..MaxPid
        BY ProcAssumption
      <4>3. QED
        BY <4>1, <4>2, ZenonT(40) DEF Reaped, ProcRecord, States
    <3>3. proc' \in [Slots -> ProcRecord]
      BY <2>1, <2>3, <3>1, <3>2
    <3>4. QED
      BY <1>5, <2>2, <2>3, <3>3, ZenonT(40) DEF Wait
  <2>4. CASE proc' = awake /\ lock' = None /\ pc' = Returns(proc, p) /\ UNCHANGED cpu
    BY <1>5, <2>1, <2>2, <2>4 DEF Wait
  <2>5. CASE proc' = [proc EXCEPT ![p] = [@ EXCEPT !.chan = p, !.state = "SLEEPING"]]
             /\ pc' = [pc EXCEPT ![p] = "wait"] /\ sched(c)
    <3>1. proc' \in [Slots -> ProcRecord]
      <4>1. proc[p] \in ProcRecord /\ p \in 0..ticks
        BY ProcAssumption DEF Slots, ticks
      <4>2. [proc[p] EXCEPT !.chan = p, !.state = "SLEEPING"] \in ProcRecord
        BY <4>1, ZenonT(40) DEF ProcRecord, States
      <4>3. QED
        BY <2>5, <4>2, <1>TableUpdate
    <3>2. QED
      BY <1>5, <2>5, <3>1, <1>schedType DEF Wait, Points
  <2>6. QED
    BY <1>5, <2>3, <2>4, <2>5, ZenonT(40) DEF Wait
<1>6. ASSUME NEW c \in CPUs, NEW p \in Slots, Exit(c, p) PROVE TypeOK'
  <2>1. CASE p = initproc
    BY <1>6, <2>1 DEF Exit
  <2>2. CASE p # initproc
    <3> DEFINE woken == ParentWoken([proc EXCEPT ![p].handlers = {}], p)
    <3>1. [proc EXCEPT ![p].handlers = {}] \in [Slots -> ProcRecord]
      BY DEF ProcRecord
    <3>2. Reparented(woken, p) \in [Slots -> ProcRecord]
      BY <3>1, WakeupType, ReparentedType, ZenonT(40) DEF ParentWoken
    <3>3. proc' = [Reparented(woken, p) EXCEPT ![p].state = "ZOMBIE"]
      BY <1>6, <2>2, ZenonT(40) DEF Exit
    <3>4. proc' \in [Slots -> ProcRecord]
      BY <3>2, <3>3, <1>FieldUpdate, <1>TableUpdate, ZenonT(40) DEF States
    <3>5. QED
      BY <1>6, <2>2, <3>4, <1>schedType DEF Exit, Points
  <2>3. QED
    BY <2>1, <2>2
<1>7. ASSUME NEW c \in CPUs, NEW p \in Slots, CallExit(c, p) PROVE TypeOK'
  BY <1>7 DEF CallExit, Points
<1>8. ASSUME NEW c \in CPUs, NEW p \in Slots, Fork(c, p) PROVE TypeOK'
  <2>1. CASE UNCHANGED vars
    BY <2>1 DEF vars
  <2>2. CASE InState("UNUSED") # {} /\ ~UNCHANGED vars
    <3> DEFINE np == First(InState("UNUSED"))
    <3>1. np \in Slots
      <4>1. InState("UNUSED") # {} /\ InState("UNUSED") \subseteq Slots
        BY <2>2 DEF InState
      <4>2. QED
        BY <4>1, FirstIn
    <3>2. nextpid \in 0..MaxPid /\ nextpid' \in 2..(MaxPid + 1)
      BY <1>8, <2>2, ProcAssumption DEF Fork, PidAfter
    <3>3. proc' \in [Slots -> ProcRecord]
      <4>1. proc[np] \in ProcRecord
        BY <3>1
      <4>2. [proc[np] EXCEPT !.state = "EMBRYO", !.pid = nextpid,
                             !.pending = {}, !.handlers = {}] \in ProcRecord
        BY <3>2, <4>1, ZenonT(40) DEF ProcRecord, States
      <4>3. QED
        BY <1>8, <2>2, <4>2, <1>TableUpdate DEF Fork
    <3>4. QED
      BY <1>8, <2>2, <3>1, <3>2, <3>3 DEF Fork, Points
  <2>3. QED
    BY <1>8, <2>1, <2>2 DEF Fork
<1>9. ASSUME NEW c \in CPUs, NEW p \in Slots, ForkFails(c, p) PROVE TypeOK'
  <2>1. proc' \in [Slots -> ProcRecord]
    <3>1. CASE child[p] \in Slots
      <4>1. proc[child[p]] \in ProcRecord
        BY <3>1
      <4>2. [proc[child[p]] EXCEPT !.state = "UNUSED", !.kstack = FALSE]
              \in ProcRecord
        BY <4>1, ZenonT(40) DEF ProcRecord, States
      <4>3. QED
        BY <1>9, <4>2, <1>TableUpdate DEF ForkFails
    <3>2. CASE child[p] \notin Slots
      BY <1>9, <3>2, ZenonT(40) DEF ForkFails
    <3>3. QED
      BY <3>1, <3>2
  <2>2. QED
    BY <1>9, <2>1, ReturnsType DEF ForkFails
<1>10. ASSUME NEW c \in CPUs, NEW p \in Slots, ForkSucceeds(c, p) PROVE TypeOK'
  <2>1. proc' \in [Slots -> ProcRecord]
    <3>1. CASE child[p] \in Slots
      <4>1. proc[child[p]] \in ProcRecord /\ proc[p] \in ProcRecord
        BY <3>1
      <4>2. [proc[child[p]] EXCEPT !.state = "RUNNABLE", !.parent = p,
                                   !.kstack = TRUE,
                                   !.handlers = proc[p].handlers] \in ProcRecord
        BY <4>1, ZenonT(40) DEF ProcRecord, States
      <4>3. QED
        BY <1>10, <4>2, <1>TableUpdate DEF ForkSucceeds
    <3>2. CASE child[p] \notin Slots
      BY <1>10, <3>2, ZenonT(40) DEF ForkSucceeds
    <3>3. QED
      BY <3>1, <3>2
  <2>2. pc' \in [Slots -> Points]
    BY <1>10, ReturnsType, ZenonT(40) DEF ForkSucceeds, Points
  <2>3. QED
    BY <1>10, <2>1, <2>2 DEF ForkSucceeds
<1>11. ASSUME NEW c \in CPUs, NEW p \in Slots, CallSleep(c, p) PROVE TypeOK'
  BY <1>11 DEF CallSleep, Points
<1>12. ASSUME NEW c \in CPUs, NEW p \in Slots, Sleep(c, p) PROVE TypeOK'
  <2>1. proc' \in [Slots -> ProcRecord]
    <3>1. proc[p] \in ProcRecord /\ ticks \in 0..ticks
      BY ProcAssumption DEF ticks
    <3>2. [proc[p] EXCEPT !.chan = ticks, !.state = "SLEEPING"] \in ProcRecord
      BY <3>1, ZenonT(40) DEF ProcRecord, States
    <3>3. QED
      BY <1>12, <3>2, <1>TableUpdate DEF Sleep
  <2>2. QED
    BY <1>12, <2>1, <1>schedType DEF Sleep, Points
<1>13. ASSUME NEW c \in CPUs, NEW p \in Slots, SleepDone(c, p) PROVE TypeOK'
  BY <1>13, ReturnsType DEF SleepDone
<1>14. ASSUME NEW c \in CPUs, NEW p \in Slots, Timer(c, p) PROVE TypeOK'
  <2>1. proc' \in [Slots -> ProcRecord]
    BY <1>14, DeliveredEffect DEF Timer
  <2>2. pc' \in [Slots -> Points] /\ trap' \in [Slots -> TrapPoints]
    BY <1>14 DEF Timer, Points, TrapPoints
  <2>3. QED
    BY <1>14, <2>1, <2>2 DEF Timer
<1>15. ASSUME NEW c \in CPUs, NEW p \in Slots, Yield(c, p) PROVE TypeOK'
  <2>1. proc' \in [Slots -> ProcRecord]
    BY <1>15 DEF Yield, ProcRecord, States
  <2>2. QED
    BY <1>15, <2>1, <1>schedType DEF Yield, TrapPoints
<1>16. ASSUME NEW c \in CPUs, NEW p \in Slots, Fault(c, p) PROVE TypeOK'
  <2>1. [proc EXCEPT ![p].killed = TRUE] \in [Slots -> ProcRecord]
    <3>1. [proc[p] EXCEPT !.killed = TRUE] \in ProcRecord
      BY <1>FieldUpdate, ZenonT(40)
    <3>2. QED
      BY <3>1, <1>TableUpdate
  <2>2. proc' \in [Slots -> ProcRecord]
    BY <1>16, <2>1, DeliveredEffect DEF Fault
  <2>3. QED
    BY <1>16, <2>2 DEF Fault, Points
<1>17. ASSUME NEW c \in CPUs, NEW p \in Slots, Deliver(c, p) PROVE TypeOK'
  <2>1. proc' \in [Slots -> ProcRecord]
    BY <1>17, DeliveredEffect DEF Deliver
  <2>2. pc' \in [Slots -> Points] /\ trap' \in [Slots -> TrapPoints]
    BY <1>17, ReturnsType DEF Deliver, TrapPoints
  <2>3. QED
    BY <1>17, <2>1, <2>2 DEF Deliver
<1>18. ASSUME NEW c \in CPUs, NEW p \in Slots, NEW n \in KillArgs, Kill(c, p, n)
       PROVE  TypeOK'
  <2> DEFINE named == {q \in Slots : proc[q].pid = n}
  <2>1. First(named) \in Slots
    <3>1. named # {} /\ named \subseteq Slots
      BY <1>18 DEF Kill
    <3> HIDE DEF named
    <3>2. QED
      BY <3>1, FirstIn
  <2>2. proc' \in [Slots -> ProcRecord]
    <3>1. proc[First(named)] \in ProcRecord
      BY <2>1
    <3>2. [proc[First(named)] EXCEPT !.killed = TRUE, !.state = Roused(proc[First(named)].state)]
            \in ProcRecord
      BY <3>1, ZenonT(40) DEF ProcRecord, Roused, States
    <3>3. proc' = [proc EXCEPT ![First(named)] =
                     [proc[First(named)] EXCEPT !.killed = TRUE,
                                                !.state = Roused(proc[First(named)].state)]]
      BY <1>18 DEF Kill
    <3> HIDE DEF named
    <3>4. QED
      BY <3>2, <3>3, <1>TableUpdate
  <2>3. QED
    BY <1>18, <2>2, ReturnsType, ZenonT(40) DEF Kill
<1>19. ASSUME NEW c \in CPUs, NEW p \in Slots, NEW sig \in Signals, Raise(c, p, sig)
       PROVE  TypeOK'
  <2>1. proc' \in [Slots -> ProcRecord]
    BY <1>19, ProcAssumption DEF Raise, ProcRecord
  <2>2. QED
    BY <1>19, <2>1 DEF Raise, TrapPoints
<1>20. ASSUME NEW c \in CPUs, NEW p \in Slots, NEW sig \in Signals, NEW null \in BOOLEAN,
              Signal(c, p, sig, null)
       PROVE  TypeOK'
  <2> DEFINE h == IF null THEN proc[p].handlers \ {sig} ELSE proc[p].handlers \cup {sig}
  <2>1. proc[p] \in ProcRecord /\ proc[p].handlers \in SUBSET {SIGINT, SIGFPE}
    BY DEF ProcRecord
  <2>2. h \in SUBSET {SIGINT, SIGFPE}
    BY <2>1, ProcAssumption
  <2>3. proc' = [proc EXCEPT ![p] = [proc[p] EXCEPT !.handlers = h]]
    BY <1>20, ZenonT(40) DEF Signal
  <2> HIDE DEF h
  <2>4. proc' \in [Slots -> ProcRecord]
    BY <2>1, <2>2, <2>3, <1>FieldUpdate, <1>TableUpdate, ZenonT(40)
  <2>5. QED
    BY <1>20, <2>4 DEF Signal
<1>21. CASE UNCHANGED vars
  BY <1>21 DEF vars
<1>22. QED
  BY <1>1, <1>2, <1>3, <1>4, <1>5, <1>6, <1>7, <1>8, <1>9, <1>10, <1>11, <1>12,
     <1>13, <1>14, <1>15, <1>16, <1>17, <1>18, <1>19, <1>20, <1>21, ZenonT(40)
     DEF Next, Process

\* The process table, the CPUs and the lock always have their types; in
\* particular no pid, slot, channel or scan index leaves its range.
THEOREM TypeCorrect == Spec => []TypeOK
BY InitType, NextType, PTL DEF Spec

-----------------------------------------------------------------------------
(* What each action does to the table, field by field.                     *)

\* wakeup1 only makes the sleepers on ch runnable.
LEMMA WakeupEffect ==
  ASSUME NEW t \in [Slots -> ProcRecord], NEW ch, NEW q \in Slots
  PROVE  LET w == wakeup1(t, ch)[q]
         IN  /\ w.state = IF t[q].state = "SLEEPING" /\ t[q].chan = ch
                          THEN "RUNNABLE" ELSE t[q].state
             /\ w.pid = t[q].pid /\ w.parent = t[q].parent
             /\ w.chan = t[q].chan /\ w.kstack = t[q].kstack
             /\ w.killed = t[q].killed /\ w.pending = t[q].pending
BY DEF wakeup1, ProcRecord

\* Every step of the specification is one of the steps described above.
LEMMA StepKinds == TypeOK /\ [Next]_vars => Step
\* scheduler() picks a RUNNABLE process and changes nothing about the others.
<1>DispatchEffect. ASSUME TypeOK, NEW c \in CPUs, Dispatch(c)
                   PROVE  \E p \in Slots : Dispatched(c, p)
  <2> USE <1>DispatchEffect
  <2> DEFINE ready == {p \in InState("RUNNABLE") : p >= cpu[c].next}
  <2> DEFINE p == First(ready)
  <2>1. p \in ready
    <3>1. ready # {} /\ ready \subseteq Slots
      BY DEF Dispatch, InState
    <3> HIDE DEF ready
    <3>2. QED
      BY <3>1, FirstIn
  <2>2. p \in Slots /\ proc[p].state = "RUNNABLE"
    BY <2>1 DEF InState
  <2>3. /\ proc' = [SchedDelivered(proc, p) EXCEPT ![p].state = "RUNNING"]
        /\ cpu' = [cpu EXCEPT ![c] = [proc |-> p, on |-> "process",
                                      next |-> ScanFrom(p)]]
    BY DEF Dispatch
  <2> HIDE DEF p
  <2>4. proc[p] \in ProcRecord
    BY <2>2 DEF TypeOK
  <2>5. /\ proc'[p].state = "RUNNING" /\ Body(proc'[p]) = Body(proc[p])
        /\ proc'[p].pending = {}
        /\ \A q \in Slots : q # p => proc'[q] = proc[q]
    BY <2>2, <2>3, <2>4 DEF SchedDelivered, Body, TypeOK, ProcRecord
  <2>6. /\ cpu'[c].on = "process" /\ cpu'[c].proc = p
        /\ \A d \in CPUs : d # c => cpu'[d] = cpu[d]
    BY <2>3, ZenonT(40) DEF TypeOK
  <2>7. QED
    BY <2>2, <2>5, <2>6, ZenonT(40) DEF Dispatch, Dispatched
\* exit() of a process other than init.
<1>ExitEffect. ASSUME TypeOK, NEW c \in CPUs, NEW p \in Slots, p # initproc,
                      Exit(c, p)
               PROVE  Exited(c, p)
  <2> USE <1>ExitEffect
  <2> DEFINE t == [proc EXCEPT ![p].handlers = {}]
  <2> DEFINE w == wakeup1(t, proc[p].parent)
  <2> DEFINE u == [q \in Slots |-> IF w[q].parent = p
                                   THEN [w[q] EXCEPT !.parent = initproc] ELSE w[q]]
  <2>1. t \in [Slots -> ProcRecord]
    BY DEF TypeOK, ProcRecord
  <2>2. \A q \in Slots :
          /\ t[q].state = proc[q].state /\ Body(t[q]) = Body(proc[q])
          /\ t[q].killed = proc[q].killed /\ t[q].pending = proc[q].pending
    BY DEF TypeOK, ProcRecord, Body
  <2>3. w = ParentWoken(t, p)
    BY <2>2 DEF ParentWoken, Body
  <2> HIDE DEF t
  <2>4. w \in [Slots -> ProcRecord]
    BY <2>1, WakeupType, ZenonT(40)
  <2>5. \A q \in Slots :
          /\ w[q].state = IF proc[q].state = "SLEEPING"
                             /\ proc[q].chan = proc[p].parent
                          THEN "RUNNABLE" ELSE proc[q].state
          /\ Body(w[q]) = Body(proc[q])
          /\ w[q].killed = proc[q].killed /\ w[q].pending = proc[q].pending
    BY <2>1, <2>2, WakeupEffect DEF Body
  <2> HIDE DEF w
  <2>6. initproc \in Slots
    BY ProcAssumption DEF initproc, Slots
  <2>7. u \in [Slots -> ProcRecord]
    BY <2>4, <2>6 DEF ProcRecord
  <2>8. \A q \in Slots :
          /\ u[q].state = w[q].state /\ u[q].pid = w[q].pid
          /\ u[q].chan = w[q].chan /\ u[q].kstack = w[q].kstack
          /\ u[q].killed = w[q].killed /\ u[q].pending = w[q].pending
          /\ u[q].parent = IF w[q].parent = p THEN initproc ELSE w[q].parent
    BY <2>4 DEF ProcRecord
  <2> DEFINE orphan == \E q \in Slots : w[q].parent = p /\ w[q].state = "ZOMBIE"
  <2>9. Reparented(w, p) = IF orphan THEN wakeup1(u, initproc) ELSE u
    BY DEF Reparented
  <2> HIDE DEF u
  <2> DEFINE v == Reparented(w, p)
  <2>10. v \in [Slots -> ProcRecord]
    BY <2>4, ReparentedType
  <2>11. \A q \in Slots :
          /\ v[q].state = IF u[q].state = "SLEEPING" /\ u[q].chan = initproc /\ orphan
                          THEN "RUNNABLE" ELSE u[q].state
          /\ Body(v[q]) = Body(u[q])
          /\ v[q].killed = u[q].killed /\ v[q].pending = u[q].pending
    <3> HIDE DEF orphan
    <3> TAKE q \in Slots
    <3>1. CASE orphan
      BY <2>7, <2>9, <3>1, WakeupEffect DEF Body
    <3>2. CASE ~orphan
      BY <2>9, <3>2
    <3>3. QED
      BY <3>1, <3>2
  <2>12. proc' = [v EXCEPT ![p].state = "ZOMBIE"]
    BY <2>3, ZenonT(40) DEF Exit, t
  <2> HIDE DEF v
  <2>13. orphan <=> \E z \in Slots : proc[z].parent = p /\ proc[z].state = "ZOMBIE"
    BY <2>5 DEF Body
  <2>14. /\ proc'[p].state = "ZOMBIE"
         /\ \A q \in Slots :
              /\ Body(proc'[q]) = Body(v[q]) /\ proc'[q].killed = v[q].killed
              /\ proc'[q].pending = v[q].pending
              /\ q # p => proc'[q].state = v[q].state
    BY <2>10, <2>12, ZenonT(40) DEF Body, ProcRecord
  <2> HIDE DEF orphan
  <2>15. \A q \in Slots :
           /\ proc'[q].pid = proc[q].pid /\ proc'[q].chan = proc[q].chan
           /\ proc'[q].kstack = proc[q].kstack
           /\ proc'[q].killed = proc[q].killed
           /\ proc'[q].pending = proc[q].pending
           /\ proc'[q].parent = IF proc[q].parent = p THEN initproc ELSE proc[q].parent
           /\ q # p => proc'[q].state =
                IF /\ proc[q].state = "SLEEPING"
                   /\ \/ proc[q].chan = proc[p].parent
                      \/ /\ proc[q].chan = initproc
                         /\ \E z \in Slots : proc[z].parent = p /\ proc[z].state = "ZOMBIE"
                THEN "RUNNABLE" ELSE proc[q].state
    BY <2>5, <2>8, <2>11, <2>13, <2>14 DEF Body
  <2>16. /\ OnCPU(c, p) /\ lock = None /\ sched(c) /\ pc[p] = "exit"
         /\ pc' = [pc EXCEPT ![p] = "none"]
         /\ trap[p] = "none" /\ UNCHANGED <<nextpid, trap, child>>
    BY DEF Exit, At, Runs, OnCPU
  <2>17. pc'[p] = "none" /\ PcKept(p)
    BY <2>16 DEF TypeOK, PcKept
  <2>18. QED
    BY <2>14, <2>15, <2>16, <2>17 DEF Exited
\* On the way back to user space p goes to exit() if it has been killed.
<1>ReturnsEffect. ASSUME TypeOK, NEW t, NEW p \in Slots
                  PROVE  /\ Returns(t, p)[p] \in {"user", "exit"}
                         /\ \A q \in Slots : q # p => Returns(t, p)[q] = pc[q]
  BY <1>ReturnsEffect DEF Returns, TypeOK
\* The three ways a pass of wait() ends.
<1>WaitEffect. ASSUME TypeOK, NEW c \in CPUs, NEW p \in Slots, Wait(c, p)
               PROVE  Waited(c, p)
  <2> USE <1>WaitEffect
  <2> DEFINE zombies == Children(p) \cap InState("ZOMBIE")
  <2> DEFINE awake == [proc EXCEPT ![p].chan = None]
  <2>1. /\ OnCPU(c, p) /\ lock \in {c, None} /\ UNCHANGED <<nextpid, trap, child>>
        /\ pc[p] # "fork"
        /\ lock = None => trap[p] = "none"
    <3>1. c # None
      BY DEF CPUs, None
    <3>2. QED
      BY <3>1 DEF Wait, OnCPU, Enters, At, Runs
  <2>2. \A q \in Slots :
          /\ awake[q].state = proc[q].state /\ awake[q].pid = proc[q].pid
          /\ awake[q].parent = proc[q].parent /\ awake[q].kstack = proc[q].kstack
          /\ awake[q].killed = proc[q].killed /\ awake[q].pending = proc[q].pending
          /\ q # p => awake[q].chan = proc[q].chan
    BY DEF TypeOK, ProcRecord
  <2>3. CASE zombies # {} /\ proc' = [awake EXCEPT ![First(zombies)] = Reaped(@)]
             /\ lock' = None /\ pc' = Returns(proc, p) /\ UNCHANGED cpu
    <3> DEFINE z == First(zombies)
    <3>1. z \in Slots /\ proc[z].parent = p /\ proc[z].state = "ZOMBIE"
      <4>1. zombies \subseteq Slots /\ zombies # {}
        BY <2>3 DEF Children
      <4>2. z \in zombies
        BY <4>1, FirstIn
      <4>3. QED
        BY <4>2 DEF Children, InState
    <3>2. proc' = [awake EXCEPT ![z] = Reaped(awake[z])]
      BY <2>3
    <3> HIDE DEF z
    <3>3. awake \in [Slots -> ProcRecord]
      BY ProcAssumption DEF TypeOK, ProcRecord, ticks, None
    <3> HIDE DEF awake
    <3>4. proc'[z] = Reaped(awake[z]) /\ \A q \in Slots : q # z => proc'[q] = awake[q]
      BY <3>1, <3>2, <3>3
    <3>5. /\ proc'[z].state = "UNUSED" /\ proc'[z].pid = 0
          /\ proc'[z].parent = None /\ proc'[z].kstack = FALSE
          /\ proc'[z].pending = proc[z].pending
          /\ z # p => proc'[z].chan = proc[z].chan
      BY <2>2, <3>1, <3>3, <3>4 DEF Reaped, ProcRecord
    <3>6. /\ \A q \in Slots : q # z => KeepsButChan(q)
          /\ \A q \in Slots : q # p => proc'[q].chan = proc[q].chan
      BY <2>2, <3>4, <3>5 DEF KeepsButChan
    <3>7. Reaps(c, p) /\ PcKept(p)
      <4>1. pc'[p] \in {"user", "exit"} /\ PcKept(p)
        BY <2>3, <1>ReturnsEffect DEF PcKept
      <4>2. lock' = None /\ cpu' = cpu
        BY <2>3
      <4>3. \E y \in Slots :
              /\ proc[y].parent = p /\ proc[y].state = "ZOMBIE"
              /\ proc'[y].state = "UNUSED" /\ proc'[y].pid = 0
              /\ proc'[y].parent = None /\ proc'[y].kstack = FALSE
              /\ proc'[y].pending = proc[y].pending
              /\ \A q \in Slots : q # y => KeepsButChan(q)
              /\ \A q \in Slots : q # p => proc'[q].chan = proc[q].chan
        BY <3>1, <3>5, <3>6, ZenonT(40)
      <4>4. QED
        BY <4>1, <4>2, <4>3, ZenonT(40) DEF Reaps
    <3>8. QED
      BY <2>1, <3>7 DEF Waited
  <2>4. CASE proc' = awake /\ lock' = None /\ pc' = Returns(proc, p) /\ UNCHANGED cpu
    <3>1. \A q \in Slots : KeepsButChan(q) /\ (q # p => proc'[q].chan = proc[q].chan)
      BY <2>2, <2>4 DEF KeepsButChan
    <3>2. GivesUp(c, p) /\ PcKept(p)
      BY <2>4, <3>1, <1>ReturnsEffect DEF GivesUp, PcKept
    <3>3. QED
      BY <2>1, <3>2 DEF Waited
  <2>5. CASE zombies = {} /\ Children(p) # {} /\ ~proc[p].killed
             /\ proc' = [proc EXCEPT ![p] = [@ EXCEPT !.chan = p, !.state = "SLEEPING"]]
             /\ pc' = [pc EXCEPT ![p] = "wait"] /\ sched(c)
    <3>1. proc[p] \in ProcRecord /\ proc \in [Slots -> ProcRecord]
      BY DEF TypeOK
    <3>2. /\ proc'[p].state = "SLEEPING" /\ proc'[p].chan = p
          /\ proc'[p].pid = proc[p].pid /\ proc'[p].parent = proc[p].parent
          /\ proc'[p].kstack = proc[p].kstack /\ proc'[p].killed = proc[p].killed
          /\ proc'[p].pending = proc[p].pending
          /\ \A q \in Slots : q # p => proc'[q] = proc[q]
      BY <2>5, <3>1 DEF ProcRecord
    <3>3. pc'[p] = "wait" /\ PcKept(p)
      BY <2>5 DEF TypeOK, PcKept
    <3>4. SleepsInWait(c, p)
      BY <2>5, <3>2, <3>3 DEF SleepsInWait
    <3>5. QED
      BY <2>1, <3>3, <3>4 DEF Waited
  <2>6. QED
    BY <2>3, <2>4, <2>5 DEF Wait
\* A call of fork() that finds a free slot.
<1>ForkEffect. ASSUME TypeOK, NEW c \in CPUs, NEW p \in Slots, Fork(c, p),
                      ~UNCHANGED vars
               PROVE  Forked(c, p)
  <2> USE <1>ForkEffect
  <2> DEFINE np == First(InState("UNUSED"))
  <2>1. InState("UNUSED") # {}
    BY DEF Fork, vars
  <2>2. np \in InState("UNUSED")
    BY <2>1, FirstIn DEF InState
  <2>3. np \in Slots /\ proc[np].state = "UNUSED"
    BY <2>2 DEF InState
  <2>4. /\ proc' = [proc EXCEPT ![np] = [@ EXCEPT !.state = "EMBRYO", !.pid = nextpid,
                                                 !.pending = {}, !.handlers = {}]]
        /\ child' = [child EXCEPT ![p] = np]
        /\ nextpid' = nextpid + 1 /\ pc' = [pc EXCEPT ![p] = "fork"]
        /\ UNCHANGED <<lock, cpu, trap>>
    BY DEF Fork, PidAfter
  <2> HIDE DEF np
  <2>5. proc[np] \in ProcRecord /\ proc \in [Slots -> ProcRecord]
    BY <2>3 DEF TypeOK
  <2>6. /\ proc'[np].state = "EMBRYO" /\ proc'[np].pid = nextpid
        /\ proc'[np].parent = proc[np].parent /\ proc'[np].kstack = proc[np].kstack
        /\ proc'[np].pending = {}
        /\ \A q \in Slots : q # np => proc'[q] = proc[q]
    BY <2>3, <2>4, <2>5 DEF ProcRecord
  <2>7. child'[p] = np /\ \A q \in Slots : q # p => child'[q] = child[q]
    BY <2>4 DEF TypeOK
  <2>8. pc'[p] = "fork" /\ PcKept(p)
    BY <2>4 DEF TypeOK, PcKept
  <2>9. OnCPU(c, p) /\ pc[p] = "user"
    BY DEF Fork, Enters, At, Runs, OnCPU
  <2>10. QED
    BY <2>3, <2>4, <2>6, <2>7, <2>8, <2>9 DEF Forked
\* The rest of fork(), on its two ways out.
<1>ForkEndEffect. ASSUME TypeOK, NEW c \in CPUs, NEW p \in Slots, child[p] \in Slots,
                         ForkFails(c, p) \/ ForkSucceeds(c, p)
                  PROVE  ForkEnded(c, p)
  <2> USE <1>ForkEndEffect
  <2> DEFINE np == child[p]
  <2>1. proc[np] \in ProcRecord /\ proc \in [Slots -> ProcRecord]
    BY DEF TypeOK
  <2>2. /\ OnCPU(c, p) /\ pc[p] = "fork" /\ trap[p] = "none"
        /\ UNCHANGED <<nextpid, lock, cpu, trap>>
    BY DEF ForkFails, ForkSucceeds, At, Runs, OnCPU
  <2>3. child' = [child EXCEPT ![p] = None]
    BY DEF ForkFails, ForkSucceeds
  <2>4. \A q \in Slots : q # p => child'[q] = child[q]
    BY <2>3, ZenonT(40) DEF TypeOK
  <2>5. CASE ForkFails(c, p)
    <3>1. proc' = [proc EXCEPT ![np] = [@ EXCEPT !.state = "UNUSED", !.kstack = FALSE]]
      BY <2>5 DEF ForkFails
    <3>2. pc' = Returns(proc, p)
      BY <2>5 DEF ForkFails
    <3> HIDE DEF np
    <3>3. np \in Slots
      BY DEF np
    <3>4. /\ \A q \in Slots : q # np => proc'[q] = proc[q]
          /\ proc'[np].pid = proc[np].pid /\ proc'[np].pending = proc[np].pending
          /\ proc'[np].state = "UNUSED" /\ proc'[np].kstack = FALSE
          /\ proc'[np].parent = proc[np].parent
      BY <2>1, <3>1, <3>3 DEF ProcRecord
    <3>5. QED
      BY <2>2, <2>4, <3>2, <3>4, <1>ReturnsEffect DEF np, ForkEnded
  <2>6. CASE ForkSucceeds(c, p)
    <3>1. proc' = [proc EXCEPT ![np] =
                     [@ EXCEPT !.state = "RUNNABLE", !.parent = p, !.kstack = TRUE,
                               !.handlers = proc[p].handlers]]
      BY <2>6 DEF ForkSucceeds
    <3>2. pc' = [Returns(proc, p) EXCEPT ![np] = "forkret"]
      BY <2>6 DEF ForkSucceeds
    <3>3. Returns(proc, p) \in [Slots -> Points]
      BY ReturnsType DEF TypeOK
    <3> HIDE DEF np
    <3>4. np \in Slots
      BY DEF np
    <3>5. /\ \A q \in Slots : q # np => proc'[q] = proc[q]
          /\ proc'[np].pid = proc[np].pid /\ proc'[np].pending = proc[np].pending
          /\ proc'[np].state = "RUNNABLE" /\ proc'[np].kstack = TRUE
          /\ proc'[np].parent = p
      BY <2>1, <3>1, <3>4 DEF ProcRecord
    <3>6. /\ np # p => pc'[p] \in {"user", "exit"}
          /\ \A q \in Slots : q \notin {p, np} => pc'[q] = pc[q]
          /\ pc'[np] = "forkret"
      BY <3>2, <3>3, <3>4, <1>ReturnsEffect
    <3>7. QED
      BY <2>2, <2>4, <3>5, <3>6 DEF np, ForkEnded
  <2>7. QED
    BY <2>5, <2>6
\* Calls, faults and signals that touch nothing but p's own flags and point.
<1>QuietEffect. ASSUME TypeOK, NEW c \in CPUs, NEW p \in Slots,
                       \/ CallExit(c, p) \/ CallSleep(c, p) \/ SleepDone(c, p)
                       \/ Timer(c, p) \/ Fault(c, p) \/ Deliver(c, p)
                       \/ \E sig \in Signals : Raise(c, p, sig)
                       \/ \E sig \in Signals, null \in BOOLEAN : Signal(c, p, sig, null)
                PROVE  Quiet(c, p)
  <2> USE <1>QuietEffect
  <2>1. proc[p] \in ProcRecord /\ proc \in [Slots -> ProcRecord] /\ pc \in [Slots -> Points]
        /\ trap \in [Slots -> TrapPoints]
    BY ZenonT(40) DEF TypeOK
  <2>2. CASE CallExit(c, p) \/ CallSleep(c, p)
    <3>1. /\ OnCPU(c, p) /\ lock # c /\ trap[p] = "none" /\ pc[p] # "fork"
          /\ UNCHANGED <<proc, nextpid, lock, cpu, trap, child>>
      BY <2>2 DEF CallExit, CallSleep, Enters, At, Runs, OnCPU
    <3>2. pc'[p] # "fork" /\ PcKept(p)
      BY <2>1, <2>2 DEF CallExit, CallSleep, PcKept
    <3>3. QED
      BY <3>1, <3>2 DEF Quiet, Body
  <2>3. CASE SleepDone(c, p)
    <3>1. /\ OnCPU(c, p) /\ lock # c /\ trap[p] = "none" /\ pc[p] # "fork"
          /\ UNCHANGED <<proc, nextpid, lock, cpu, trap, child>>
          /\ pc' = Returns(proc, p)
      BY <2>3 DEF SleepDone, At, Runs, OnCPU
    <3>2. pc'[p] # "fork" /\ PcKept(p)
      BY <3>1, <1>ReturnsEffect DEF PcKept
    <3>3. QED
      BY <3>1, <3>2 DEF Quiet, Body
  <2>4. CASE Timer(c, p)
    <3>1. /\ proc'[p].state = proc[p].state /\ Body(proc'[p]) = Body(proc[p])
          /\ proc'[p].pending = {}
          /\ \A q \in Slots : q # p => proc'[q] = proc[q]
      BY <2>1, <2>4, DeliveredEffect DEF Timer
    <3>2. /\ OnCPU(c, p) /\ lock # c /\ trap[p] = "none"
          /\ pc[p] \in {"user", "fork", "asleep", "exit"}
          /\ UNCHANGED <<nextpid, lock, cpu, child>>
      BY <2>4 DEF Timer, Interruptible, At, Runs, OnCPU
    <3>3. /\ \A q \in Slots : q # p => trap'[q] = trap[q] /\ pc'[q] = pc[q]
          /\ pc[p] = "fork" <=> pc'[p] = "fork"
          /\ pc'[p] \in {"user", "fork", "asleep", "exit"}
      BY <2>1, <2>4, <3>2 DEF Timer
    <3>4. QED
      BY <3>1, <3>2, <3>3 DEF Quiet, PcKept
  <2>5. CASE Fault(c, p)
    <3> DEFINE t == [proc EXCEPT ![p].killed = TRUE]
    <3>1. /\ t \in [Slots -> ProcRecord]
          /\ t[p].state = proc[p].state /\ Body(t[p]) = Body(proc[p])
          /\ \A q \in Slots : q # p => t[q] = proc[q]
      BY <2>1 DEF ProcRecord, Body
    <3>2. proc' = Delivered(t, p)
      BY <2>5 DEF Fault
    <3> HIDE DEF t
    <3>3. /\ proc'[p].state = proc[p].state /\ Body(proc'[p]) = Body(proc[p])
          /\ proc'[p].pending = {}
          /\ \A q \in Slots : q # p => proc'[q] = proc[q]
      BY <3>1, <3>2, DeliveredEffect
    <3>4. /\ OnCPU(c, p) /\ lock # c /\ trap[p] = "none" /\ pc[p] # "fork"
          /\ UNCHANGED <<nextpid, lock, cpu, trap, child>>
      BY <2>5 DEF Fault, At, Runs, OnCPU
    <3>5. pc'[p] # "fork" /\ PcKept(p)
      BY <2>1, <2>5 DEF Fault, PcKept
    <3>6. QED
      BY <3>3, <3>4, <3>5 DEF Quiet
  <2>6. CASE Deliver(c, p)
    <3>1. /\ proc'[p].state = proc[p].state /\ Body(proc'[p]) = Body(proc[p])
          /\ proc'[p].pending = {}
          /\ \A q \in Slots : q # p => proc'[q] = proc[q]
      BY <2>1, <2>6, DeliveredEffect DEF Deliver
    <3>2. pc' = IF pc[p] = "user" THEN Returns(proc', p) ELSE pc
      BY <2>6 DEF Deliver
    <3>3. PcKept(p) /\ (pc[p] = "fork" <=> pc'[p] = "fork")
      BY <2>1, <3>2, <1>ReturnsEffect DEF PcKept
    <3>4. /\ OnCPU(c, p) /\ lock # c /\ UNCHANGED <<nextpid, lock, cpu, child>>
          /\ trap'[p] = "none" /\ \A q \in Slots : q # p => trap'[q] = trap[q]
      BY <2>1, <2>6 DEF Deliver, Runs, OnCPU
    <3>5. QED
      BY <3>1, <3>3, <3>4 DEF Quiet
  <2>7. ASSUME NEW sig \in Signals, Raise(c, p, sig) PROVE Quiet(c, p)
    <3>1. /\ proc'[p].state = proc[p].state /\ Body(proc'[p]) = Body(proc[p])
          /\ \A q \in Slots : q # p => proc'[q] = proc[q]
      BY <2>1, <2>7 DEF Raise, ProcRecord, Body
    <3>2. /\ OnCPU(c, p) /\ lock # c /\ UNCHANGED <<nextpid, lock, cpu, pc, child>>
          /\ pc[p] \in {"user", "fork", "asleep", "exit"}
      BY <2>7 DEF Raise, Interruptible, At, Runs, OnCPU
    <3>3. trap'[p] = "deliver" /\ \A q \in Slots : q # p => trap'[q] = trap[q]
      BY <2>1, <2>7 DEF Raise
    <3>4. QED
      BY <3>1, <3>2, <3>3 DEF Quiet, PcKept
  <2>8. ASSUME NEW sig \in Signals, NEW null \in BOOLEAN, Signal(c, p, sig, null)
        PROVE  Quiet(c, p)
    <3> DEFINE h == IF null THEN proc[p].handlers \ {sig} ELSE proc[p].handlers \cup {sig}
    <3>1. proc' = [proc EXCEPT ![p].handlers = h]
      BY <2>8 DEF Signal
    <3> HIDE DEF h
    <3>2. /\ proc'[p].state = proc[p].state /\ Body(proc'[p]) = Body(proc[p])
          /\ proc'[p].pending = proc[p].pending
          /\ \A q \in Slots : q # p => proc'[q] = proc[q]
      BY <2>1, <3>1 DEF ProcRecord, Body
    <3>3. /\ OnCPU(c, p) /\ lock # c /\ trap[p] = "none"
          /\ UNCHANGED <<nextpid, lock, cpu, pc, trap, child>>
      BY <2>8 DEF Signal, Enters, At, Runs, OnCPU
    <3>4. QED
      BY <3>2, <3>3 DEF Quiet, PcKept
  <2>9. QED
    BY <2>2, <2>3, <2>4, <2>5, <2>6, <2>7, <2>8
\* forkret(), yield() and sleep() continue behind the switch.
<1>ResumeEffect. ASSUME TypeOK, NEW c \in CPUs, NEW p \in Slots, Resume(c, p)
                 PROVE  Resumed(c, p)
  <2> USE <1>ResumeEffect
  <2>1. \A q \in Slots : KeepsButChan(q) /\ (q # p => proc'[q].chan = proc[q].chan)
    BY DEF Resume, TypeOK, ProcRecord, KeepsButChan
  <2>2. PcKept(p) /\ (pc[p] = "fork" <=> pc'[p] = "fork")
    <3>1. CASE pc[p] = "user"
      <4>1. pc' = Returns(proc, p)
        BY <3>1 DEF Resume
      <4>2. QED
        BY <3>1, <4>1, <1>ReturnsEffect DEF PcKept
    <3>2. CASE pc[p] = "forkret"
      <4>1. pc' = [pc EXCEPT ![p] = "user"]
        BY <3>2 DEF Resume
      <4>2. QED
        BY <3>2, <4>1 DEF PcKept, TypeOK
    <3>3. CASE pc[p] # "user" /\ pc[p] # "forkret"
      <4>1. pc' = pc
        BY <3>3 DEF Resume
      <4>2. QED
        BY <4>1 DEF PcKept
    <3>4. QED
      BY <3>1, <3>2, <3>3
  <2>3. QED
    BY <2>1, <2>2 DEF Resume, Resumed, OnCPU
\* sleep(&ticks) gives up the CPU.
<1>SleepEffect. ASSUME TypeOK, NEW c \in CPUs, NEW p \in Slots, Sleep(c, p)
                PROVE  Leaves(c, p)
  <2> USE <1>SleepEffect
  <2>1. proc[p] \in ProcRecord /\ proc \in [Slots -> ProcRecord] /\ pc \in [Slots -> Points]
    BY DEF TypeOK
  <2>2. OnCPU(c, p) /\ pc[p] = "tosleep" /\ trap[p] = "none" /\ trap' = trap
    BY DEF Sleep, At, Runs, OnCPU
  <2>3. /\ proc'[p].state = "SLEEPING" /\ proc'[p].pid = proc[p].pid
        /\ proc'[p].parent = proc[p].parent /\ proc'[p].kstack = proc[p].kstack
        /\ proc'[p].pending = proc[p].pending
        /\ \A q \in Slots : q # p => proc'[q] = proc[q]
    BY <2>1 DEF Sleep, ProcRecord
  <2>4. pc'[p] = "asleep" /\ PcKept(p)
    BY <2>1 DEF Sleep, PcKept
  <2>5. QED
    BY <2>2, <2>3, <2>4 DEF Sleep, Leaves
\* yield() gives up the CPU.
<1>YieldEffect. ASSUME TypeOK, NEW c \in CPUs, NEW p \in Slots, Yield(c, p)
                PROVE  Leaves(c, p)
  <2> USE <1>YieldEffect
  <2>1. proc[p] \in ProcRecord /\ proc \in [Slots -> ProcRecord]
        /\ trap \in [Slots -> TrapPoints]
    BY DEF TypeOK
  <2>2. /\ OnCPU(c, p) /\ lock = None /\ trap[p] = "yield" /\ sched(c)
        /\ UNCHANGED <<nextpid, pc, child>>
    BY DEF Yield, Runs, OnCPU
  <2>3. /\ proc'[p].state = "RUNNABLE" /\ proc'[p].pid = proc[p].pid
        /\ proc'[p].parent = proc[p].parent /\ proc'[p].kstack = proc[p].kstack
        /\ proc'[p].pending = proc[p].pending
        /\ \A q \in Slots : q # p => proc'[q] = proc[q]
    BY <2>1 DEF Yield, ProcRecord
  <2>4. trap'[p] = "none" /\ \A q \in Slots : q # p => trap'[q] = trap[q]
    BY <2>1 DEF Yield
  <2>5. QED
    BY <2>2, <2>3, <2>4 DEF Leaves, PcKept
\* wakeup(&ticks) rouses sleepers.
<1>TickEffect. ASSUME TypeOK, Tick
               PROVE  Rouses
  BY <1>TickEffect, WakeupEffect DEF Tick, Rouses, TypeOK, Body
\* kill() marks one process and rouses it if it sleeps.
<1>KillEffect. ASSUME TypeOK, NEW c \in CPUs, NEW p \in Slots, NEW n, Kill(c, p, n)
               PROVE  Rouses
  <2> USE <1>KillEffect
  <2> DEFINE named == {q \in Slots : proc[q].pid = n}
  <2> DEFINE v == First(named)
  <2>1. v \in Slots
    <3>1. named # {} /\ named \subseteq Slots
      BY DEF Kill
    <3> HIDE DEF named
    <3>2. QED
      BY <3>1, FirstIn
  <2>2. proc' = [proc EXCEPT ![v] = [proc[v] EXCEPT !.killed = TRUE,
                                                    !.state = Roused(proc[v].state)]]
    BY DEF Kill
  <2> HIDE DEF v
  <2>3. proc[v] \in ProcRecord /\ proc \in [Slots -> ProcRecord]
    BY <2>1 DEF TypeOK
  <2>4. /\ proc'[v].state = Roused(proc[v].state) /\ Body(proc'[v]) = Body(proc[v])
        /\ proc'[v].pending = proc[v].pending
        /\ \A q \in Slots : q # v => proc'[q] = proc[q]
    BY <2>1, <2>2, <2>3 DEF Body, ProcRecord
  <2>5. pc'[p] \in {"user", "exit"} /\ \A q \in Slots : q # p => pc'[q] = pc[q]
    BY <1>ReturnsEffect, ZenonT(40) DEF Kill
  <2>6. OnCPU(c, p) /\ pc[p] = "user" /\ trap[p] = "none" /\ lock = None
        /\ UNCHANGED <<nextpid, lock, cpu, trap, child>>
    BY DEF Kill, Enters, At, Runs, OnCPU
  <2>7. \A q \in Slots :
          /\ Body(proc'[q]) = Body(proc[q]) /\ proc'[q].pending = proc[q].pending
          /\ \/ proc'[q].state = proc[q].state
             \/ proc[q].state = "SLEEPING" /\ proc'[q].state = "RUNNABLE"
          /\ proc'[q].state = "SLEEPING" => proc'[q].killed = proc[q].killed
    BY <2>1, <2>4 DEF Roused
  <2>8. QED
    BY <2>5, <2>6, <2>7 DEF Rouses
<1> SUFFICES ASSUME TypeOK, [Next]_vars PROVE Step
  OBVIOUS
<1>1. ASSUME UNCHANGED vars PROVE Step
  BY <1>1 DEF vars, Step
<1>2. ASSUME NEW c \in CPUs, Dispatch(c) \/ EndOfScan(c) PROVE Step
  BY <1>2, <1>DispatchEffect, ZenonT(40) DEF Step
<1>3. ASSUME Tick PROVE Step
  BY <1>3, <1>TickEffect, ZenonT(40) DEF Step
<1>4. ASSUME NEW c \in CPUs, NEW p \in Slots, Process(c, p) PROVE Step
  <2>1. CASE Resume(c, p)
    BY <2>1, <1>ResumeEffect, ZenonT(40) DEF Step
  <2>2. CASE Wait(c, p)
    BY <2>2, <1>WaitEffect, ZenonT(40) DEF Step
  <2>3. CASE Exit(c, p)
    <3>1. CASE p = initproc
      BY <2>3, <3>1 DEF Exit, Step
    <3>2. CASE p # initproc
      BY <2>3, <3>2, <1>ExitEffect, ZenonT(40) DEF Step
    <3>3. QED
      BY <3>1, <3>2
  <2>4. CASE Fork(c, p)
    BY <1>1, <2>4, <1>ForkEffect, ZenonT(40) DEF Step
  <2>5. CASE ForkFails(c, p) \/ ForkSucceeds(c, p)
    <3>1. OnCPU(c, p) /\ pc[p] = "fork"
      BY <2>5 DEF ForkFails, ForkSucceeds, At, Runs, OnCPU
    <3>2. QED
      BY <2>5, <3>1, <1>ForkEndEffect, ZenonT(40) DEF Step
  <2>6. CASE Sleep(c, p)
    BY <2>6, <1>SleepEffect, ZenonT(40) DEF Step
  <2>7. CASE Yield(c, p)
    BY <2>7, <1>YieldEffect, ZenonT(40) DEF Step
  <2>8. CASE \E n \in KillArgs : Kill(c, p, n)
    BY <2>8, <1>KillEffect, ZenonT(40) DEF Step
  <2>9. CASE \/ CallExit(c, p) \/ CallSleep(c, p) \/ SleepDone(c, p)
             \/ Timer(c, p) \/ Fault(c, p) \/ Deliver(c, p)
             \/ \E sig \in Signals : Raise(c, p, sig)
             \/ \E sig \in Signals, null \in BOOLEAN : Signal(c, p, sig, null)
    BY <2>9, <1>QuietEffect, ZenonT(40) DEF Step
  <2>10. QED
    BY <1>4, <2>1, <2>2, <2>3, <2>4, <2>5, <2>6, <2>7, <2>8, <2>9, ZenonT(40) DEF Process
<1>5. QED
  BY <1>1, <1>2, <1>3, <1>4 DEF Next

-----------------------------------------------------------------------------
(* The theorems.                                                           *)

\* Each process is on one CPU at most, and the CPUs execute RUNNING processes
\* only: scheduler(), sched() and the hand-over of ptable.lock are correct.
THEOREM CPUsCorrect == Spec => []OneCPUPerProcess
<1>1. Init => TypeOK /\ CpuInv
  BY InitType, CpuInit
<1>2. TypeOK /\ CpuInv /\ [Next]_vars => (TypeOK /\ CpuInv)'
  BY NextType, StepKinds, CpuStep
<1>3. TypeOK /\ CpuInv => OneCPUPerProcess
  BY DEF CpuInv
<1>4. QED
  BY <1>1, <1>2, <1>3, PTL DEF Spec

\* No kernel stack is freed while a CPU or a process needs it, and none leaks
\* with its slot: exit() and wait() agree on who frees the stack, and when.
THEOREM StacksCorrect == Spec => []StacksInUse
<1> DEFINE IInv == TypeOK /\ CpuInv /\ StacksInUse
<1>1. Init => IInv
  <2>1. Init => StacksInUse
    <3> SUFFICES ASSUME Init PROVE StacksInUse
      OBVIOUS
    <3>1. \A p \in Slots : proc[p].kstack <=> proc[p].state \notin {"UNUSED", "EMBRYO"}
      BY DEF Init, UnusedProc
    <3>2. \A p \in Slots, c \in CPUs : cpu[c].proc # p
      BY DEF Init, None, Slots
    <3>3. QED
      BY <3>1, <3>2 DEF StacksInUse
  <2>2. QED
    BY <2>1, InitType, CpuInit
<1>2. IInv /\ [Next]_vars => IInv'
  BY NextType, StepKinds, CpuStep, StackStep
<1>3. QED
  BY <1>1, <1>2, PTL DEF Spec

\* Two processes in use never have the same pid, although allocproc() writes
\* a pid into a slot that a failed fork() may have left with an old one.
THEOREM PidsCorrect == Spec => []PidsDiffer
<1> DEFINE IInv == TypeOK /\ CpuInv /\ PidInv
<1>1. Init => IInv
  <2>1. Init => PidInv
    BY DEF Init, UnusedProc, PidInv, PidsDiffer
  <2>2. QED
    BY <2>1, InitType, CpuInit
<1>2. IInv /\ [Next]_vars => IInv'
  BY NextType, StepKinds, CpuStep, PidStep
<1>3. IInv => PidsDiffer
  BY DEF PidInv
<1>4. QED
  BY <1>1, <1>2, <1>3, PTL DEF Spec

\* Signals are pending only between the switch and the delivery loop of the
\* trap() that raised them, wherever the trap interrupted the process: so the
\* delivery loop that scheduler() runs before swtch never finds one.
THEOREM SignalsCorrect == Spec => []SignalsStayInTrap
<1> DEFINE IInv == TypeOK /\ CpuInv /\ TrapInv
<1>1. Init => IInv
  <2>1. Init => TrapInv
    BY DEF Init, UnusedProc, TrapInv
  <2>2. QED
    BY <2>1, InitType, CpuInit
<1>2. IInv /\ [Next]_vars => IInv'
  BY NextType, StepKinds, CpuStep, TrapStep
<1>3. IInv => SignalsStayInTrap
  BY DEF TrapInv, InTrap, CpuInv, OneCPUPerProcess, OnCPU, SignalsStayInTrap
<1>4. QED
  BY <1>1, <1>2, <1>3, PTL DEF Spec

\* Every process but init has a living parent, so wait() can reach every
\* zombie: fork() and exit() keep the family tree together.
THEOREM ParentsCorrect == Spec => []ParentsLive
<1> DEFINE IInv == TypeOK /\ CpuInv /\ FamilyInv
<1>1. Init => IInv
  BY InitType, CpuInit, FamilyInit
<1>2. IInv /\ [Next]_vars => IInv'
  BY NextType, StepKinds, CpuStep, FamilyStep
<1>3. IInv => ParentsLive
  BY DEF FamilyInv
<1>4. QED
  BY <1>1, <1>2, <1>3, PTL DEF Spec

\* A process asleep in wait() has a child, no zombie child, and is not killed:
\* exit(), kill() and the reparenting to init lose no wakeup.
THEOREM WaitCorrect == Spec => []WaiterHasReason
<1> DEFINE IInv == TypeOK /\ CpuInv /\ FamilyInv /\ WaiterInv
<1>1. Init => IInv
  <2>1. Init => WaiterInv
    BY DEF Init, UnusedProc, WaiterInv, SleepsOnSelf, WaiterHasReason, InState
  <2>2. QED
    BY <2>1, InitType, CpuInit, FamilyInit
<1>2. IInv /\ [Next]_vars => IInv'
  BY NextType, StepKinds, CpuStep, FamilyStep, WaiterStep
<1>3. IInv => WaiterHasReason
  BY DEF WaiterInv
<1>4. QED
  BY <1>1, <1>2, <1>3, PTL DEF Spec

=============================================================================
