------------------------------ MODULE ProcInv ------------------------------
(***************************************************************************)
(* The safety invariants of Proc, and the kinds of step that keep them.    *)
(* ProcProofs shows that every step of Proc is of one of these kinds, and  *)
(* has the theorems.  The invariants are proved in layers, each from the   *)
(* layers below it: CpuInv (who is on which CPU), StacksInUse (kernel      *)
(* stacks), PidInv (process ids), TrapInv (pending signals), FamilyInv     *)
(* (parents) and WaiterInv (sleep in wait()).                              *)
(***************************************************************************)
EXTENDS Proc, TLAPS

-----------------------------------------------------------------------------
(* The kinds of step, field by field.                                      *)

\* The fields that tie a slot to its relatives, its channel and its stack.
Body(r) == <<r.pid, r.parent, r.chan, r.kstack>>

\* The scheduler of c switches to p and hands it ptable.lock.
Dispatched(c, p) ==
  /\ proc[p].state = "RUNNABLE" /\ proc'[p].state = "RUNNING"
  /\ Body(proc'[p]) = Body(proc[p])
  /\ proc'[p].pending = {}
  /\ \A q \in Slots : q # p => proc'[q] = proc[q]
  /\ cpu[c].on = "scheduler" /\ lock \in {c, None}
  /\ cpu'[c].on = "process" /\ cpu'[c].proc = p
  /\ \A d \in CPUs : d # c => cpu'[d] = cpu[d]
  /\ lock' = c /\ UNCHANGED <<nextpid, pc, trap, child>>

\* CPU c executes on the kernel stack or in the user space of p.
OnCPU(c, p) == cpu[c].proc = p /\ cpu[c].on = "process"

\* Only p moves.
PcKept(p) == \A q \in Slots : q # p => pc'[q] = pc[q]

\* p becomes a zombie: its children go to init, its parent and, if it inherits
\* a zombie, init are woken.
Exited(c, p) ==
  /\ p # initproc /\ OnCPU(c, p) /\ lock = None /\ sched(c)
  /\ pc[p] = "exit" /\ pc'[p] = "none" /\ PcKept(p)
  /\ trap[p] = "none" /\ UNCHANGED <<nextpid, trap, child>>
  /\ proc'[p].state = "ZOMBIE"
  /\ \A q \in Slots :
       /\ proc'[q].pid = proc[q].pid /\ proc'[q].chan = proc[q].chan
       /\ proc'[q].kstack = proc[q].kstack
       /\ proc'[q].killed = proc[q].killed
       /\ proc'[q].pending = proc[q].pending
       /\ proc'[q].parent = IF proc[q].parent = p THEN initproc ELSE proc[q].parent
       /\ q # p => proc'[q].state =
            IF /\ proc[q].state = "SLEEPING"
               /\ \/ proc[q].chan = proc[p].parent
                  \/ /\ proc[q].chan = initproc
                     /\ \E z \in Slots : proc[z].parent = p /\ proc[z].state = "ZOMBIE"
            THEN "RUNNABLE" ELSE proc[q].state

\* The fields of slot q other than its channel are left alone.
KeepsButChan(q) ==
  /\ proc'[q].state = proc[q].state /\ proc'[q].pid = proc[q].pid
  /\ proc'[q].parent = proc[q].parent /\ proc'[q].kstack = proc[q].kstack
  /\ proc'[q].killed = proc[q].killed /\ proc'[q].pending = proc[q].pending

\* What a pass of wait() did: it reaped a zombie, gave up, or went to sleep.
Reaps(c, p) ==
  /\ \E z \in Slots :
       /\ proc[z].parent = p /\ proc[z].state = "ZOMBIE"
       /\ proc'[z].state = "UNUSED" /\ proc'[z].pid = 0
       /\ proc'[z].parent = None /\ proc'[z].kstack = FALSE
       /\ proc'[z].pending = proc[z].pending
       /\ \A q \in Slots : q # z => KeepsButChan(q)
       /\ \A q \in Slots : q # p => proc'[q].chan = proc[q].chan
  /\ lock' = None /\ cpu' = cpu /\ pc'[p] \in {"user", "exit"}

GivesUp(c, p) ==
  /\ \A q \in Slots : KeepsButChan(q) /\ (q # p => proc'[q].chan = proc[q].chan)
  /\ lock' = None /\ cpu' = cpu /\ pc'[p] \in {"user", "exit"}

SleepsInWait(c, p) ==
  /\ proc'[p].state = "SLEEPING" /\ proc'[p].chan = p
  /\ proc'[p].pid = proc[p].pid /\ proc'[p].parent = proc[p].parent
  /\ proc'[p].kstack = proc[p].kstack /\ proc'[p].killed = proc[p].killed
  /\ proc'[p].pending = proc[p].pending
  /\ \A q \in Slots : q # p => proc'[q] = proc[q]
  /\ sched(c) /\ pc'[p] = "wait"
  /\ Children(p) # {} /\ Children(p) \cap InState("ZOMBIE") = {} /\ ~proc[p].killed

\* A pass of wait()'s loop, with ptable.lock taken or handed over.
Waited(c, p) ==
  /\ OnCPU(c, p) /\ lock \in {c, None} /\ PcKept(p)
  /\ UNCHANGED <<nextpid, trap, child>>
  /\ pc[p] # "fork"
  /\ lock = None => trap[p] = "none"
  /\ Reaps(c, p) \/ GivesUp(c, p) \/ SleepsInWait(c, p)

\* allocproc() gives p the slot child'[p].
Forked(c, p) ==
  /\ OnCPU(c, p) /\ pc[p] = "user" /\ pc'[p] = "fork" /\ PcKept(p)
  /\ UNCHANGED <<lock, cpu, trap>>
  /\ nextpid' = nextpid + 1
  /\ child'[p] \in Slots
  /\ \A q \in Slots : q # p => child'[q] = child[q]
  /\ proc[child'[p]].state = "UNUSED" /\ proc'[child'[p]].state = "EMBRYO"
  /\ proc'[child'[p]].pid = nextpid
  /\ proc'[child'[p]].parent = proc[child'[p]].parent
  /\ proc'[child'[p]].kstack = proc[child'[p]].kstack
  /\ proc'[child'[p]].pending = {}
  /\ \A q \in Slots : q # child'[p] => proc'[q] = proc[q]

\* fork() gives the slot back, or makes the child runnable.
ForkEnded(c, p) ==
  /\ OnCPU(c, p) /\ pc[p] = "fork" /\ UNCHANGED <<nextpid, lock, cpu, trap>>
  /\ trap[p] = "none"
  /\ child[p] # p => pc'[p] \in {"user", "exit"}
  /\ \A q \in Slots : q \notin {p, child[p]} => pc'[q] = pc[q]
  /\ pc'[child[p]] \in {pc[child[p]], "user", "exit", "forkret"}
  /\ \A q \in Slots : q # p => child'[q] = child[q]
  /\ \A q \in Slots : q # child[p] => proc'[q] = proc[q]
  /\ proc'[child[p]].pid = proc[child[p]].pid
  /\ proc'[child[p]].pending = proc[child[p]].pending
  /\ \/ /\ proc'[child[p]].state = "UNUSED" /\ proc'[child[p]].kstack = FALSE
        /\ proc'[child[p]].parent = proc[child[p]].parent
     \/ /\ proc'[child[p]].state = "RUNNABLE" /\ proc'[child[p]].kstack = TRUE
        /\ proc'[child[p]].parent = p

\* A step of p that leaves the CPUs, the lock, the states and the family alone.
Quiet(c, p) ==
  /\ OnCPU(c, p) /\ lock # c /\ UNCHANGED <<nextpid, lock, cpu, child>>
  /\ PcKept(p) /\ (pc[p] = "fork" <=> pc'[p] = "fork")
  /\ proc'[p].state = proc[p].state /\ Body(proc'[p]) = Body(proc[p])
  /\ \/ proc'[p].pending = {}
     \/ trap'[p] = "deliver"
     \/ trap[p] # "deliver" /\ proc'[p].pending = proc[p].pending
  /\ trap'[p] # "none" => pc'[p] \in {"user", "fork", "asleep", "exit"}
  /\ \A q \in Slots : q # p => proc'[q] = proc[q] /\ trap'[q] = trap[q]

\* p continues behind swtch and releases ptable.lock.
Resumed(c, p) ==
  /\ OnCPU(c, p) /\ lock = c /\ lock' = None
  /\ UNCHANGED <<nextpid, cpu, trap, child>>
  /\ PcKept(p) /\ (pc[p] = "fork" <=> pc'[p] = "fork")
  /\ \A q \in Slots : KeepsButChan(q) /\ (q # p => proc'[q].chan = proc[q].chan)

\* p gives up the CPU and can be picked again at once, or sleeps on &ticks.
Leaves(c, p) ==
  /\ OnCPU(c, p) /\ lock = None /\ sched(c) /\ UNCHANGED <<nextpid, child>>
  /\ PcKept(p) /\ (pc[p] = "fork" <=> pc'[p] = "fork")
  /\ \/ proc'[p].state = "RUNNABLE"
     \/ proc'[p].state = "SLEEPING" /\ pc'[p] = "asleep"
  /\ proc'[p].pid = proc[p].pid /\ proc'[p].parent = proc[p].parent
  /\ proc'[p].kstack = proc[p].kstack
  /\ proc'[p].pending = proc[p].pending
  /\ trap[p] # "deliver" /\ trap'[p] = "none"
  /\ \A q \in Slots : q # p => proc'[q] = proc[q] /\ trap'[q] = trap[q]

\* A step that only rouses sleepers, and kills none that goes on sleeping.
Rouses ==
  /\ lock = None /\ UNCHANGED <<nextpid, lock, cpu, trap, child>>
  /\ \A q \in Slots :
       /\ Body(proc'[q]) = Body(proc[q]) /\ proc'[q].pending = proc[q].pending
       /\ \/ proc'[q].state = proc[q].state
          \/ proc[q].state = "SLEEPING" /\ proc'[q].state = "RUNNABLE"
       /\ proc'[q].state = "SLEEPING" => proc'[q].killed = proc[q].killed
       /\ pc'[q] # pc[q] => /\ trap[q] = "none"
                            /\ pc[q] = "user" /\ pc'[q] \in {"user", "exit"}
                            /\ \E c \in CPUs : OnCPU(c, q)

\* What a step can be.
Step ==
  \/ UNCHANGED <<proc, nextpid, lock, cpu, pc, trap, child>>
  \/ Rouses
  \/ \E c \in CPUs : EndOfScan(c) \/ \E p \in Slots : Dispatched(c, p)
  \/ \E c \in CPUs, p \in Slots :
       \/ Quiet(c, p) \/ Resumed(c, p) \/ Leaves(c, p)
       \/ Waited(c, p) \/ Exited(c, p) \/ Forked(c, p)
       \/ OnCPU(c, p) /\ pc[p] = "fork" /\ (child[p] \in Slots => ForkEnded(c, p))

\* sched() leaves the CPU to its scheduler, still naming the process.
LEMMA schedEffect ==
  ASSUME TypeOK, NEW c \in CPUs, sched(c)
  PROVE  /\ lock' = c
         /\ cpu'[c].on = "scheduler" /\ cpu'[c].proc = cpu[c].proc
         /\ \A d \in CPUs : d # c => cpu'[d] = cpu[d]
BY DEF sched, TypeOK, CPURecord

-----------------------------------------------------------------------------
(* Who is on which CPU.                                                    *)

\* A scheduler that still names the process it ran holds ptable.lock.
HandOver ==
  \A c \in CPUs : cpu[c].on = "scheduler" /\ cpu[c].proc # None => lock = c

\* A fork() in progress owns the slot that allocproc() gave it.
ForkOwnsChild ==
  /\ \A p \in Slots : pc[p] = "fork" =>
       child[p] \in Slots /\ proc[child[p]].state = "EMBRYO"
  /\ \A p, q \in Slots :
       pc[p] = "fork" /\ pc[q] = "fork" /\ child[p] = child[q] => p = q

CpuInv == OneCPUPerProcess /\ HandOver /\ ForkOwnsChild

\* At boot no CPU has a process, and only initproc is in the table.
LEMMA CpuInit == Init => CpuInv
<1> SUFFICES ASSUME Init PROVE CpuInv
  OBVIOUS
<1>1. \A c \in CPUs : cpu[c].proc = None /\ cpu[c].on = "scheduler"
  BY DEF Init
<1>2. \A p \in Slots : proc[p].state # "RUNNING" /\ pc[p] # "fork"
  BY DEF Init, UnusedProc
<1>3. QED
  BY <1>1, <1>2 DEF CpuInv, OneCPUPerProcess, HandOver, ForkOwnsChild, InState

\* Every step keeps each process on one CPU at most: the lock that sched()
\* and scheduler() hand over is held whenever a CPU names a process that is
\* not executing.
LEMMA CpuStep == TypeOK /\ CpuInv /\ Step => CpuInv'
\* Two properties of OneCPUPerProcess: it depends on the CPUs and on who is
\* RUNNING alone, and it survives that a CPU gives up its process.
<1>SameRunning. ASSUME TypeOK, OneCPUPerProcess, cpu' = cpu,
                       \A q \in Slots : proc'[q].state = "RUNNING" <=> proc[q].state = "RUNNING"
                PROVE  OneCPUPerProcess'
  <2> USE <1>SameRunning
  <2>1. \A c \in CPUs : cpu[c].proc \in Slots \cup {None}
    BY DEF TypeOK, CPURecord
  <2>2. QED
    BY <2>1 DEF OneCPUPerProcess, InState
\* sched() takes the process p off CPU c.
<1>LeavesCPU. ASSUME TypeOK, OneCPUPerProcess, NEW c \in CPUs, NEW p \in Slots,
                     OnCPU(c, p), sched(c), proc'[p].state # "RUNNING",
                     \A q \in Slots : q # p =>
                        (proc'[q].state = "RUNNING" <=> proc[q].state = "RUNNING")
              PROVE  OneCPUPerProcess'
  <2> USE <1>LeavesCPU
  <2>1. \A d \in CPUs : cpu[d].proc \in Slots \cup {None}
    BY DEF TypeOK, CPURecord
  <2>2. /\ cpu'[c].on = "scheduler" /\ cpu'[c].proc = cpu[c].proc
        /\ \A d \in CPUs : d # c => cpu'[d] = cpu[d]
    BY schedEffect
  <2>3. \A d, e \in CPUs :
          cpu'[d].proc = cpu'[e].proc /\ cpu'[d].proc # None => d = e
    BY <2>2 DEF OneCPUPerProcess
  <2>4. \A q \in Slots : proc'[q].state = "RUNNING" =>
          \E d \in CPUs : cpu'[d].proc = q /\ cpu'[d].on = "process"
    BY <2>2 DEF OneCPUPerProcess, InState, OnCPU
  <2>5. \A d \in CPUs : cpu'[d].on = "process" =>
          cpu'[d].proc # None /\ proc'[cpu'[d].proc].state = "RUNNING"
    BY <2>1, <2>2 DEF OneCPUPerProcess, OnCPU
  <2>6. QED
    BY <2>3, <2>4, <2>5 DEF OneCPUPerProcess, InState
<1> SUFFICES ASSUME TypeOK, OneCPUPerProcess, HandOver, ForkOwnsChild, Step PROVE CpuInv'
  BY DEF CpuInv
<1>0. \A c \in CPUs : c # None
  BY DEF CPUs, None
<1>a. None \notin Slots
  BY DEF Slots, None
<1>1. CASE UNCHANGED <<proc, nextpid, lock, cpu, pc, trap, child>>
  <2>1. OneCPUPerProcess' /\ HandOver'
    BY <1>1 DEF OneCPUPerProcess, HandOver, InState
  <2>2. ForkOwnsChild'
    BY <1>1 DEF ForkOwnsChild
  <2>3. QED
    BY <2>1, <2>2 DEF CpuInv
<1>2. CASE Rouses
  <2>1. /\ UNCHANGED <<lock, cpu, child>>
        /\ \A q \in Slots :
             /\ \/ proc'[q].state = proc[q].state
                \/ proc[q].state = "SLEEPING" /\ proc'[q].state = "RUNNABLE"
             /\ pc'[q] = "fork" => pc[q] = "fork"
    BY <1>2 DEF Rouses
  <2>2. OneCPUPerProcess'
    BY <2>1, <1>SameRunning
  <2>3. HandOver'
    BY <2>1 DEF HandOver
  <2>4. ForkOwnsChild'
    BY <2>1 DEF ForkOwnsChild
  <2>5. QED
    BY <2>2, <2>3, <2>4 DEF CpuInv
<1>3. ASSUME NEW c \in CPUs, EndOfScan(c) PROVE CpuInv'
  <2>1. /\ cpu'[c].proc = None /\ cpu'[c].on = "scheduler"
        /\ \A d \in CPUs : d # c => cpu'[d] = cpu[d]
    BY <1>3 DEF EndOfScan, TypeOK
  <2>2. cpu[c].on = "scheduler" /\ lock = c /\ lock' = None /\ UNCHANGED <<proc, pc, child>>
    BY <1>3 DEF EndOfScan
  <2>3. OneCPUPerProcess'
    BY <2>1, <2>2 DEF OneCPUPerProcess, InState
  <2>4. HandOver'
    BY <2>1, <2>2 DEF HandOver
  <2>5. ForkOwnsChild'
    BY <2>2 DEF ForkOwnsChild
  <2>6. QED
    BY <2>3, <2>4, <2>5 DEF CpuInv
<1>4. ASSUME NEW c \in CPUs, NEW p \in Slots, Dispatched(c, p) PROVE CpuInv'
  <2>1. /\ proc[p].state = "RUNNABLE" /\ proc'[p].state = "RUNNING"
        /\ \A q \in Slots : q # p => proc'[q] = proc[q]
        /\ cpu[c].on = "scheduler" /\ lock \in {c, None}
        /\ cpu'[c].on = "process" /\ cpu'[c].proc = p
        /\ \A d \in CPUs : d # c => cpu'[d] = cpu[d]
    BY <1>4 DEF Dispatched
  <2>2. \A d \in CPUs :
          cpu[d].proc \in Slots \cup {None} /\ cpu[d].on \in {"scheduler", "process"}
    BY DEF TypeOK, CPURecord
  <2>3. \A d \in CPUs : d # c => cpu[d].proc # p
    BY <1>0, <1>a, <2>1, <2>2 DEF OneCPUPerProcess, HandOver
  <2>4. \A d, e \in CPUs :
          cpu'[d].proc = cpu'[e].proc /\ cpu'[d].proc # None => d = e
    BY <2>1, <2>3 DEF OneCPUPerProcess
  <2>5. \A q \in Slots : proc'[q].state = "RUNNING" =>
          \E d \in CPUs : cpu'[d].proc = q /\ cpu'[d].on = "process"
    BY <2>1 DEF OneCPUPerProcess, InState
  <2>6. \A d \in CPUs : cpu'[d].on = "process" =>
          cpu'[d].proc # None /\ proc'[cpu'[d].proc].state = "RUNNING"
    BY <1>a, <2>1, <2>2, <2>3 DEF OneCPUPerProcess
  <2>7. OneCPUPerProcess'
    BY <2>4, <2>5, <2>6 DEF OneCPUPerProcess, InState
  <2>8. HandOver'
    BY <1>0, <1>4 DEF Dispatched, HandOver
  <2>9. ForkOwnsChild'
    BY <1>4 DEF Dispatched, ForkOwnsChild
  <2>10. QED
    BY <2>7, <2>8, <2>9 DEF CpuInv
<1>5. ASSUME NEW c \in CPUs, NEW p \in Slots, Quiet(c, p) PROVE CpuInv'
  <2>1. /\ UNCHANGED <<lock, cpu, child>>
        /\ \A q \in Slots : proc'[q].state = proc[q].state /\ (pc'[q] = "fork" <=> pc[q] = "fork")
    BY <1>5 DEF Quiet, PcKept
  <2>2. OneCPUPerProcess'
    BY <2>1, <1>SameRunning
  <2>3. HandOver' /\ ForkOwnsChild'
    BY <2>1 DEF HandOver, ForkOwnsChild
  <2>4. QED
    BY <2>2, <2>3 DEF CpuInv
<1>6. ASSUME NEW c \in CPUs, NEW p \in Slots, Resumed(c, p) PROVE CpuInv'
  <2>1. /\ OnCPU(c, p) /\ lock = c /\ UNCHANGED <<cpu, child>>
        /\ \A q \in Slots : proc'[q].state = proc[q].state /\ (pc'[q] = "fork" <=> pc[q] = "fork")
    BY <1>6 DEF Resumed, KeepsButChan, PcKept
  <2>2. OneCPUPerProcess'
    BY <2>1, <1>SameRunning
  <2>3. HandOver' /\ ForkOwnsChild'
    BY <2>1 DEF HandOver, ForkOwnsChild, OnCPU
  <2>4. QED
    BY <2>2, <2>3 DEF CpuInv
<1>7. ASSUME NEW c \in CPUs, NEW p \in Slots, Leaves(c, p) PROVE CpuInv'
  <2>1. /\ OnCPU(c, p) /\ lock = None /\ UNCHANGED child
        /\ \A q \in Slots : pc'[q] = "fork" <=> pc[q] = "fork"
        /\ proc'[p].state \in {"RUNNABLE", "SLEEPING"}
        /\ \A q \in Slots : q # p => proc'[q] = proc[q]
    BY <1>7 DEF Leaves, PcKept
  <2>2. /\ sched(c) /\ lock' = c
        /\ cpu'[c].on = "scheduler" /\ cpu'[c].proc = cpu[c].proc
        /\ \A d \in CPUs : d # c => cpu'[d] = cpu[d]
    BY <1>7, schedEffect DEF Leaves
  <2>3. OneCPUPerProcess'
    BY <2>1, <2>2, <1>LeavesCPU
  <2>4. HandOver'
    BY <1>0, <2>1, <2>2 DEF HandOver
  <2>5. ForkOwnsChild'
    BY <2>1 DEF OnCPU, ForkOwnsChild, OneCPUPerProcess
  <2>6. QED
    BY <2>3, <2>4, <2>5 DEF CpuInv
<1>8. ASSUME NEW c \in CPUs, NEW p \in Slots, Waited(c, p) PROVE CpuInv'
  <2>1. /\ OnCPU(c, p) /\ lock \in {c, None} /\ UNCHANGED child
        /\ pc[p] # "fork" /\ PcKept(p)
    BY <1>8 DEF Waited
  <2>2. proc[p].state = "RUNNING"
    BY <2>1 DEF OnCPU, OneCPUPerProcess
  <2>3. CASE Reaps(c, p)
    <3>1. PICK z \in Slots : /\ proc[z].state = "ZOMBIE" /\ proc'[z].state = "UNUSED"
                             /\ \A q \in Slots : q # z => KeepsButChan(q)
      BY <2>3 DEF Reaps
    <3>2. lock' = None /\ cpu' = cpu /\ pc'[p] # "fork"
      BY <2>3 DEF Reaps
    <3>3. \A q \in Slots : q # z => proc'[q].state = proc[q].state
      BY <3>1 DEF KeepsButChan
    <3>4. \A q \in Slots : pc'[q] = "fork" <=> pc[q] = "fork"
      BY <2>1, <3>2 DEF PcKept
    <3>5. OneCPUPerProcess'
      BY <3>1, <3>2, <3>3, <1>SameRunning
    <3>6. HandOver'
      BY <2>1, <3>2 DEF OnCPU, HandOver
    <3>7. ForkOwnsChild'
      BY <2>1, <3>1, <3>3, <3>4 DEF ForkOwnsChild
    <3>8. QED
      BY <3>5, <3>6, <3>7 DEF CpuInv
  <2>4. CASE GivesUp(c, p)
    <3>1. lock' = None /\ cpu' = cpu /\ pc'[p] # "fork"
      BY <2>4 DEF GivesUp
    <3>2. \A q \in Slots : proc'[q].state = proc[q].state
      BY <2>4 DEF GivesUp, KeepsButChan
    <3>3. \A q \in Slots : pc'[q] = "fork" <=> pc[q] = "fork"
      BY <2>1, <3>1 DEF PcKept
    <3>4. OneCPUPerProcess'
      BY <3>1, <3>2, <1>SameRunning
    <3>5. HandOver' /\ ForkOwnsChild'
      BY <2>1, <3>1, <3>2, <3>3 DEF OnCPU, HandOver, ForkOwnsChild
    <3>6. QED
      BY <3>4, <3>5 DEF CpuInv
  <2>5. CASE SleepsInWait(c, p)
    <3>1. /\ proc'[p].state = "SLEEPING" /\ pc'[p] # "fork"
          /\ \A q \in Slots : q # p => proc'[q] = proc[q]
      BY <2>5 DEF SleepsInWait
    <3>2. /\ sched(c) /\ lock' = c
          /\ cpu'[c].on = "scheduler" /\ cpu'[c].proc = cpu[c].proc
          /\ \A d \in CPUs : d # c => cpu'[d] = cpu[d]
      BY <2>5, schedEffect DEF SleepsInWait
    <3>3. OneCPUPerProcess'
      BY <2>1, <3>1, <3>2, <1>LeavesCPU
    <3>4. HandOver'
      BY <1>0, <2>1, <3>2 DEF HandOver
    <3>5. ForkOwnsChild'
      BY <2>1, <2>2, <3>1 DEF PcKept, ForkOwnsChild
    <3>6. QED
      BY <3>3, <3>4, <3>5 DEF CpuInv
  <2>6. QED
    BY <1>8, <2>3, <2>4, <2>5 DEF Waited
<1>9. ASSUME NEW c \in CPUs, NEW p \in Slots, Exited(c, p) PROVE CpuInv'
  <2>1. /\ OnCPU(c, p) /\ lock = None /\ UNCHANGED child
        /\ \A q \in Slots : pc'[q] = "fork" <=> pc[q] = "fork"
        /\ proc'[p].state = "ZOMBIE"
    BY <1>9 DEF Exited, PcKept
  <2>2. \A q \in Slots : q # p =>
          \/ proc'[q].state = proc[q].state
          \/ proc[q].state = "SLEEPING" /\ proc'[q].state = "RUNNABLE"
    BY <1>9 DEF Exited
  <2>3. /\ sched(c) /\ lock' = c
        /\ cpu'[c].on = "scheduler" /\ cpu'[c].proc = cpu[c].proc
        /\ \A d \in CPUs : d # c => cpu'[d] = cpu[d]
    BY <1>9, schedEffect DEF Exited
  <2>4. OneCPUPerProcess'
    BY <2>1, <2>2, <2>3, <1>LeavesCPU
  <2>5. HandOver'
    BY <1>0, <2>1, <2>3 DEF HandOver
  <2>6. ForkOwnsChild'
    BY <2>1, <2>2 DEF OnCPU, ForkOwnsChild, OneCPUPerProcess
  <2>7. QED
    BY <2>4, <2>5, <2>6 DEF CpuInv
<1>10. ASSUME NEW c \in CPUs, NEW p \in Slots, Forked(c, p) PROVE CpuInv'
  <2> DEFINE np == child'[p]
  <2>1. /\ np \in Slots /\ proc[np].state = "UNUSED" /\ proc'[np].state = "EMBRYO"
        /\ \A q \in Slots : q # np => proc'[q] = proc[q]
        /\ \A q \in Slots : q # p => child'[q] = child[q] /\ pc'[q] = pc[q]
        /\ UNCHANGED <<lock, cpu>>
    BY <1>10 DEF Forked, PcKept
  <2>2. OneCPUPerProcess'
    BY <2>1, <1>SameRunning
  <2>3. HandOver'
    BY <2>1 DEF HandOver
  <2>4. ForkOwnsChild'
    BY <2>1 DEF ForkOwnsChild
  <2>5. QED
    BY <2>2, <2>3, <2>4 DEF CpuInv
<1>11. ASSUME NEW c \in CPUs, NEW p \in Slots, OnCPU(c, p), pc[p] = "fork",
              child[p] \in Slots => ForkEnded(c, p)
       PROVE  CpuInv'
  <2> DEFINE np == child[p]
  <2>1. /\ np \in Slots /\ proc[np].state = "EMBRYO" /\ proc[p].state = "RUNNING"
        /\ ForkEnded(c, p)
    BY <1>11 DEF ForkOwnsChild, OnCPU, OneCPUPerProcess
  <2>2. /\ proc'[np].state \in {"UNUSED", "RUNNABLE"} /\ pc'[p] # "fork"
        /\ \A q \in Slots : q # np => proc'[q] = proc[q]
        /\ \A q \in Slots : q # p => child'[q] = child[q]
        /\ \A q \in Slots : pc'[q] = "fork" => pc[q] = "fork"
        /\ UNCHANGED <<lock, cpu>>
    BY <2>1 DEF ForkEnded
  <2>3. OneCPUPerProcess'
    <3>1. \A q \in Slots : proc'[q].state = "RUNNING" <=> proc[q].state = "RUNNING"
      BY <2>1, <2>2
    <3>2. QED
      BY <2>2, <3>1, <1>SameRunning
  <2>4. HandOver'
    BY <2>2 DEF HandOver
  <2>5. ForkOwnsChild'
    BY <1>11, <2>1, <2>2 DEF ForkOwnsChild
  <2>6. QED
    BY <2>3, <2>4, <2>5 DEF CpuInv
<1>12. QED
  BY <1>1, <1>2, <1>3, <1>4, <1>5, <1>6, <1>7, <1>8, <1>9, <1>10, <1>11 DEF Step

-----------------------------------------------------------------------------
(* Kernel stacks.                                                          *)

\* The slots keep their stacks and stay on the same side of allocation.
StacksKept(q) ==
  /\ proc'[q].kstack = proc[q].kstack
  /\ proc'[q].state \in {"UNUSED", "EMBRYO"} <=> proc[q].state \in {"UNUSED", "EMBRYO"}

\* Every step keeps StacksInUse: a zombie that wait() frees is on no CPU,
\* because the CPU it exited on gives up the lock only at the end of its scan.
LEMMA StackStep == TypeOK /\ CpuInv /\ StacksInUse /\ Step => StacksInUse'
\* A step that allocates and frees no slot, and gives a CPU to no process
\* without a stack, keeps StacksInUse.
<1>StacksFrame. ASSUME TypeOK, StacksInUse, \A q \in Slots : StacksKept(q),
                       \A c \in CPUs : cpu'[c].proc \in {cpu[c].proc, None}
                PROVE  StacksInUse'
  <2> USE <1>StacksFrame
  <2>1. None \notin Slots
    BY DEF Slots, None
  <2>2. \A q \in Slots, c \in CPUs : cpu'[c].proc = q => cpu[c].proc = q
    BY <2>1
  <2>3. QED
    BY <2>2 DEF StacksInUse, StacksKept
<1> SUFFICES ASSUME TypeOK, OneCPUPerProcess, HandOver, ForkOwnsChild, StacksInUse, Step
             PROVE  StacksInUse'
  BY DEF CpuInv
<1>0. None \notin Slots /\ \A c \in CPUs : c # None
  BY DEF Slots, CPUs, None
<1>1. CASE UNCHANGED <<proc, nextpid, lock, cpu, pc, trap, child>>
  BY <1>1 DEF StacksInUse
<1>2. CASE Rouses
  BY <1>2, <1>StacksFrame DEF Rouses, StacksKept, Body
<1>3. ASSUME NEW c \in CPUs, EndOfScan(c) PROVE StacksInUse'
  <2>1. \A d \in CPUs : cpu'[d].proc \in {cpu[d].proc, None}
    BY <1>3 DEF EndOfScan, TypeOK
  <2>2. QED
    BY <1>3, <2>1, <1>StacksFrame DEF EndOfScan, StacksKept
<1>4. ASSUME NEW c \in CPUs, NEW p \in Slots, Dispatched(c, p) PROVE StacksInUse'
  <2>1. \A q \in Slots : StacksKept(q)
    BY <1>4 DEF Dispatched, StacksKept, Body
  <2>2. proc[p].kstack
    BY <1>4 DEF Dispatched, StacksInUse
  <2>3. \A q \in Slots, d \in CPUs : cpu'[d].proc = q => cpu[d].proc = q \/ q = p
    BY <1>4 DEF Dispatched
  <2>4. QED
    BY <2>1, <2>2, <2>3 DEF StacksInUse, StacksKept
<1>5. ASSUME NEW c \in CPUs, NEW p \in Slots, Quiet(c, p) PROVE StacksInUse'
  BY <1>5, <1>StacksFrame DEF Quiet, StacksKept, Body
<1>6. ASSUME NEW c \in CPUs, NEW p \in Slots, Resumed(c, p) PROVE StacksInUse'
  BY <1>6, <1>StacksFrame DEF Resumed, StacksKept, KeepsButChan
<1>7. ASSUME NEW c \in CPUs, NEW p \in Slots, OnCPU(c, p), sched(c),
             \A q \in Slots : StacksKept(q)
      PROVE  StacksInUse'
  <2>1. \A d \in CPUs : cpu'[d].proc \in {cpu[d].proc, None}
    BY <1>7, schedEffect
  <2>2. QED
    BY <1>7, <2>1, <1>StacksFrame
<1>8. ASSUME NEW c \in CPUs, NEW p \in Slots, OnCPU(c, p)
      PROVE  proc[p].state = "RUNNING"
  BY <1>8 DEF OneCPUPerProcess, OnCPU
<1>9. ASSUME NEW c \in CPUs, NEW p \in Slots, Leaves(c, p) PROVE StacksInUse'
  BY <1>7, <1>8, <1>9 DEF Leaves, StacksKept
<1>10. ASSUME NEW c \in CPUs, NEW p \in Slots, Waited(c, p) PROVE StacksInUse'
  <2>1. OnCPU(c, p) /\ lock \in {c, None} /\ proc[p].state = "RUNNING"
    BY <1>8, <1>10 DEF Waited
  <2>2. CASE Reaps(c, p)
    <3>1. PICK z \in Slots : /\ proc[z].state = "ZOMBIE" /\ proc'[z].state = "UNUSED"
                             /\ proc'[z].kstack = FALSE
                             /\ \A q \in Slots : q # z => KeepsButChan(q)
      BY <2>2 DEF Reaps
    <3>2. \A q \in Slots : q # z => StacksKept(q)
      BY <3>1 DEF KeepsButChan, StacksKept
    <3>3. cpu' = cpu
      BY <2>2 DEF Reaps
    <3>4. \A d \in CPUs : cpu[d].proc # z
      <4>1. \A d \in CPUs : cpu[d].on \in {"scheduler", "process"}
        BY DEF TypeOK, CPURecord
      <4>2. QED
        BY <1>0, <2>1, <3>1, <4>1 DEF OneCPUPerProcess, HandOver, OnCPU
    <3>5. QED
      BY <3>1, <3>2, <3>3, <3>4 DEF StacksInUse, StacksKept
  <2>3. CASE GivesUp(c, p)
    BY <2>3, <1>StacksFrame DEF GivesUp, KeepsButChan, StacksKept
  <2>4. CASE SleepsInWait(c, p)
    BY <1>7, <2>1, <2>4 DEF SleepsInWait, StacksKept
  <2>5. QED
    BY <1>10, <2>2, <2>3, <2>4 DEF Waited
<1>11. ASSUME NEW c \in CPUs, NEW p \in Slots, Exited(c, p) PROVE StacksInUse'
  <2>1. OnCPU(c, p) /\ sched(c) /\ proc[p].state = "RUNNING"
    BY <1>8, <1>11 DEF Exited
  <2>2. \A q \in Slots : StacksKept(q)
    BY <1>11, <2>1 DEF Exited, StacksKept
  <2>3. QED
    BY <1>7, <2>1, <2>2
<1>12. ASSUME NEW c \in CPUs, NEW p \in Slots, Forked(c, p) PROVE StacksInUse'
  <2>1. \A q \in Slots : StacksKept(q)
    BY <1>12 DEF Forked, StacksKept
  <2>2. QED
    BY <1>12, <2>1, <1>StacksFrame DEF Forked
<1>13. ASSUME NEW c \in CPUs, NEW p \in Slots, OnCPU(c, p), pc[p] = "fork",
              child[p] \in Slots => ForkEnded(c, p)
       PROVE  StacksInUse'
  <2> DEFINE np == child[p]
  <2>1. np \in Slots /\ proc[np].state = "EMBRYO" /\ ForkEnded(c, p)
    BY <1>13 DEF ForkOwnsChild
  <2>2. /\ \/ proc'[np].state = "UNUSED" /\ proc'[np].kstack = FALSE
           \/ proc'[np].state = "RUNNABLE" /\ proc'[np].kstack = TRUE
        /\ \A q \in Slots : q # np => proc'[q] = proc[q]
        /\ cpu' = cpu
    BY <2>1 DEF ForkEnded
  <2>3. \A d \in CPUs : cpu[d].proc # np
    BY <2>1 DEF StacksInUse
  <2> HIDE DEF np
  <2>4. QED
    BY <2>1, <2>2, <2>3 DEF StacksInUse
<1>14. QED
  BY <1>1, <1>2, <1>3, <1>4, <1>5, <1>6, <1>9, <1>10, <1>11, <1>12, <1>13 DEF Step

-----------------------------------------------------------------------------
(* Process ids.                                                            *)

\* Every pid in use was handed out, and no pid is in use twice.
PidInv ==
  /\ \A p \in Slots : proc[p].state # "UNUSED" => proc[p].pid < nextpid
  /\ PidsDiffer

\* Only allocproc() takes a slot into use, with a pid above all others.
LEMMA PidStep == TypeOK /\ CpuInv /\ PidInv /\ Step => PidInv'
\* A step that takes no slot into use keeps PidInv.
<1>PidFrame. ASSUME PidInv, nextpid' = nextpid,
                    \A q \in Slots : proc'[q].state # "UNUSED" =>
                       proc[q].state # "UNUSED" /\ proc'[q].pid = proc[q].pid
             PROVE  PidInv'
  BY <1>PidFrame DEF PidInv, PidsDiffer
<1> SUFFICES ASSUME TypeOK, CpuInv, PidInv, Step PROVE PidInv'
  OBVIOUS
<1>1. CASE UNCHANGED <<proc, nextpid, lock, cpu, pc, trap, child>>
  BY <1>1, <1>PidFrame
<1>2. CASE Rouses
  BY <1>2, <1>PidFrame DEF Rouses, Body
<1>3. ASSUME NEW c \in CPUs, EndOfScan(c) PROVE PidInv'
  BY <1>3, <1>PidFrame DEF EndOfScan
<1>4. ASSUME NEW c \in CPUs, NEW p \in Slots, Dispatched(c, p) PROVE PidInv'
  BY <1>4, <1>PidFrame DEF Dispatched, Body
<1>5. ASSUME NEW c \in CPUs, NEW p \in Slots, Quiet(c, p) PROVE PidInv'
  BY <1>5, <1>PidFrame DEF Quiet, Body
<1>6. ASSUME NEW c \in CPUs, NEW p \in Slots, Resumed(c, p) PROVE PidInv'
  BY <1>6, <1>PidFrame DEF Resumed, KeepsButChan
<1>7. ASSUME NEW c \in CPUs, NEW p \in Slots, OnCPU(c, p)
      PROVE  proc[p].state = "RUNNING"
  BY <1>7 DEF CpuInv, OneCPUPerProcess, OnCPU
<1>8. ASSUME NEW c \in CPUs, NEW p \in Slots, Leaves(c, p) PROVE PidInv'
  BY <1>7, <1>8, <1>PidFrame DEF Leaves
<1>9. ASSUME NEW c \in CPUs, NEW p \in Slots, Waited(c, p) PROVE PidInv'
  <2>1. proc[p].state = "RUNNING" /\ nextpid' = nextpid
    BY <1>7, <1>9 DEF Waited
  <2>2. CASE Reaps(c, p)
    BY <2>1, <2>2, <1>PidFrame DEF Reaps, KeepsButChan
  <2>3. CASE GivesUp(c, p)
    BY <2>1, <2>3, <1>PidFrame DEF GivesUp, KeepsButChan
  <2>4. CASE SleepsInWait(c, p)
    BY <2>1, <2>4, <1>PidFrame DEF SleepsInWait
  <2>5. QED
    BY <1>9, <2>2, <2>3, <2>4 DEF Waited
<1>10. ASSUME NEW c \in CPUs, NEW p \in Slots, Exited(c, p) PROVE PidInv'
  <2>1. proc[p].state = "RUNNING"
    BY <1>7, <1>10 DEF Exited
  <2>2. \A q \in Slots : proc'[q].state # "UNUSED" =>
          proc[q].state # "UNUSED" /\ proc'[q].pid = proc[q].pid
    BY <1>10, <2>1 DEF Exited
  <2>3. QED
    BY <1>10, <2>2, <1>PidFrame DEF Exited
<1>11. ASSUME NEW c \in CPUs, NEW p \in Slots, Forked(c, p) PROVE PidInv'
  <2> DEFINE np == child'[p]
  <2>1. /\ np \in Slots /\ proc'[np].pid = nextpid /\ nextpid' = nextpid + 1
        /\ \A q \in Slots : q # np => proc'[q] = proc[q]
    BY <1>11 DEF Forked
  <2>2. nextpid \in Nat /\ \A q \in Slots : proc[q].pid \in Nat
    BY ProcAssumption DEF TypeOK, ProcRecord
  <2> HIDE DEF np
  <2>3. QED
    BY <2>1, <2>2 DEF PidInv, PidsDiffer
<1>12. ASSUME NEW c \in CPUs, NEW p \in Slots, OnCPU(c, p), pc[p] = "fork",
              child[p] \in Slots => ForkEnded(c, p)
       PROVE  PidInv'
  <2>1. child[p] \in Slots /\ proc[child[p]].state = "EMBRYO" /\ ForkEnded(c, p)
    BY <1>12, ZenonT(40) DEF CpuInv, ForkOwnsChild
  <2>2. QED
    BY <2>1, <1>PidFrame DEF ForkEnded
<1>13. QED
  BY <1>1, <1>2, <1>3, <1>4, <1>5, <1>6, <1>8, <1>9, <1>10, <1>11, <1>12 DEF Step

-----------------------------------------------------------------------------
(* Traps and pending signals.                                              *)

\* p executes where a trap can have interrupted it, and holds no lock.
InTrap(p) ==
  /\ \E c \in CPUs : OnCPU(c, p) /\ lock # c
  /\ pc[p] \in {"user", "fork", "asleep", "exit"}

TrapInv ==
  \A p \in Slots :
    /\ trap[p] # "none" => InTrap(p)
    /\ proc[p].pending # {} => trap[p] = "deliver"

\* A process in a trap keeps its CPU until the trap is at its end or at its
\* yield(), and by then the trap has delivered the signals.
LEMMA TrapStep == TypeOK /\ CpuInv /\ TrapInv /\ Step => TrapInv'
\* A process stays where it is when its CPU and its point do not change and
\* the lock is not handed to it.
<1>TrapFrame. ASSUME NEW q \in Slots, InTrap(q), pc'[q] = pc[q],
                     \A d \in CPUs : OnCPU(d, q) /\ lock # d => cpu'[d] = cpu[d] /\ lock' # d
              PROVE  InTrap(q)'
  BY <1>TrapFrame DEF InTrap, OnCPU
<1> SUFFICES ASSUME TypeOK, OneCPUPerProcess, HandOver, ForkOwnsChild, TrapInv, Step
             PROVE  TrapInv'
  BY DEF CpuInv
<1>0. None \notin Slots /\ \A c \in CPUs : c # None
  BY DEF Slots, CPUs, None
<1>a. ASSUME NEW c \in CPUs, NEW p \in Slots, OnCPU(c, p)
      PROVE  /\ proc[p].state = "RUNNING"
             /\ \A d \in CPUs : OnCPU(d, p) => d = c
  BY <1>0, <1>a DEF OneCPUPerProcess, OnCPU
<1>b. \A q \in Slots : trap[q] # "none" => proc[q].state = "RUNNING"
  BY <1>a DEF TrapInv, InTrap
<1>c. ASSUME NEW c \in CPUs, NEW p \in Slots, OnCPU(c, p), lock = c
      PROVE  trap[p] = "none"
  BY <1>a, <1>c DEF TrapInv, InTrap
\* A process has left its trap with nothing pending, or its trap and its
\* pending signals are as before and it stays where it is.
<1>Kept. ASSUME \A q \in Slots :
                  \/ trap'[q] = "none" /\ proc'[q].pending = {}
                  \/ /\ trap'[q] = trap[q]
                     /\ proc'[q].pending # {} => proc[q].pending # {}
                     /\ trap[q] # "none" => InTrap(q)'
         PROVE  TrapInv'
  BY <1>Kept DEF TrapInv
<1>1. CASE UNCHANGED <<proc, nextpid, lock, cpu, pc, trap, child>>
  BY <1>1 DEF TrapInv, InTrap, OnCPU
<1>2. CASE Rouses
  <2>1. ASSUME NEW q \in Slots
        PROVE  /\ trap'[q] = trap[q] /\ proc'[q].pending = proc[q].pending
               /\ trap[q] # "none" => pc'[q] = pc[q]
               /\ UNCHANGED <<lock, cpu>>
    BY <1>2 DEF Rouses
  <2>2. ASSUME NEW q \in Slots, trap[q] # "none" PROVE InTrap(q)'
    BY <2>1, <2>2, <1>TrapFrame DEF TrapInv
  <2>3. QED
    BY <2>1, <2>2, <1>Kept
<1>3. ASSUME NEW c \in CPUs, EndOfScan(c) PROVE TrapInv'
  <2>1. /\ proc' = proc /\ trap' = trap /\ pc' = pc /\ cpu[c].on = "scheduler"
        /\ lock' = None /\ \A d \in CPUs : d # c => cpu'[d] = cpu[d]
    BY <1>3 DEF EndOfScan, TypeOK
  <2>2. ASSUME NEW q \in Slots, trap[q] # "none" PROVE InTrap(q)'
    BY <1>0, <2>1, <2>2, <1>TrapFrame DEF TrapInv, OnCPU
  <2>3. QED
    BY <2>1, <2>2, <1>Kept
<1>4. ASSUME NEW c \in CPUs, NEW p \in Slots, Dispatched(c, p) PROVE TrapInv'
  <2>1. /\ \A q \in Slots : proc'[q].pending # {} => proc[q].pending # {}
        /\ trap' = trap /\ pc' = pc /\ cpu[c].on = "scheduler"
        /\ lock' = c /\ \A d \in CPUs : d # c => cpu'[d] = cpu[d]
    BY <1>4 DEF Dispatched
  <2>2. ASSUME NEW q \in Slots, trap[q] # "none" PROVE InTrap(q)'
    BY <2>1, <2>2, <1>TrapFrame DEF TrapInv, OnCPU
  <2>3. QED
    BY <2>1, <2>2, <1>Kept
<1>5. ASSUME NEW c \in CPUs, NEW p \in Slots, Quiet(c, p) PROVE TrapInv'
  <2> SUFFICES ASSUME NEW q \in Slots
               PROVE  /\ trap'[q] # "none" => InTrap(q)'
                      /\ proc'[q].pending # {} => trap'[q] = "deliver"
    BY DEF TrapInv
  <2>1. CASE q = p
    <3>1. trap'[p] # "none" => InTrap(p)'
      BY <1>5 DEF Quiet, InTrap, OnCPU
    <3>2. proc'[p].pending # {} => trap'[p] = "deliver"
      BY <1>5 DEF Quiet, TrapInv
    <3>3. QED
      BY <2>1, <3>1, <3>2
  <2>2. CASE q # p
    <3>1. /\ proc'[q].pending = proc[q].pending /\ trap'[q] = trap[q]
          /\ pc'[q] = pc[q] /\ UNCHANGED <<lock, cpu>>
      BY <1>5, <2>2 DEF Quiet, PcKept
    <3>2. QED
      BY <3>1, <1>TrapFrame DEF TrapInv
  <2>3. QED
    BY <2>1, <2>2
<1>6. ASSUME NEW c \in CPUs, NEW p \in Slots, Resumed(c, p) PROVE TrapInv'
  <2>1. /\ OnCPU(c, p) /\ lock = c /\ lock' = None /\ cpu' = cpu /\ trap' = trap
        /\ PcKept(p) /\ \A q \in Slots : proc'[q].pending = proc[q].pending
    BY <1>6 DEF Resumed, KeepsButChan
  <2>2. ASSUME NEW q \in Slots, trap[q] # "none" PROVE InTrap(q)'
    <3>1. q # p
      BY <1>c, <2>1, <2>2
    <3>2. pc'[q] = pc[q]
      BY <2>1, <3>1 DEF PcKept
    <3>3. QED
      BY <1>0, <2>1, <2>2, <3>2, <1>TrapFrame DEF TrapInv
  <2>3. QED
    BY <2>1, <2>2, <1>Kept
<1>7. ASSUME NEW c \in CPUs, NEW p \in Slots, OnCPU(c, p), sched(c), PcKept(p),
             trap[p] # "deliver", trap'[p] = "none",
             \A q \in Slots : proc'[q].pending = proc[q].pending,
             \A q \in Slots : q # p => trap'[q] = trap[q]
      PROVE  TrapInv'
  <2>1. proc'[p].pending = {}
    BY <1>7 DEF TrapInv
  <2>2. lock' = c /\ \A d \in CPUs : d # c => cpu'[d] = cpu[d]
    BY <1>7, schedEffect
  <2>3. ASSUME NEW q \in Slots, q # p, trap[q] # "none" PROVE InTrap(q)'
    <3>1. pc'[q] = pc[q] /\ ~OnCPU(c, q)
      BY <1>7, <2>3 DEF PcKept, OnCPU
    <3>2. QED
      BY <2>2, <2>3, <3>1, <1>TrapFrame DEF TrapInv
  <2>4. QED
    BY <1>7, <2>1, <2>3, <1>Kept
<1>8. ASSUME NEW c \in CPUs, NEW p \in Slots, Leaves(c, p) PROVE TrapInv'
  BY <1>7, <1>8, ZenonT(40) DEF Leaves
<1>9. ASSUME NEW c \in CPUs, NEW p \in Slots, Waited(c, p) PROVE TrapInv'
  <2>1. OnCPU(c, p) /\ trap[p] = "none" /\ PcKept(p) /\ trap' = trap
    BY <1>c, <1>9 DEF Waited
  <2>2. CASE Reaps(c, p) \/ GivesUp(c, p)
    <3>1. /\ \A q \in Slots : proc'[q].pending = proc[q].pending
          /\ lock' = None /\ cpu' = cpu
      BY <2>2 DEF Reaps, GivesUp, KeepsButChan
    <3>2. ASSUME NEW q \in Slots, trap[q] # "none" PROVE InTrap(q)'
      BY <1>0, <2>1, <3>1, <3>2, <1>TrapFrame DEF TrapInv, PcKept
    <3>3. QED
      BY <2>1, <3>1, <3>2, <1>Kept
  <2>3. CASE SleepsInWait(c, p)
    BY <1>7, <2>1, <2>3 DEF SleepsInWait
  <2>4. QED
    BY <1>9, <2>2, <2>3 DEF Waited
<1>10. ASSUME NEW c \in CPUs, NEW p \in Slots, Exited(c, p) PROVE TrapInv'
  BY <1>7, <1>10 DEF Exited
<1>11. ASSUME NEW c \in CPUs, NEW p \in Slots, Forked(c, p) PROVE TrapInv'
  <2>1. /\ UNCHANGED <<lock, cpu, trap>> /\ pc'[p] = "fork" /\ PcKept(p)
        /\ \A q \in Slots : proc'[q].pending # {} => proc[q].pending # {}
    BY <1>11 DEF Forked
  <2>2. ASSUME NEW q \in Slots, trap[q] # "none" PROVE InTrap(q)'
    BY <2>1, <2>2, <1>TrapFrame DEF TrapInv, PcKept, InTrap, OnCPU
  <2>3. QED
    BY <2>1, <2>2, <1>Kept
<1>12. ASSUME NEW c \in CPUs, NEW p \in Slots, OnCPU(c, p), pc[p] = "fork",
              child[p] \in Slots => ForkEnded(c, p)
       PROVE  TrapInv'
  <2>1. child[p] \in Slots /\ proc[child[p]].state = "EMBRYO" /\ ForkEnded(c, p)
    BY <1>12 DEF ForkOwnsChild
  <2>2. /\ \A q \in Slots : proc'[q].pending = proc[q].pending
        /\ trap[p] = "none" /\ UNCHANGED <<lock, cpu, trap>>
    BY <2>1, ZenonT(40) DEF ForkEnded
  <2>3. ASSUME NEW q \in Slots, trap[q] # "none" PROVE InTrap(q)'
    <3>1. q # p /\ q # child[p]
      BY <1>b, <2>1, <2>2, <2>3
    <3>2. pc'[q] = pc[q]
      BY <2>1, <3>1 DEF ForkEnded
    <3>3. QED
      BY <2>2, <2>3, <3>2, <1>TrapFrame DEF TrapInv
  <2>4. QED
    BY <2>2, <2>3, <1>Kept
<1>13. QED
  BY <1>1, <1>2, <1>3, <1>4, <1>5, <1>6, <1>8, <1>9, <1>10, <1>11, <1>12 DEF Step

-----------------------------------------------------------------------------
(* Parents.                                                                *)

LiveStates == {"SLEEPING", "RUNNABLE", "RUNNING"}

\* init lives for ever and has no parent; nobody is its own parent; a slot that
\* is not a process yet, or no longer, has no parent.
FamilyInv ==
  /\ initproc \in Slots /\ proc[initproc].state \in LiveStates
  /\ proc[initproc].parent = None
  /\ \A p \in Slots : proc[p].parent # p
  /\ \A p \in Slots :
       proc[p].state \in {"UNUSED", "EMBRYO"} => proc[p].parent = None
  /\ ParentsLive

\* The slot keeps its parent, and does not die.
FamilyKept(q) ==
  /\ proc'[q].parent = proc[q].parent
  /\ proc[q].state \in LiveStates => proc'[q].state \in LiveStates
  /\ proc'[q].state \in {"UNUSED", "EMBRYO"} <=> proc[q].state \in {"UNUSED", "EMBRYO"}

\* exit() hands every child over to init before its process dies, and wait()
\* frees only the dead.
LEMMA FamilyStep == TypeOK /\ CpuInv /\ FamilyInv /\ Step => FamilyInv'
\* A step by which nobody is born and nobody dies keeps FamilyInv.
<1>FamilyFrame. ASSUME TypeOK, FamilyInv, \A q \in Slots : FamilyKept(q)
                PROVE  FamilyInv'
  <2> USE <1>FamilyFrame
  <2>1. \A q \in Slots : proc[q].parent \in Slots \cup {None}
    BY DEF TypeOK, ProcRecord
  <2>2. ParentsLive'
    BY <2>1 DEF FamilyInv, ParentsLive, FamilyKept, LiveStates
  <2>3. QED
    BY <2>2 DEF FamilyInv, FamilyKept
<1> SUFFICES ASSUME TypeOK, CpuInv, FamilyInv, Step PROVE FamilyInv'
  OBVIOUS
<1> USE DEF LiveStates
<1>0. \A q \in Slots : proc[q].parent \in Slots \cup {None}
  BY DEF TypeOK, ProcRecord
<1>a. None \notin Slots
  BY DEF Slots, None
<1>1. CASE UNCHANGED <<proc, nextpid, lock, cpu, pc, trap, child>>
  BY <1>1, <1>FamilyFrame DEF FamilyKept
<1>2. CASE Rouses
  BY <1>2, <1>FamilyFrame DEF Rouses, Body, FamilyKept
<1>3. ASSUME NEW c \in CPUs, EndOfScan(c) PROVE FamilyInv'
  BY <1>3, <1>FamilyFrame DEF EndOfScan, FamilyKept
<1>4. ASSUME NEW c \in CPUs, NEW p \in Slots, Dispatched(c, p) PROVE FamilyInv'
  BY <1>4, <1>FamilyFrame DEF Dispatched, Body, FamilyKept
<1>5. ASSUME NEW c \in CPUs, NEW p \in Slots, Quiet(c, p) PROVE FamilyInv'
  BY <1>5, <1>FamilyFrame DEF Quiet, Body, FamilyKept
<1>6. ASSUME NEW c \in CPUs, NEW p \in Slots, Resumed(c, p) PROVE FamilyInv'
  BY <1>6, <1>FamilyFrame DEF Resumed, KeepsButChan, FamilyKept
<1>7. ASSUME NEW c \in CPUs, NEW p \in Slots, OnCPU(c, p)
      PROVE  proc[p].state = "RUNNING"
  BY <1>7 DEF CpuInv, OneCPUPerProcess, OnCPU
<1>8. ASSUME NEW c \in CPUs, NEW p \in Slots, Leaves(c, p) PROVE FamilyInv'
  <2>1. proc[p].state = "RUNNING"
    BY <1>7, <1>8 DEF Leaves
  <2>2. QED
    BY <1>8, <2>1, <1>FamilyFrame DEF Leaves, FamilyKept
<1>9. ASSUME NEW c \in CPUs, NEW p \in Slots, Waited(c, p) PROVE FamilyInv'
  <2>1. proc[p].state = "RUNNING"
    BY <1>7, <1>9 DEF Waited
  <2>2. CASE Reaps(c, p)
    <3>1. PICK z \in Slots : /\ proc[z].state = "ZOMBIE" /\ proc'[z].state = "UNUSED"
                             /\ proc'[z].parent = None
                             /\ \A q \in Slots : q # z => KeepsButChan(q)
      BY <2>2 DEF Reaps
    <3>2. \A q \in Slots : q # z => /\ proc'[q].state = proc[q].state
                                    /\ proc'[q].parent = proc[q].parent
      BY <3>1 DEF KeepsButChan
    <3>3. ParentsLive'
      BY <1>0, <3>1, <3>2 DEF FamilyInv, ParentsLive
    <3>4. QED
      BY <1>a, <3>1, <3>2, <3>3 DEF FamilyInv
  <2>3. CASE GivesUp(c, p)
    BY <2>3, <1>FamilyFrame DEF GivesUp, KeepsButChan, FamilyKept
  <2>4. CASE SleepsInWait(c, p)
    BY <2>1, <2>4, <1>FamilyFrame DEF SleepsInWait, FamilyKept
  <2>5. QED
    BY <1>9, <2>2, <2>3, <2>4 DEF Waited
<1>10. ASSUME NEW c \in CPUs, NEW p \in Slots, Exited(c, p) PROVE FamilyInv'
  <2>1. p # initproc /\ proc[p].state = "RUNNING" /\ proc'[p].state = "ZOMBIE"
    BY <1>7, <1>10 DEF Exited
  <2>2. \A q \in Slots : q # p =>
          \/ proc'[q].state = proc[q].state
          \/ proc[q].state = "SLEEPING" /\ proc'[q].state = "RUNNABLE"
    BY <1>10 DEF Exited
  <2>3. \A q \in Slots :
          proc'[q].parent = IF proc[q].parent = p THEN initproc ELSE proc[q].parent
    BY <1>10 DEF Exited
  <2>4. ParentsLive'
    <3> SUFFICES ASSUME NEW q \in Slots \ {initproc},
                        proc'[q].state \notin {"UNUSED", "EMBRYO"}
                 PROVE  /\ proc'[q].parent # None
                        /\ proc'[proc'[q].parent].state \in LiveStates
      BY DEF ParentsLive
    <3>1. proc[q].state \notin {"UNUSED", "EMBRYO"}
      BY <2>1, <2>2
    <3>2. CASE proc[q].parent = p
      BY <1>a, <2>1, <2>2, <2>3, <3>2 DEF FamilyInv
    <3>3. CASE proc[q].parent # p
      BY <1>0, <2>2, <2>3, <3>1, <3>3 DEF FamilyInv, ParentsLive
    <3>4. QED
      BY <3>2, <3>3
  <2>5. QED
    BY <1>a, <2>1, <2>2, <2>3, <2>4 DEF FamilyInv
<1>11. ASSUME NEW c \in CPUs, NEW p \in Slots, Forked(c, p) PROVE FamilyInv'
  BY <1>11, <1>FamilyFrame DEF Forked, FamilyKept
<1>12. ASSUME NEW c \in CPUs, NEW p \in Slots, OnCPU(c, p), pc[p] = "fork",
              child[p] \in Slots => ForkEnded(c, p)
       PROVE  FamilyInv'
  <2> DEFINE np == child[p]
  <2>1. np \in Slots /\ proc[np].state = "EMBRYO" /\ proc[p].state = "RUNNING"
        /\ ForkEnded(c, p)
    BY <1>7, <1>12 DEF CpuInv, ForkOwnsChild
  <2>2. /\ \A q \in Slots : q # np => proc'[q] = proc[q]
        /\ \/ proc'[np].state = "UNUSED" /\ proc'[np].parent = proc[np].parent
           \/ proc'[np].state = "RUNNABLE" /\ proc'[np].parent = p
    BY <2>1 DEF ForkEnded
  <2> HIDE DEF np
  <2>3. ParentsLive'
    BY <1>0, <1>a, <2>1, <2>2 DEF FamilyInv, ParentsLive
  <2>4. QED
    BY <2>1, <2>2, <2>3 DEF FamilyInv
<1>13. QED
  BY <1>1, <1>2, <1>3, <1>4, <1>5, <1>6, <1>8, <1>9, <1>10, <1>11, <1>12 DEF Step

\* At boot initproc is the only process.
LEMMA FamilyInit == Init => FamilyInv
<1> SUFFICES ASSUME Init PROVE FamilyInv
  OBVIOUS
<1>1. initproc \in Slots /\ None \notin Slots
  BY ProcAssumption DEF initproc, None, Slots
<1>2. proc[initproc].state = "RUNNABLE"
  BY <1>1, ZenonT(40) DEF Init, UnusedProc
<1>3. \A p \in Slots : /\ proc[p].parent = None
                       /\ p # initproc => proc[p].state = "UNUSED"
  BY DEF Init, UnusedProc
<1>4. ParentsLive
  BY <1>3, ZenonT(40) DEF ParentsLive
<1>5. QED
  BY <1>1, <1>2, <1>3, <1>4 DEF FamilyInv, LiveStates

-----------------------------------------------------------------------------
(* Sleep in wait().                                                        *)

\* A process asleep in wait() sleeps on its own slot.
SleepsOnSelf == \A p \in InState("SLEEPING") : pc[p] = "wait" => proc[p].chan = p

WaiterInv == SleepsOnSelf /\ WaiterHasReason

\* p sleeps in wait().
AsleepInWait(p) == proc[p].state = "SLEEPING" /\ pc[p] = "wait"

\* A process asleep in wait() slept there before the step.
SleptBefore(q) ==
  AsleepInWait(q)' => /\ AsleepInWait(q) /\ proc'[q].chan = proc[q].chan
                      /\ proc'[q].killed = proc[q].killed

\* No step leaves a process asleep in wait() that should be awake.
LEMMA WaiterStep ==
  TypeOK /\ CpuInv /\ FamilyInv /\ WaiterInv /\ Step => WaiterInv'
\* Nobody falls asleep in wait(), no parent changes and nobody dies.
<1>WaiterFrame. ASSUME WaiterInv,
                       \A q \in Slots :
                         /\ SleptBefore(q) /\ proc'[q].parent = proc[q].parent
                         /\ proc'[q].state = "ZOMBIE" => proc[q].state = "ZOMBIE"
                PROVE  WaiterInv'
  <2> USE <1>WaiterFrame
  <2>1. \A q \in Slots : Children(q)' = Children(q)
    BY DEF Children
  <2>2. InState("ZOMBIE")' \subseteq InState("ZOMBIE")
    BY DEF InState
  <2>3. ASSUME NEW q \in Slots, AsleepInWait(q)'
        PROVE  /\ proc'[q].chan = q /\ Children(q)' # {}
               /\ Children(q)' \cap InState("ZOMBIE")' = {} /\ ~proc'[q].killed
    <3>1. /\ AsleepInWait(q) /\ proc'[q].chan = proc[q].chan
          /\ proc'[q].killed = proc[q].killed
      BY <2>3 DEF SleptBefore
    <3>2. /\ proc[q].chan = q /\ Children(q) # {}
          /\ Children(q) \cap InState("ZOMBIE") = {} /\ ~proc[q].killed
      BY <3>1 DEF AsleepInWait, WaiterInv, SleepsOnSelf, WaiterHasReason, InState
    <3>3. QED
      BY <2>1, <2>2, <3>1, <3>2
  <2>4. QED
    BY <2>3 DEF AsleepInWait, WaiterInv, SleepsOnSelf, WaiterHasReason, InState
<1> SUFFICES ASSUME TypeOK, CpuInv, FamilyInv, WaiterInv, Step
             PROVE  WaiterInv'
  OBVIOUS
<1>a. None \notin Slots
  BY DEF Slots, None
<1>1. CASE UNCHANGED <<proc, nextpid, lock, cpu, pc, trap, child>>
  BY <1>1, <1>WaiterFrame DEF SleptBefore, AsleepInWait
<1>2. CASE Rouses
  BY <1>2, <1>WaiterFrame DEF Rouses, Body, SleptBefore, AsleepInWait
<1>3. ASSUME NEW c \in CPUs, EndOfScan(c) PROVE WaiterInv'
  BY <1>3, <1>WaiterFrame DEF EndOfScan, SleptBefore, AsleepInWait
<1>4. ASSUME NEW c \in CPUs, NEW p \in Slots, Dispatched(c, p) PROVE WaiterInv'
  BY <1>4, <1>WaiterFrame DEF Dispatched, Body, SleptBefore, AsleepInWait
<1>7. ASSUME NEW c \in CPUs, NEW p \in Slots, OnCPU(c, p)
      PROVE  proc[p].state = "RUNNING"
  BY <1>7 DEF CpuInv, OneCPUPerProcess, OnCPU
<1>5. ASSUME NEW c \in CPUs, NEW p \in Slots, Quiet(c, p) PROVE WaiterInv'
  <2>1. proc[p].state = "RUNNING"
    BY <1>5, <1>7 DEF Quiet
  <2>2. QED
    BY <1>5, <2>1, <1>WaiterFrame, ZenonT(40) DEF Quiet, PcKept, Body, SleptBefore, AsleepInWait
<1>6. ASSUME NEW c \in CPUs, NEW p \in Slots, Resumed(c, p) PROVE WaiterInv'
  <2>1. proc[p].state = "RUNNING"
    BY <1>6, <1>7 DEF Resumed
  <2>2. QED
    BY <1>6, <2>1, <1>WaiterFrame
       DEF Resumed, KeepsButChan, PcKept, SleptBefore, AsleepInWait
<1>8. ASSUME NEW c \in CPUs, NEW p \in Slots, Leaves(c, p) PROVE WaiterInv'
  BY <1>8, <1>WaiterFrame DEF Leaves, PcKept, SleptBefore, AsleepInWait
<1>9. ASSUME NEW c \in CPUs, NEW p \in Slots, Waited(c, p) PROVE WaiterInv'
  <2>1. OnCPU(c, p) /\ proc[p].state = "RUNNING" /\ PcKept(p)
    BY <1>7, <1>9 DEF Waited
  <2>2. CASE Reaps(c, p)
    <3>1. PICK z \in Slots :
            /\ proc[z].parent = p /\ proc[z].state = "ZOMBIE"
            /\ proc'[z].state = "UNUSED" /\ proc'[z].parent = None
            /\ \A q \in Slots : q # z => KeepsButChan(q)
            /\ \A q \in Slots : q # p => proc'[q].chan = proc[q].chan
      BY <2>2 DEF Reaps
    <3>2. \A q \in Slots : q # p => Children(q)' = Children(q)
      BY <1>a, <3>1 DEF Children, KeepsButChan
    <3>3. InState("ZOMBIE")' \subseteq InState("ZOMBIE")
      BY <3>1 DEF InState, KeepsButChan
    <3>4. \A q \in Slots : SleptBefore(q) /\ ~AsleepInWait(p)'
      BY <2>1, <3>1 DEF SleptBefore, AsleepInWait, KeepsButChan, PcKept
    <3>5. ASSUME NEW q \in Slots, AsleepInWait(q)'
          PROVE  /\ proc'[q].chan = q /\ Children(q)' # {}
                 /\ Children(q)' \cap InState("ZOMBIE")' = {} /\ ~proc'[q].killed
      <4>1. /\ q # p /\ AsleepInWait(q) /\ proc'[q].chan = proc[q].chan
            /\ proc'[q].killed = proc[q].killed
        BY <3>4, <3>5 DEF SleptBefore
      <4>2. /\ proc[q].chan = q /\ Children(q) # {}
            /\ Children(q) \cap InState("ZOMBIE") = {} /\ ~proc[q].killed
        BY <4>1 DEF AsleepInWait, WaiterInv, SleepsOnSelf, WaiterHasReason, InState
      <4>3. QED
        BY <3>2, <3>3, <4>1, <4>2
    <3>6. QED
      BY <3>5 DEF AsleepInWait, WaiterInv, SleepsOnSelf, WaiterHasReason, InState
  <2>3. CASE GivesUp(c, p)
    BY <2>1, <2>3, <1>WaiterFrame
       DEF GivesUp, KeepsButChan, PcKept, SleptBefore, AsleepInWait
  <2>4. CASE SleepsInWait(c, p)
    <3>1. /\ proc'[p].chan = p /\ proc'[p].killed = proc[p].killed /\ ~proc[p].killed
          /\ Children(p) # {} /\ Children(p) \cap InState("ZOMBIE") = {}
          /\ proc'[p].parent = proc[p].parent /\ proc'[p].state = "SLEEPING"
          /\ \A q \in Slots : q # p => proc'[q] = proc[q] /\ pc'[q] = pc[q]
      BY <2>1, <2>4 DEF SleepsInWait, PcKept
    <3>2. \A q \in Slots : Children(q)' = Children(q)
      BY <3>1 DEF Children
    <3>3. InState("ZOMBIE")' \subseteq InState("ZOMBIE")
      BY <3>1 DEF InState
    <3>4. ASSUME NEW q \in Slots, AsleepInWait(q)'
          PROVE  /\ proc'[q].chan = q /\ Children(q)' # {}
                 /\ Children(q)' \cap InState("ZOMBIE")' = {} /\ ~proc'[q].killed
      <4>1. CASE q = p
        BY <3>1, <3>2, <3>3, <4>1
      <4>2. CASE q # p
        <5>1. AsleepInWait(q) /\ proc'[q] = proc[q]
          BY <3>1, <3>4, <4>2 DEF AsleepInWait
        <5>2. /\ proc[q].chan = q /\ Children(q) # {}
              /\ Children(q) \cap InState("ZOMBIE") = {} /\ ~proc[q].killed
          BY <5>1, ZenonT(40) DEF AsleepInWait, WaiterInv, SleepsOnSelf, WaiterHasReason, InState
        <5>3. QED
          BY <3>2, <3>3, <5>1, <5>2
      <4>3. QED
        BY <4>1, <4>2
    <3>5. QED
      BY <3>4 DEF AsleepInWait, WaiterInv, SleepsOnSelf, WaiterHasReason, InState
  <2>5. QED
    BY <1>9, <2>2, <2>3, <2>4 DEF Waited
<1>10. ASSUME NEW c \in CPUs, NEW p \in Slots, Exited(c, p) PROVE WaiterInv'
  <2>1. p # initproc /\ proc[p].state = "RUNNING" /\ proc'[p].state = "ZOMBIE" /\ PcKept(p)
    BY <1>7, <1>10, ZenonT(40) DEF Exited
  <2>2. \A q \in Slots :
          /\ proc'[q].parent = IF proc[q].parent = p THEN initproc ELSE proc[q].parent
          /\ proc'[q].chan = proc[q].chan /\ proc'[q].killed = proc[q].killed
          /\ q # p => (proc'[q].state = "ZOMBIE" => proc[q].state = "ZOMBIE")
    BY <1>10 DEF Exited
  <2>3. ASSUME NEW q \in Slots, AsleepInWait(q)'
        PROVE  /\ proc'[q].chan = q /\ Children(q)' # {}
               /\ Children(q)' \cap InState("ZOMBIE")' = {} /\ ~proc'[q].killed
    <3>1. /\ q # p /\ AsleepInWait(q) /\ proc[q].chan # proc[p].parent
          /\ proc[q].chan = initproc =>
               \A z \in Slots : proc[z].parent = p => proc[z].state # "ZOMBIE"
      BY <1>10, <2>1, <2>3 DEF Exited, AsleepInWait, PcKept
    <3>2. /\ proc[q].chan = q /\ Children(q) # {}
          /\ Children(q) \cap InState("ZOMBIE") = {} /\ ~proc[q].killed
      BY <3>1 DEF AsleepInWait, WaiterInv, SleepsOnSelf, WaiterHasReason, InState
    <3>3. Children(q)' # {}
      BY <2>2, <3>1, <3>2 DEF Children
    <3>4. ASSUME NEW z \in Children(q)' PROVE proc'[z].state # "ZOMBIE"
      <4>1. z \in Slots /\ proc'[z].parent = q
        BY <3>4 DEF Children
      <4>2. CASE proc[z].parent = q
        BY <2>2, <3>1, <3>2, <4>1, <4>2, ZenonT(40) DEF Children, InState
      <4>3. CASE proc[z].parent # q
        <5>1. proc[z].parent = p /\ q = initproc
          BY <2>2, <4>1, <4>3
        <5>2. z # p
          BY <5>1 DEF FamilyInv
        <5>3. QED
          BY <2>2, <3>1, <3>2, <4>1, <5>1, <5>2
      <4>4. QED
        BY <4>2, <4>3
    <3>5. QED
      BY <2>2, <3>2, <3>3, <3>4 DEF InState
  <2>4. QED
    BY <2>3 DEF AsleepInWait, WaiterInv, SleepsOnSelf, WaiterHasReason, InState
<1>11. ASSUME NEW c \in CPUs, NEW p \in Slots, Forked(c, p) PROVE WaiterInv'
  BY <1>11, <1>WaiterFrame, ZenonT(40) DEF Forked, PcKept, SleptBefore, AsleepInWait
<1>12. ASSUME NEW c \in CPUs, NEW p \in Slots, OnCPU(c, p), pc[p] = "fork",
              child[p] \in Slots => ForkEnded(c, p)
       PROVE  WaiterInv'
  <2> DEFINE np == child[p]
  <2>1. np \in Slots /\ proc[np].state = "EMBRYO" /\ proc[p].state = "RUNNING"
        /\ ForkEnded(c, p)
    BY <1>7, <1>12, ZenonT(40) DEF CpuInv, ForkOwnsChild
  <2>2. /\ \A q \in Slots : q # np => proc'[q] = proc[q]
        /\ \A q \in Slots : q \notin {p, np} => pc'[q] = pc[q]
        /\ proc'[np].state \in {"UNUSED", "RUNNABLE"}
        /\ proc'[np].parent \in {proc[np].parent, p}
        /\ proc[np].parent = None
    BY <2>1 DEF ForkEnded, FamilyInv
  <2> HIDE DEF np
  <2>3. \A q \in Slots : q # p => Children(q)' = Children(q)
    BY <1>a, <2>1, <2>2 DEF Children
  <2>4. InState("ZOMBIE")' \subseteq InState("ZOMBIE")
    BY <2>1, <2>2 DEF InState
  <2>5. ASSUME NEW q \in Slots, AsleepInWait(q)'
        PROVE  /\ proc'[q].chan = q /\ Children(q)' # {}
               /\ Children(q)' \cap InState("ZOMBIE")' = {} /\ ~proc'[q].killed
    <3>1. q # p /\ q # np
      BY <2>1, <2>2, <2>5 DEF AsleepInWait
    <3>2. AsleepInWait(q) /\ proc'[q] = proc[q]
      BY <2>2, <2>5, <3>1 DEF AsleepInWait
    <3>3. /\ proc[q].chan = q /\ Children(q) # {}
          /\ Children(q) \cap InState("ZOMBIE") = {} /\ ~proc[q].killed
      BY <3>2 DEF AsleepInWait, WaiterInv, SleepsOnSelf, WaiterHasReason, InState
    <3>4. QED
      BY <2>3, <2>4, <3>1, <3>2, <3>3, ZenonT(40)
  <2>6. QED
    BY <2>5 DEF AsleepInWait, WaiterInv, SleepsOnSelf, WaiterHasReason, InState
<1>13. QED
  BY <1>1, <1>2, <1>3, <1>4, <1>5, <1>6, <1>8, <1>9, <1>10, <1>11, <1>12, ZenonT(40) DEF Step

=============================================================================
