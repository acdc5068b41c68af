-------------------------------- MODULE Proc --------------------------------
(***************************************************************************)
(* Processes, CPUs and the scheduler (proc.c, the trap handler of trap.c   *)
(* and the process system calls of sysproc.c).                             *)
(*                                                                         *)
(* ptable.lock is explicit, because it is handed over: a process that      *)
(* gives up its CPU takes the lock, switches to the CPU's scheduler, and   *)
(* the scheduler releases it or passes it on to the next process, which    *)
(* releases it where it resumes.  A stretch of code from acquire to        *)
(* release on one side of the switch is one step.                          *)
(*                                                                         *)
(* What a process does in user space is free; files, memory and the        *)
(* handler a user installs for a signal are not part of this module.       *)
(***************************************************************************)
EXTENDS Naturals

CONSTANTS
  NPROC,      \* slots of ptable
  NCPU,       \* CPUs running scheduler()
  MaxPid,     \* bound: the last pid handed out
  Signals,    \* signals that traps raise: 2 (keyboard), 8 (division by zero)
  KillArgs    \* pids that processes pass to kill()

SIGINT == 2
SIGFPE == 8

ASSUME ProcAssumption ==
  /\ NPROC \in Nat \ {0}
  /\ NCPU \in Nat \ {0}
  /\ MaxPid \in Nat \ {0}
  /\ Signals \subseteq {SIGINT, SIGFPE}
  /\ KillArgs \subseteq Nat

Slots == 1..NPROC
CPUs  == 1..NCPU
None  == 0                  \* a null pointer, a free lock, no channel
ticks == NPROC + 1          \* the channel &ticks; a slot is its own channel
initproc == 1

States == {"UNUSED", "EMBRYO", "SLEEPING", "RUNNABLE", "RUNNING", "ZOMBIE"}

\* Where a process continues when a CPU next executes it:
\*   user     in user space;            fork   in fork(), after allocproc()
\*   tosleep  in sys_sleep(), past its test of killed
\*   asleep   in sys_sleep(), returning from sleep()
\*   wait     in wait(), returning from sleep()
\*   exit     in exit(), before it takes ptable.lock
\*   forkret  a new process;            none   not a process
Points ==
  {"user", "fork", "tosleep", "asleep", "wait", "exit", "forkret", "none"}

\* Where a process is in a trap() that is not a system call:
\*   none     in no such trap
\*   deliver  behind the switch that raised a signal, before its delivery
\*   yield    behind the delivery, before the yield() of a clock interrupt
TrapPoints == {"none", "deliver", "yield"}

VARIABLES
  proc,       \* ptable.proc: the fields of struct proc the module is about
  nextpid,
  lock,       \* the CPU holding ptable.lock, or None
  cpu,        \* per CPU: c->proc, whose stack it executes on, and the scan index
  pc,         \* per slot: its Points
  trap,       \* per slot: its TrapPoints
  child,      \* per slot: np of the fork() in progress
  panicked    \* panic() was called; every CPU freezes

vars == <<proc, nextpid, lock, cpu, pc, trap, child, panicked>>

-----------------------------------------------------------------------------
UnusedProc ==
  [state |-> "UNUSED", pid |-> 0, parent |-> None, chan |-> None,
   killed |-> FALSE, pending |-> {}, handlers |-> {}, kstack |-> FALSE]

\* userinit() makes initproc; every CPU is about to enter its scheduler loop.
Init ==
  /\ proc = [p \in Slots |->
               IF p = initproc
               THEN [UnusedProc EXCEPT !.state = "RUNNABLE", !.pid = 1,
                                       !.kstack = TRUE]
               ELSE UnusedProc]
  /\ nextpid = 2
  /\ lock = None
  /\ cpu = [c \in CPUs |-> [proc |-> None, on |-> "scheduler", next |-> 1]]
  /\ pc = [p \in Slots |-> IF p = initproc THEN "forkret" ELSE "none"]
  /\ trap = [p \in Slots |-> "none"]
  /\ child = [p \in Slots |-> None]
  /\ panicked = FALSE

-----------------------------------------------------------------------------
(* Helpers on the process table.                                           *)

InState(s) == {p \in Slots : proc[p].state = s}

First(S) == CHOOSE p \in S : \A q \in S : p <= q

\* wakeup1(chan) on the table t.
wakeup1(t, ch) ==
  [p \in Slots |-> IF t[p].state = "SLEEPING" /\ t[p].chan = ch
                   THEN [t[p] EXCEPT !.state = "RUNNABLE"]
                   ELSE t[p]]

\* Process p executes on CPU c, outside any hand-over of ptable.lock.
Runs(c, p) ==
  /\ cpu[c].proc = p
  /\ cpu[c].on = "process"
  /\ lock # c

\* p is about to take its next step in user space or in a system call, which
\* it does when no trap has interrupted it there.
At(c, p, point) ==
  /\ Runs(c, p)
  /\ pc[p] = point
  /\ trap[p] = "none"

\* A system call is entered from user space; trap() first tests killed.
Enters(c, p) == At(c, p, "user") /\ ~proc[p].killed

\* The way back to user space, which again tests killed.
Returns(t, p) == [pc EXCEPT ![p] = IF t[p].killed THEN "exit" ELSE "user"]

\* Faulty variant: the lock is released before the switch.
sched_Unlocked(c) ==
  /\ lock' = None
  /\ cpu' = [cpu EXCEPT ![c].on = "scheduler"]

\* sched(): with ptable.lock held, CPU c goes back to its scheduler.
sched(c) ==
  /\ lock' = c
  /\ cpu' = [cpu EXCEPT ![c].on = "scheduler"]

-----------------------------------------------------------------------------
(* scheduler()                                                             *)

\* The scheduler's own delivery of pending signals.  SignalsStayInTrap shows
\* that it never finds one, so that the release of ptable.lock around the
\* handler is never reached and is left out here.
SchedDelivered(t, p) ==
  LET dead == t[p].killed \/ SIGINT \in t[p].pending \ t[p].handlers
  IN  [t EXCEPT ![p] = [t[p] EXCEPT !.pending = {}, !.killed = dead]]

\* Faulty variant: the scan starts over after every process.
ScanFrom_Restart(p) == 1

\* The slot at which the scan goes on when p gives the CPU back.
ScanFrom(p) == p + 1

\* The scan reaches a runnable process and switches to it; the CPU took the
\* lock for this scan, or got it back from the process it ran last.
Dispatch(c) ==
  LET ready == {p \in InState("RUNNABLE") : p >= cpu[c].next}
  IN  /\ cpu[c].on = "scheduler"
      /\ lock = c \/ (lock = None /\ cpu[c].next = 1)
      /\ ready # {}
      /\ LET p == First(ready)
         IN  /\ cpu' = [cpu EXCEPT ![c] = [proc |-> p, on |-> "process",
                                           next |-> ScanFrom(p)]]
             /\ proc' = [SchedDelivered(proc, p) EXCEPT ![p].state = "RUNNING"]
      /\ lock' = c
      /\ UNCHANGED <<nextpid, pc, trap, child, panicked>>

\* The scan reaches the end of the table.
EndOfScan(c) ==
  /\ cpu[c].on = "scheduler"
  /\ lock = c
  /\ \A p \in InState("RUNNABLE") : p < cpu[c].next
  /\ cpu' = [cpu EXCEPT ![c] = [proc |-> None, on |-> "scheduler", next |-> 1]]
  /\ lock' = None
  /\ UNCHANGED <<proc, nextpid, pc, trap, child, panicked>>

\* A process other than one in wait() continues on the far side of swtch and
\* releases the lock: forkret, yield, or sleep with its tidying up.
Resume(c, p) ==
  /\ cpu[c].proc = p /\ cpu[c].on = "process" /\ lock = c
  /\ pc[p] # "wait"
  /\ lock' = None
  /\ proc' = [proc EXCEPT ![p].chan = None]
  /\ pc' = CASE pc[p] = "user" -> Returns(proc, p)
             [] pc[p] = "forkret" -> [pc EXCEPT ![p] = "user"]
             [] OTHER -> pc
  /\ UNCHANGED <<nextpid, cpu, trap, child, panicked>>

-----------------------------------------------------------------------------
(* fork(), exit(), wait(), kill()                                          *)

\* nextpid++
PidAfter(n) == n + 1

\* allocproc(), the part under ptable.lock, or -1 when the table is full.
\* It does not touch killed.
Fork(c, p) ==
  /\ Enters(c, p)
  /\ lock = None
  /\ \/ /\ InState("UNUSED") = {}
        /\ UNCHANGED vars
     \/ /\ InState("UNUSED") # {}
        /\ nextpid <= MaxPid
        /\ LET np == First(InState("UNUSED"))
           IN  /\ proc' = [proc EXCEPT ![np] =
                            [@ EXCEPT !.state = "EMBRYO", !.pid = nextpid,
                                      !.pending = {}, !.handlers = {}]]
               /\ child' = [child EXCEPT ![p] = np]
        /\ nextpid' = PidAfter(nextpid)
        /\ pc' = [pc EXCEPT ![p] = "fork"]
        /\ UNCHANGED <<lock, cpu, trap, panicked>>

\* kalloc() or copyuvm() fails: the slot is given back without the lock, and
\* keeps its pid.
ForkFails(c, p) ==
  /\ At(c, p, "fork")
  /\ proc' = [proc EXCEPT ![child[p]] =
                            [@ EXCEPT !.state = "UNUSED", !.kstack = FALSE]]
  /\ child' = [child EXCEPT ![p] = None]
  /\ pc' = Returns(proc, p)
  /\ UNCHANGED <<nextpid, lock, cpu, trap, panicked>>

\* The rest of fork().  Only the child and its parent know of the child's
\* parent pointer before the child is RUNNABLE.
ForkSucceeds(c, p) ==
  /\ At(c, p, "fork")
  /\ lock = None
  /\ proc' = [proc EXCEPT ![child[p]] =
               [@ EXCEPT !.state = "RUNNABLE", !.parent = p, !.kstack = TRUE,
                         !.handlers = proc[p].handlers]]
  /\ child' = [child EXCEPT ![p] = None]
  /\ pc' = [Returns(proc, p) EXCEPT ![child[p]] = "forkret"]
  /\ UNCHANGED <<nextpid, lock, cpu, trap, panicked>>

\* exit() is called; files and the current directory are closed.
CallExit(c, p) ==
  /\ Enters(c, p)
  /\ pc' = [pc EXCEPT ![p] = "exit"]
  /\ UNCHANGED <<proc, nextpid, lock, cpu, trap, child, panicked>>

\* The table after "pass abandoned children to init" for process p.
Reparented(t, p) ==
  LET u == [q \in Slots |-> IF t[q].parent = p
                            THEN [t[q] EXCEPT !.parent = initproc] ELSE t[q]]
  IN  IF \E q \in Slots : t[q].parent = p /\ t[q].state = "ZOMBIE"
      THEN wakeup1(u, initproc) ELSE u

\* Faulty variant: the parent is left asleep.
ParentWoken_Not(t, p) == t

\* "Parent might be sleeping in wait()."
ParentWoken(t, p) == wakeup1(t, t[p].parent)

\* The part of exit() under ptable.lock.
Exit(c, p) ==
  /\ At(c, p, "exit")
  /\ \/ /\ p = initproc
        /\ panicked' = TRUE
        /\ UNCHANGED <<proc, nextpid, lock, cpu, pc, trap, child>>
     \/ /\ p # initproc
        /\ lock = None
        /\ LET woken == ParentWoken([proc EXCEPT ![p].handlers = {}], p)
           IN  proc' = [Reparented(woken, p) EXCEPT ![p].state = "ZOMBIE"]
        /\ pc' = [pc EXCEPT ![p] = "none"]
        /\ sched(c)
        /\ UNCHANGED <<nextpid, trap, child, panicked>>

Children(p) == {q \in Slots : proc[q].parent = p}

\* Faulty variant: the stack is not given back.
Reaped_Leaks(r) ==
  [r EXCEPT !.pid = 0, !.parent = None, !.killed = FALSE, !.state = "UNUSED"]

\* What wait() makes of the slot of a zombie.
Reaped(r) ==
  [r EXCEPT !.kstack = FALSE, !.pid = 0, !.parent = None, !.killed = FALSE,
            !.state = "UNUSED"]

\* One pass of wait()'s loop over the table; ptable.lock is held throughout,
\* also when the pass follows a sleep.
Wait(c, p) ==
  LET zombies == Children(p) \cap InState("ZOMBIE")
      awake == [proc EXCEPT ![p].chan = None]
  IN  /\ \/ Enters(c, p) /\ lock = None
         \/ /\ cpu[c].proc = p /\ cpu[c].on = "process" /\ lock = c
            /\ pc[p] = "wait"
      /\ \/ /\ zombies # {}
            /\ proc' = [awake EXCEPT ![First(zombies)] = Reaped(@)]
            /\ lock' = None
            /\ pc' = Returns(proc, p)
            /\ UNCHANGED cpu
         \/ /\ zombies = {}
            /\ Children(p) = {} \/ proc[p].killed
            /\ proc' = awake
            /\ lock' = None
            /\ pc' = Returns(proc, p)
            /\ UNCHANGED cpu
         \/ /\ zombies = {}
            /\ Children(p) # {} /\ ~proc[p].killed
            /\ proc' = [proc EXCEPT ![p] =
                          [@ EXCEPT !.chan = p, !.state = "SLEEPING"]]
            /\ pc' = [pc EXCEPT ![p] = "wait"]
            /\ sched(c)
      /\ UNCHANGED <<nextpid, trap, child, panicked>>

\* Faulty variant: kill() leaves a sleeping process asleep.
Roused_Not(s) == s

\* "Wake process from sleep if necessary."
Roused(s) == IF s = "SLEEPING" THEN "RUNNABLE" ELSE s

\* kill(n) marks the first slot with that pid, whatever the slot's state.
Kill(c, p, n) ==
  LET named == {q \in Slots : proc[q].pid = n}
      v == First(named)
  IN  /\ Enters(c, p)
      /\ lock = None
      /\ named # {}
      /\ proc' = [proc EXCEPT ![v] = [proc[v] EXCEPT
                                        !.killed = TRUE,
                                        !.state = Roused(proc[v].state)]]
      /\ pc' = Returns(proc', p)
      /\ UNCHANGED <<nextpid, lock, cpu, trap, child, panicked>>

-----------------------------------------------------------------------------
(* sys_sleep() and the clock; the number of ticks left is abstracted.      *)

\* sys_sleep() has to wait; on a later turn of its loop it tests killed.
CallSleep(c, p) ==
  /\ Enters(c, p) \/ (At(c, p, "asleep") /\ ~proc[p].killed)
  /\ pc' = [pc EXCEPT ![p] = "tosleep"]
  /\ UNCHANGED <<proc, nextpid, lock, cpu, trap, child, panicked>>

\* sleep(&ticks, &tickslock)
Sleep(c, p) ==
  /\ At(c, p, "tosleep")
  /\ lock = None
  /\ proc' = [proc EXCEPT ![p] =
                            [@ EXCEPT !.chan = ticks, !.state = "SLEEPING"]]
  /\ pc' = [pc EXCEPT ![p] = "asleep"]
  /\ sched(c)
  /\ UNCHANGED <<nextpid, trap, child, panicked>>

\* sys_sleep() returns: enough ticks have passed, or killed is set.
SleepDone(c, p) ==
  /\ At(c, p, "asleep")
  /\ pc' = Returns(proc, p)
  /\ UNCHANGED <<proc, nextpid, lock, cpu, trap, child, panicked>>

\* The clock interrupt on CPU 0, which may arrive in any context: wakeup(&ticks).
Tick ==
  /\ lock = None
  /\ proc' = wakeup1(proc, ticks)
  /\ UNCHANGED <<nextpid, lock, cpu, pc, trap, child, panicked>>

-----------------------------------------------------------------------------
(* The rest of trap(): its switch, the delivery of pending signals, the    *)
(* test of killed, and yield().  Interrupts are off from end to end, so    *)
(* that no other trap interrupts it on its CPU.                            *)

\* Interrupts are off while sys_sleep() holds tickslock.
Interruptible(c, p) ==
  \E point \in {"user", "fork", "asleep", "exit"} : At(c, p, point)

\* Faulty variant: only the default action clears the signal's bit.
Delivered_KeepsHandled(t, p) ==
  LET r == t[p]
      dead == r.killed \/ r.pending \ r.handlers # {}
  IN  [t EXCEPT ![p] = [r EXCEPT !.pending = r.pending \cap r.handlers,
                                 !.killed = dead,
                                 !.handlers = r.handlers \ r.pending]]

\* The delivery loop on the table t: it clears every pending signal; one with
\* a handler calls it and resets it to the default, which for both signals is
\* to kill the process.
Delivered(t, p) ==
  LET r == t[p]
      dead == r.killed \/ r.pending \ r.handlers # {}
  IN  [t EXCEPT ![p] = [r EXCEPT !.pending = {}, !.killed = dead,
                                 !.handlers = r.handlers \ r.pending]]

\* The clock interrupt in a running process, up to yield(): a killed process
\* in user space exits instead.
Timer(c, p) ==
  /\ Interruptible(c, p)
  /\ proc' = Delivered(proc, p)
  /\ \/ /\ pc[p] = "user" /\ proc'[p].killed
        /\ pc' = [pc EXCEPT ![p] = "exit"]
        /\ UNCHANGED trap
     \/ /\ ~(pc[p] = "user" /\ proc'[p].killed)
        /\ trap' = [trap EXCEPT ![p] = "yield"]
        /\ UNCHANGED pc
  /\ UNCHANGED <<nextpid, lock, cpu, child, panicked>>

\* yield(), up to its switch; Resume has the last test of killed.
Yield(c, p) ==
  /\ Runs(c, p)
  /\ trap[p] = "yield"
  /\ lock = None
  /\ proc' = [proc EXCEPT ![p].state = "RUNNABLE"]
  /\ trap' = [trap EXCEPT ![p] = "none"]
  /\ sched(c)
  /\ UNCHANGED <<nextpid, pc, child, panicked>>

\* A user program faults and is killed.
Fault(c, p) ==
  /\ At(c, p, "user")
  /\ proc' = Delivered([proc EXCEPT ![p].killed = TRUE], p)
  /\ pc' = [pc EXCEPT ![p] = "exit"]
  /\ UNCHANGED <<nextpid, lock, cpu, trap, child, panicked>>

\* The switch raises a signal: a key is pressed while p runs, or p divides by
\* zero in user space.
Raise(c, p, sig) ==
  /\ Interruptible(c, p)
  /\ sig = SIGFPE => pc[p] = "user"
  /\ proc' = [proc EXCEPT ![p].pending = @ \cup {sig}]
  /\ trap' = [trap EXCEPT ![p] = "deliver"]
  /\ UNCHANGED <<nextpid, lock, cpu, pc, child, panicked>>

\* The rest of that trap(): delivery, and exit() if p was in user space and is
\* killed now.
Deliver(c, p) ==
  /\ Runs(c, p)
  /\ trap[p] = "deliver"
  /\ proc' = Delivered(proc, p)
  /\ trap' = [trap EXCEPT ![p] = "none"]
  /\ pc' = IF pc[p] = "user" THEN Returns(proc', p) ELSE pc
  /\ UNCHANGED <<nextpid, lock, cpu, child, panicked>>

\* sys_signal(): a null handler is the default action.
Signal(c, p, sig, null) ==
  /\ Enters(c, p)
  /\ proc' = [proc EXCEPT ![p].handlers = IF null THEN @ \ {sig}
                                                  ELSE @ \cup {sig}]
  /\ UNCHANGED <<nextpid, lock, cpu, pc, trap, child, panicked>>

-----------------------------------------------------------------------------
Process(c, p) ==
  \/ Resume(c, p) \/ Wait(c, p) \/ Exit(c, p) \/ CallExit(c, p)
  \/ Fork(c, p) \/ ForkFails(c, p) \/ ForkSucceeds(c, p)
  \/ CallSleep(c, p) \/ Sleep(c, p) \/ SleepDone(c, p)
  \/ Timer(c, p) \/ Yield(c, p) \/ Fault(c, p) \/ Deliver(c, p)
  \/ \E n \in KillArgs : Kill(c, p, n)
  \/ \E sig \in Signals : Raise(c, p, sig)
  \/ \E sig \in Signals, null \in BOOLEAN : Signal(c, p, sig, null)

Next ==
  \/ /\ ~panicked
     /\ \/ \E c \in CPUs : Dispatch(c) \/ EndOfScan(c)
        \/ \E c \in CPUs, p \in Slots : Process(c, p)
        \/ Tick
  \/ panicked /\ UNCHANGED vars

Spec == Init /\ [][Next]_vars

-----------------------------------------------------------------------------
(* Safety.                                                                 *)

ProcRecord ==
  [state : States, pid : 0..MaxPid, parent : Slots \cup {None},
   chan : 0..ticks, killed : BOOLEAN, pending : SUBSET {SIGINT, SIGFPE},
   handlers : SUBSET {SIGINT, SIGFPE}, kstack : BOOLEAN]

CPURecord ==
  [proc : Slots \cup {None}, on : {"scheduler", "process"}, next : 1..(NPROC + 1)]

TypeOK ==
  /\ proc \in [Slots -> ProcRecord]
  /\ nextpid \in 2..(MaxPid + 1)
  /\ lock \in CPUs \cup {None}
  /\ cpu \in [CPUs -> CPURecord]
  /\ pc \in [Slots -> Points]
  /\ trap \in [Slots -> TrapPoints]
  /\ child \in [Slots -> Slots \cup {None}]
  /\ panicked \in BOOLEAN

\* No two CPUs have the same process, a RUNNING process is on a CPU, and a CPU
\* outside its scheduler executes a RUNNING process: scheduler() and sched()
\* never lose a process or run it twice.
OneCPUPerProcess ==
  /\ \A c, d \in CPUs : cpu[c].proc = cpu[d].proc /\ cpu[c].proc # None => c = d
  /\ \A p \in InState("RUNNING") :
       \E c \in CPUs : cpu[c].proc = p /\ cpu[c].on = "process"
  /\ \A c \in CPUs : cpu[c].on = "process" =>
       cpu[c].proc # None /\ proc[cpu[c].proc].state = "RUNNING"

\* wait() never frees a kernel stack that a CPU still executes on, or that a
\* process will be resumed on, and no slot leaves the table with its stack:
\* this is why exit() holds ptable.lock across its last swtch.
StacksInUse ==
  \A p \in Slots :
    /\ proc[p].kstack <=> proc[p].state \notin {"UNUSED", "EMBRYO"}
    /\ \A c \in CPUs : cpu[c].proc = p => proc[p].kstack

\* A process asleep in wait() has something to wait for: it has a child, none
\* of its children is a zombie, and it is not killed.  So neither exit() nor
\* kill() nor the reparenting to init loses a wakeup.
WaiterHasReason ==
  \A p \in InState("SLEEPING") :
    pc[p] = "wait" =>
      /\ Children(p) # {}
      /\ Children(p) \cap InState("ZOMBIE") = {}
      /\ ~proc[p].killed

\* Every process but init has a parent that can still call wait(), so that no
\* zombie is unreachable.
ParentsLive ==
  \A p \in Slots \ {initproc} :
    proc[p].state \notin {"UNUSED", "EMBRYO"} =>
      /\ proc[p].parent # None
      /\ proc[proc[p].parent].state \in {"SLEEPING", "RUNNABLE", "RUNNING"}

\* Processes in use have different pids.
PidsDiffer ==
  \A p, q \in Slots :
    /\ proc[p].state # "UNUSED" /\ proc[q].state # "UNUSED"
    /\ proc[p].pid = proc[q].pid
    => p = q

\* A signal is pending only between the switch of the trap() that raised it
\* and the delivery loop of the same trap(): no way out of a trap, into user
\* space, a system call, yield() or exit(), carries one along, and a scheduler
\* finds none.  scheduler()'s own delivery would release ptable.lock in the
\* middle of its scan.
SignalsStayInTrap ==
  \A p \in Slots :
    proc[p].pending # {} => trap[p] = "deliver" /\ proc[p].state = "RUNNING"

-----------------------------------------------------------------------------
(* Liveness.                                                               *)

\* Steps that a process takes by itself once it is in the kernel.
KernelStep(c, p) ==
  \/ (pc[p] = "wait" /\ Wait(c, p)) \/ Exit(c, p)
  \/ ForkFails(c, p) \/ ForkSucceeds(c, p)
  \/ Sleep(c, p) \/ Deliver(c, p)

\* The schedulers run and the clock ticks; a process that gets the CPU again
\* and again gets on with its work in the kernel, since a time slice is many
\* instructions long; the ticks that a sys_sleep() waits for are finitely
\* many; and init calls wait() again and again (init.c).
Fairness ==
  /\ \A c \in CPUs : WF_vars(~panicked /\ (Dispatch(c) \/ EndOfScan(c)))
  /\ SF_vars(~panicked /\ Tick)
  /\ \A c \in CPUs, p \in Slots :
       WF_vars(~panicked /\ (Timer(c, p) \/ Yield(c, p) \/ Resume(c, p)))
  /\ \A p \in Slots :
       /\ SF_vars(~panicked /\ \E c \in CPUs : KernelStep(c, p))
       /\ SF_vars(~panicked /\ \E c \in CPUs : SleepDone(c, p))
  /\ SF_vars(~panicked /\ \E c \in CPUs : Wait(c, initproc))

FairSpec == Spec /\ Fairness

\* scheduler() starves nobody: a runnable process gets a CPU.
RunnableRuns ==
  \A p \in Slots :
    proc[p].state = "RUNNABLE" ~> proc[p].state = "RUNNING" \/ panicked

\* A killed process gets to exit(), wherever it was when kill() hit it.
KilledExits ==
  \A p \in Slots :
    proc[p].killed /\ proc[p].state \in {"SLEEPING", "RUNNABLE", "RUNNING"}
      ~> proc[p].state \in {"ZOMBIE", "UNUSED"} \/ panicked

\* exit() hands abandoned children to init, and init reaps every zombie it has.
OrphansReaped ==
  \A p \in Slots :
    proc[p].state = "ZOMBIE" /\ proc[p].parent = initproc
      ~> proc[p].state = "UNUSED" \/ panicked

====
