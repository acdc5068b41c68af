------------------------------- MODULE Memory -------------------------------
(***************************************************************************)
(* Physical pages (kalloc.c), user address spaces (vm.c), and the calls    *)
(* that build and drop them: fork, exec, sbrk, exit and wait, shmget.      *)
(*                                                                         *)
(* A step is one kalloc with what its caller does until the next kalloc;   *)
(* the pages of an error return or of freevm go back in one step.  Which   *)
(* free page kalloc returns makes no difference, so that pages are         *)
(* counted: free ones, and for each address space its directory, the page  *)
(* table of the kernel part, the page tables of the user part and the user *)
(* pages, which are always a prefix of the addresses.                      *)
(***************************************************************************)
EXTENDS Integers, Sequences, FiniteSetsExt

CONSTANTS
  Users, initproc,
  NPAGES,       \* pages that kinit1 and kinit2 free
  PGSIZE, NPTENTRIES,
  KERNBASE,     \* end of user addresses
  UINT,         \* range of an unsigned int
  Programs,     \* where the segments of a program end
  Increments    \* arguments of sbrk

ASSUME MemoryAssumption ==
  /\ initproc \in Users
  /\ PGSIZE \in Nat \ {0} /\ NPTENTRIES \in Nat \ {0}
  /\ KERNBASE \in Nat /\ UINT \in Nat /\ KERNBASE < UINT
  /\ Increments \subseteq Int
  /\ NPAGES \in Nat /\ NPAGES >= 5

VARIABLES
  nfree,       \* length of kmem.freelist
  space,      \* per process: pgdir
  sz,         \* per process: its size in bytes
  kstack,     \* per process: 1 if it has a kernel stack
  state,      \* per process
  job,        \* per process: the call that allocates memory for it
  panicked

memvars == <<nfree, space, sz, kstack, state, job, panicked>>

NoSpace == [dir |-> 0, ktab |-> 0, tabs |-> 0, pages |-> 0]

\* as is the address space under construction, of size to (from before the
\* call); mem a page that is not mapped yet; segs what exec has still to load,
\* stack that it has allocated the user stack.
NoJob == [call |-> "none", child |-> initproc, as |-> NoSpace, mem |-> 0,
          from |-> 0, to |-> 0, segs |-> << >>, stack |-> FALSE]

-----------------------------------------------------------------------------
(* vm.c                                                                    *)

\* Faulty variant: a size is rounded down.
PGROUNDUP_Down(n) == n \div PGSIZE

\* PGROUNDUP, in pages.
PGROUNDUP(n) == (n + PGSIZE - 1) \div PGSIZE

\* walkpgdir finds a page table for the next page of as.
HasTable(as) == as.pages < NPTENTRIES * as.tabs

\* deallocuvm to n bytes frees these pages of as, and no page table.
Dropped(as, n) == Max({0, as.pages - PGROUNDUP(n)})

\* freevm: the user pages, the page tables and the directory.
freevm(as) == as.dir + as.ktab + as.tabs + as.pages

-----------------------------------------------------------------------------
\* userinit: one page of user memory, with its tables.
MemInit ==
  /\ space = [p \in Users |->
       IF p = initproc THEN [dir |-> 1, ktab |-> 1, tabs |-> 1, pages |-> 1] ELSE NoSpace]
  /\ kstack = [p \in Users |-> IF p = initproc THEN 1 ELSE 0]
  /\ nfree = NPAGES - 5
  /\ sz = [p \in Users |-> IF p = initproc THEN PGSIZE ELSE 0]
  /\ state = [p \in Users |-> IF p = initproc THEN "live" ELSE "unused"]
  /\ job = [p \in Users |-> NoJob]
  /\ panicked = ""

\* A process without pages cannot make a call: it faults and exits.
Idle(p) == state[p] = "live" /\ job[p] = NoJob
Runs(p) == Idle(p) /\ space[p].pages > 0

SetJob(p, j) == job' = [job EXCEPT ![p] = j]

\* fork: allocproc takes a slot and a kernel stack.
fork(p, q) ==
  /\ Runs(p) /\ state[q] = "unused"
  /\ IF nfree = 0
     THEN UNCHANGED <<nfree, kstack, state, job>>
     ELSE /\ nfree' = nfree - 1
          /\ kstack' = [kstack EXCEPT ![q] = 1]
          /\ state' = [state EXCEPT ![q] = "embryo"]
          /\ SetJob(p, [NoJob EXCEPT !.call = "fork", !.child = q, !.to = sz[p]])
  /\ UNCHANGED <<space, sz, panicked>>

\* exec of a program that exists and has a good header.
exec(p, segs) ==
  /\ Runs(p)
  /\ SetJob(p, [NoJob EXCEPT !.call = "exec", !.segs = segs])
  /\ UNCHANGED <<nfree, space, sz, kstack, state, panicked>>

\* allocuvm grows from one size to the other.
Allowed(from, to) == to < KERNBASE /\ to >= from

\* sys_sbrk and growproc; sz + n is unsigned.  When deallocuvm returns 0 growproc
\* takes it for an error, after the pages are gone.  init makes no such call.
sbrk(p, n) ==
  LET to == (sz[p] + n) % UINT IN
  /\ Runs(p) /\ p # initproc
  /\ \/ /\ n > 0 /\ Allowed(sz[p], to)
        /\ SetJob(p, [NoJob EXCEPT !.call = "sbrk", !.as = space[p],
                                   !.from = sz[p], !.to = to])
        /\ UNCHANGED <<nfree, space, sz>>
     \/ /\ n < 0 /\ to < sz[p]
        /\ nfree' = nfree + Dropped(space[p], to)
        /\ space' = [space EXCEPT ![p].pages = @ - Dropped(space[p], to)]
        /\ sz' = [sz EXCEPT ![p] = IF to = 0 THEN @ ELSE to]
        /\ UNCHANGED job
  /\ UNCHANGED <<kstack, state, panicked>>

-----------------------------------------------------------------------------
(* The allocating calls, one kalloc at a time.                             *)

\* Faulty variant: the page that could not be mapped is lost.
OnError_LosesMem(p) ==
  IF job[p].call = "sbrk" THEN Dropped(job[p].as, job[p].from)
  ELSE freevm(job[p].as) + IF job[p].call = "fork" THEN 1 ELSE 0

\* What an error return frees: allocuvm's deallocuvm and kfree(mem), the labels
\* bad of copyuvm and of exec, and fork's kfree(np->kstack).
OnError(p) ==
  job[p].mem + IF job[p].call = "sbrk" THEN Dropped(job[p].as, job[p].from)
               ELSE freevm(job[p].as) + IF job[p].call = "fork" THEN 1 ELSE 0

\* The call of p returns -1.  sbrk has worked in the process's own page
\* directory, where new page tables stay.
Abort(p) ==
  LET j == job[p] IN
  /\ nfree' = nfree + OnError(p)
  /\ space' = [space EXCEPT ![p] =
       IF j.call = "sbrk" THEN [j.as EXCEPT !.pages = @ - Dropped(j.as, j.from)] ELSE @]
  /\ kstack' = [kstack EXCEPT ![j.child] = IF j.call = "fork" THEN 0 ELSE @]
  /\ state' = [state EXCEPT ![j.child] = IF j.call = "fork" THEN "unused" ELSE @]
  /\ SetJob(p, NoJob)
  /\ UNCHANGED <<sz, panicked>>

\* setupkvm, allocuvm, copyuvm and walkpgdir: what the next kalloc is for.
Needs(j) ==
  CASE j.as.dir = 0 -> "dir"
    [] j.as.dir = 1 /\ j.as.ktab = 0 -> "ktab"
    [] j.as.ktab = 1 /\ j.mem = 0 /\ j.as.pages < PGROUNDUP(j.to) -> "mem"
    [] j.mem = 1 -> "tab"
    [] OTHER -> "none"

\* mappages, when there is a page table.
WithMapping(j) ==
  IF j.mem = 1 /\ HasTable(j.as) THEN [j EXCEPT !.as.pages = @ + 1, !.mem = 0] ELSE j

Allocate(p) ==
  LET j == job[p] IN
  /\ j.call # "none" /\ Needs(j) # "none"
  /\ IF nfree = 0
     THEN Abort(p)
     ELSE /\ nfree' = nfree - 1
          /\ SetJob(p, WithMapping(CASE Needs(j) = "dir"  -> [j EXCEPT !.as.dir = 1]
                                [] Needs(j) = "ktab" -> [j EXCEPT !.as.ktab = 1]
                                [] Needs(j) = "mem"  -> [j EXCEPT !.mem = 1]
                                [] Needs(j) = "tab"  -> [j EXCEPT !.as.tabs = @ + 1]))
          /\ UNCHANGED <<space, sz, kstack, state, panicked>>

Built(p, call) == job[p].call = call /\ Needs(job[p]) = "none"

\* The end of fork.
forked(p) ==
  LET j == job[p] IN
  /\ Built(p, "fork")
  /\ space' = [space EXCEPT ![j.child] = j.as]
  /\ sz' = [sz EXCEPT ![j.child] = sz[p]]
  /\ state' = [state EXCEPT ![j.child] = "live"]
  /\ SetJob(p, NoJob)
  /\ UNCHANGED <<nfree, kstack, panicked>>

\* The end of growproc.
grown(p) ==
  /\ Built(p, "sbrk")
  /\ space' = [space EXCEPT ![p] = job[p].as]
  /\ sz' = [sz EXCEPT ![p] = job[p].to]
  /\ SetJob(p, NoJob)
  /\ UNCHANGED <<nfree, kstack, state, panicked>>

\* exec's next segment, unless loaduvm of the one before failed: allocuvm
\* refuses one that ends above KERNBASE and does nothing for a lower end.  After
\* the last come the guard page and the stack.
segment(p, ok) ==
  LET j == job[p]
      to == IF j.segs = << >> THEN PGSIZE * (PGROUNDUP(j.to) + 2) ELSE Head(j.segs)
  IN
  /\ Built(p, "exec") /\ ~j.stack
  /\ IF ok /\ to < KERNBASE
     THEN /\ SetJob(p, [j EXCEPT !.to = Max({@, to}),
                                 !.segs = IF @ = << >> THEN @ ELSE Tail(@),
                                 !.stack = j.segs = << >>])
          /\ UNCHANGED <<nfree, space, sz, kstack, state, panicked>>
     ELSE Abort(p)

\* exec's freevm(oldpgdir)
OldImage(p) == freevm(space[p])

\* "Commit to the user image", unless copyout of the arguments failed.
commit(p, ok) ==
  LET j == job[p] IN
  /\ Built(p, "exec") /\ j.stack
  /\ IF ok
     THEN /\ nfree' = nfree + OldImage(p)
          /\ space' = [space EXCEPT ![p] = j.as]
          /\ sz' = [sz EXCEPT ![p] = j.to]
          /\ SetJob(p, NoJob)
          /\ UNCHANGED <<kstack, state, panicked>>
     ELSE Abort(p)

-----------------------------------------------------------------------------
exit(p) ==
  /\ Idle(p) /\ p # initproc
  /\ state' = [state EXCEPT ![p] = "zombie"]
  /\ UNCHANGED <<nfree, space, sz, kstack, job, panicked>>

\* wait() reaps a zombie.
wait(p) ==
  /\ state[p] = "zombie"
  /\ nfree' = nfree + freevm(space[p]) + kstack[p]
  /\ space' = [space EXCEPT ![p] = NoSpace]
  /\ kstack' = [kstack EXCEPT ![p] = 0]
  /\ sz' = [sz EXCEPT ![p] = 0]
  /\ state' = [state EXCEPT ![p] = "unused"]
  /\ UNCHANGED <<job, panicked>>

\* sys_shmget maps a new page at SHMEM, which is KERNBASE, where kmap has mapped
\* the I/O space already: mappages panics.
sys_shmget(p) ==
  /\ Runs(p) /\ nfree > 0
  /\ nfree' = nfree - 1
  /\ panicked' = "remap"
  /\ UNCHANGED <<space, sz, kstack, state, job>>

Step(p) ==
  \/ \E q \in Users : fork(p, q)
  \/ \E segs \in Programs : exec(p, segs)
  \/ \E n \in Increments : sbrk(p, n)
  \/ Allocate(p) \/ forked(p) \/ grown(p)
  \/ \E ok \in BOOLEAN : segment(p, ok) \/ commit(p, ok)
  \/ exit(p) \/ wait(p) \/ sys_shmget(p)

MemNext == panicked = "" /\ \E p \in Users : Step(p)

-----------------------------------------------------------------------------
\* Pages that p holds; sbrk builds in the process's own address space.
Held(p) ==
  LET All(as) == as.dir + as.ktab + as.tabs + as.pages IN
  kstack[p] + job[p].mem + All(job[p].as)
    + IF job[p].call = "sbrk" THEN 0 ELSE All(space[p])

\* No page is lost and none is freed twice, whatever order the steps of fork, exec,
\* sbrk, exit and wait come in and at whichever kalloc, load or copy a call fails:
\* free and held pages add up to all there are.
PagesAccounted ==
  panicked = "" => nfree + MapThenSumSet(Held, Users) = NPAGES

\* A process has exactly the pages below its size, so that copyuvm and loaduvm find
\* every one ("copyuvm: page not present") also after an sbrk that failed half-way.
\* One that gave everything back with sbrk keeps its size and has none: it dies of
\* its next instruction.
SizeIsMapped ==
  \A p \in Users :
    state[p] = "live" =>
      \/ space[p].pages = 0
      \/ sz[p] <= PGSIZE * space[p].pages /\ PGSIZE * space[p].pages < sz[p] + PGSIZE

=============================================================================
