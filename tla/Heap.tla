-------------------------------- MODULE Heap --------------------------------
(***************************************************************************)
(* umalloc.c: malloc and free of user programs, over sbrk.  An address is  *)
(* a number of units of the size of a header; base, which stands before    *)
(* the heap, has address 0.  A block is its header with the units after it;*)
(* what a header holds that is not read again is forgotten.                *)
(***************************************************************************)
EXTENDS Naturals, FiniteSets

CONSTANTS
  CORE,         \* least number of units that morecore asks for (4096)
  Limit,        \* the heap cannot grow beyond this address
  Requests      \* units that malloc is asked for, the header included

ASSUME HeapAssumption ==
  CORE \in Nat \ {0} /\ Limit \in Nat /\ Requests \subseteq Nat \ {0, 1}

VARIABLES
  mem,        \* header at each address: ptr and size
  freep,      \* where the next search starts, 0 at first
  brk,        \* end of the heap
  got         \* blocks that the program has got, by address

heapvars == <<mem, freep, brk, got>>

base == 0
NoHeader == [ptr |-> 0, size |-> 0]

\* The first malloc makes base a list of its own, which is what it is here from the
\* start.
HeapInit ==
  /\ mem = [a \in 0..Limit |-> NoHeader]
  /\ freep = base
  /\ brk = 1
  /\ got = {}

-----------------------------------------------------------------------------
\* The place in the circular list after which free puts bp: between its neighbours,
\* or at the wrap if bp is above or below all.
Fits(m, p, bp) ==
  \/ bp > p /\ bp < m[p].ptr
  \/ p >= m[p].ptr /\ (bp > p \/ bp < m[p].ptr)

RECURSIVE Place(_, _, _)
Place(m, p, bp) == IF Fits(m, p, bp) THEN p ELSE Place(m, m[p].ptr, bp)

\* Faulty variant: the upper neighbour's size is not added.
JoinUp_NoSize(m, p, bp) ==
  IF bp + m[bp].size = m[p].ptr
  THEN [m EXCEPT ![bp].ptr = m[m[p].ptr].ptr]
  ELSE [m EXCEPT ![bp].ptr = m[p].ptr]

\* bp with the block above it.
JoinUp(m, p, bp) ==
  IF bp + m[bp].size = m[p].ptr
  THEN [m EXCEPT ![bp] = [ptr |-> m[m[p].ptr].ptr, size |-> @.size + m[m[p].ptr].size],
                 ![m[p].ptr] = NoHeader]
  ELSE [m EXCEPT ![bp].ptr = m[p].ptr]

\* The block p with bp above it.
JoinDown(m, p, bp) ==
  IF p + m[p].size = bp
  THEN [m EXCEPT ![p] = [ptr |-> m[bp].ptr, size |-> @.size + m[bp].size],
                 ![bp] = NoHeader]
  ELSE [m EXCEPT ![p].ptr = bp]

\* free: the memory and freep after it.
Freed(m, fp, bp) ==
  LET p == Place(m, fp, bp) IN [mem |-> JoinDown(JoinUp(m, p, bp), p, bp), freep |-> p]

\* morecore
Units(nu) == IF nu < CORE THEN CORE ELSE nu
More(m, fp, b, nu) == Freed([m EXCEPT ![b].size = Units(nu)], fp, b)

\* malloc takes all of p, or its tail end.
Carved(m, prevp, p, nunits) ==
  IF m[p].size = nunits
  THEN [mem |-> [m EXCEPT ![prevp].ptr = m[p].ptr, ![p].ptr = 0], at |-> p]
  ELSE LET q == p + m[p].size - nunits
       IN  [mem |-> [m EXCEPT ![p].size = @ - nunits, ![q].size = nunits], at |-> q]

\* The loop of malloc; at 0 stands for its result 0.
RECURSIVE Search(_, _, _, _, _, _)
Search(m, fp, b, prevp, p, nunits) ==
  IF m[p].size >= nunits
  THEN LET c == Carved(m, prevp, p, nunits)
       IN  [mem |-> c.mem, freep |-> prevp, brk |-> b, at |-> c.at]
  ELSE IF p # fp THEN Search(m, fp, b, p, m[p].ptr, nunits)
  ELSE IF b + Units(nunits) > Limit THEN [mem |-> m, freep |-> fp, brk |-> b, at |-> 0]
  ELSE LET c == More(m, fp, b, nunits)
       IN  Search(c.mem, c.freep, b + Units(nunits), c.freep, c.mem[c.freep].ptr, nunits)

malloc(nunits) ==
  LET r == Search(mem, freep, brk, freep, mem[freep].ptr, nunits) IN
  /\ mem' = r.mem /\ freep' = r.freep /\ brk' = r.brk
  /\ got' = got \cup ({r.at} \ {0})

free(bp) ==
  LET r == Freed(mem, freep, bp) IN
  /\ bp \in got
  /\ mem' = r.mem /\ freep' = r.freep /\ got' = got \ {bp}
  /\ UNCHANGED brk

HeapNext == (\E n \in Requests : malloc(n)) \/ (\E bp \in got : free(bp))

-----------------------------------------------------------------------------
\* The free list: what is reached from base.
RECURSIVE Reached(_, _)
Reached(p, seen) == IF p \in seen THEN seen ELSE Reached(mem[p].ptr, seen \cup {p})
FreeList == Reached(base, {}) \ {base}

BlockAt(a) == a..(a + mem[a].size - 1)

\* Over any sequence of malloc and free every unit of the heap belongs to one block
\* that is either in the program's hands or on the free list: no block overlaps
\* another and none is lost.  No two free blocks are neighbours, wherever freep
\* stood when they were freed, so that they can be handed out in one piece again.
HeapPartitioned ==
  /\ \A a \in 1..(brk - 1) :
       \E bp \in got \cup FreeList : a \in BlockAt(bp)
  /\ \A bp, cp \in got \cup FreeList :
       bp # cp => BlockAt(bp) \cap BlockAt(cp) = {}
  /\ got \cap FreeList = {}
  /\ \A bp \in FreeList : bp + mem[bp].size \notin FreeList
=============================================================================
