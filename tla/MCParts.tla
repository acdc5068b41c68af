------------------------------ MODULE MCParts ------------------------------
(***************************************************************************)
(* Parts of the system that are checked side by side: each behaviour is one *)
(* of one part, the others stay as they are.                                *)
(***************************************************************************)
EXTENDS Shell, Grep, Heap, FileData, Memory, Schedulers, SpinLock

VARIABLE part

parts == <<shellvars, grepvars, heapvars, datavars, memvars, simvars, spinvars>>

\* No simulator runs.
NoSim ==
  /\ program = "none" /\ tasks = << >> /\ time = 0 /\ ended = FALSE

Init ==
  /\ ShellInit /\ GrepInit /\ HeapInit /\ DataInit /\ MemInit /\ SpinInit
  /\ \/ part \in {"shell", "grep", "heap", "data", "memory", "spin"} /\ NoSim
     \/ part = "sim" /\ SimInit

ShellStep ==
  /\ part = "shell" /\ ShellNext
  /\ UNCHANGED <<grepvars, heapvars, datavars, memvars, simvars, spinvars, part>>
GrepStep ==
  /\ part = "grep" /\ GrepNext
  /\ UNCHANGED <<shellvars, heapvars, datavars, memvars, simvars, spinvars, part>>
HeapStep ==
  /\ part = "heap" /\ HeapNext
  /\ UNCHANGED <<shellvars, grepvars, datavars, memvars, simvars, spinvars, part>>
DataStep ==
  /\ part = "data" /\ DataNext
  /\ UNCHANGED <<shellvars, grepvars, heapvars, memvars, simvars, spinvars, part>>
MemStep ==
  /\ part = "memory" /\ MemNext
  /\ UNCHANGED <<shellvars, grepvars, heapvars, datavars, simvars, spinvars, part>>
SimStep ==
  /\ part = "sim" /\ SimNext
  /\ UNCHANGED <<shellvars, grepvars, heapvars, datavars, memvars, spinvars, part>>
SpinStep ==
  /\ part = "spin" /\ SpinNext
  /\ UNCHANGED <<shellvars, grepvars, heapvars, datavars, memvars, simvars, part>>

Next == ShellStep \/ GrepStep \/ HeapStep \/ DataStep \/ MemStep \/ SimStep \/ SpinStep

Spec == Init /\ [][Next]_<<parts, part>>

-----------------------------------------------------------------------------
\* Nothing tells CPUs from each other, nor threads, nor struct files.
Symmetry ==
  Permutations(CPUs) \cup Permutations(Threads) \cup Permutations(OpenFiles)

\* Commands of up to three levels over two simple ones.
Simple == {execcmd(<<"a">>), execcmd(<<"b", "a">>)}
Deeper(S) ==
  S \cup {redircmd(c, "f", fd) : c \in S, fd \in 0..1} \cup {backcmd(c) : c \in S}
    \cup {pipecmd(c, d) : c \in S, d \in S} \cup {listcmd(c, d) : c \in S, d \in S}
SmallTrees == Deeper(Deeper(Simple))

\* A program of one small segment, and one whose second segment ends lower.
TwoPrograms == {<<1>>, <<3, 2>>}
SomeIncrements == {-3, -2, 1, 3}

\* Pairs of tasks, some with a deadline before the end of the period, and triples.
Due(t, early) ==
  [exec |-> t.exec, period |-> t.period, arrival |-> t.arrival,
   deadline |-> t.arrival + t.period - early]
Jobs == [exec : 1..3, period : {2, 3, 4, 6}, arrival : 0..1]
ShortJobs == [exec : 1..2, period : {3, 4, 6}, arrival : {0}]
TaskSets ==
  {<<Due(a, 0), Due(b, early)>> : a \in Jobs, b \in Jobs, early \in 0..1}
    \cup {<<Due(a, 0), Due(b, 0), Due(c, 0)>> : a \in ShortJobs, b \in ShortJobs, c \in ShortJobs}

\* Three tasks, of which some may have no tickets.
Holders == [burst : 1..2, tickets : 0..2]
TicketSets == {<<a, b, c>> : a \in Holders, b \in Holders, c \in Holders}
=============================================================================
