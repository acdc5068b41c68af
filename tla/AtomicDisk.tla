----------------------------- MODULE AtomicDisk -----------------------------
(***************************************************************************)
(* What the log promises the file system: a disk on which system calls     *)
(* read and write single blocks, and whose contents move to stable storage *)
(* as a whole, at a moment when no system call is half-way.  A crash goes  *)
(* back to the last such moment.                                           *)
(***************************************************************************)
CONSTANTS Procs, Blocks, Values, Zero

VARIABLES
  stable,    \* what a crash leaves behind
  current,   \* what system calls see
  active     \* processes between begin_op and end_op

Init ==
  /\ stable = [b \in Blocks |-> Zero]
  /\ current = stable
  /\ active = {}

Begin(p) ==
  /\ p \notin active
  /\ active' = active \cup {p}
  /\ UNCHANGED <<stable, current>>

Write(p, b, v) ==
  /\ p \in active
  /\ current' = [current EXCEPT ![b] = v]
  /\ UNCHANGED <<stable, active>>

End(p) ==
  /\ p \in active
  /\ active' = active \ {p}
  /\ UNCHANGED <<stable, current>>

Commit ==
  /\ active = {}
  /\ stable' = current
  /\ UNCHANGED <<current, active>>

Crash ==
  /\ current' = stable
  /\ active' = {}
  /\ UNCHANGED stable

Next ==
  \/ \E p \in Procs : Begin(p) \/ End(p)
  \/ \E p \in Procs, b \in Blocks, v \in Values : Write(p, b, v)
  \/ Commit
  \/ Crash

Spec == Init /\ [][Next]_<<stable, current, active>>

=============================================================================
