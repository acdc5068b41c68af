----------------------------- MODULE BlockStore -----------------------------
(***************************************************************************)
(* What the buffer cache promises its callers (bio.c:3-16): one copy of    *)
(* each disk block, that one process at a time holds, reads and changes,   *)
(* and that nothing but its holder changes, wherever the copy is.          *)
(***************************************************************************)
CONSTANTS Procs, Blocks, Values, Zero, NoBlock

VARIABLES
  contents,   \* per block: what the next reader will see
  holder      \* per process: the block it holds, or NoBlock

Init ==
  /\ contents = [k \in Blocks |-> Zero]
  /\ holder = [p \in Procs |-> NoBlock]

Hold(p, k) ==
  /\ holder[p] = NoBlock
  /\ \A q \in Procs : holder[q] # k
  /\ holder' = [holder EXCEPT ![p] = k]
  /\ UNCHANGED contents

Change(p, v) ==
  /\ holder[p] # NoBlock
  /\ contents' = [contents EXCEPT ![holder[p]] = v]
  /\ UNCHANGED holder

Release(p) ==
  /\ holder[p] # NoBlock
  /\ holder' = [holder EXCEPT ![p] = NoBlock]
  /\ UNCHANGED contents

Next ==
  \E p \in Procs :
    \/ \E k \in Blocks : Hold(p, k)
    \/ \E v \in Values : Change(p, v)
    \/ Release(p)

Spec == Init /\ [][Next]_<<contents, holder>>

=============================================================================
