----------------------------- MODULE ByteStream -----------------------------
(***************************************************************************)
(* What a pipe promises the processes at its two ends: bytes come out in   *)
(* the order they went in, none lost and none twice; a read returns bytes, *)
(* or nothing once the last writer is gone; a write fails only when it     *)
(* would have to wait and nobody is left to read, or when it is killed.    *)
(***************************************************************************)
EXTENDS Naturals, Sequences

CONSTANTS Procs, Capacity, Strings, Sizes

VARIABLES
  queue,    \* the bytes in the pipe
  ropen, wopen,
  left,     \* per process: what its write has still to put into the pipe
  got,      \* what the last read returned
  killed    \* killed processes

vars == <<queue, ropen, wopen, left, got, killed>>

Init ==
  /\ queue = << >> /\ ropen = TRUE /\ wopen = TRUE
  /\ left = [p \in Procs |-> << >>] /\ got = << >>
  /\ killed = {}

Write(p, s) ==
  /\ left[p] = << >> /\ wopen
  /\ left' = [left EXCEPT ![p] = s]
  /\ UNCHANGED <<queue, ropen, wopen, got, killed>>

\* Some more bytes of a write go into the pipe.
Put(p, k) ==
  /\ k <= Len(left[p]) /\ Len(queue) + k <= Capacity
  /\ wopen
  /\ queue' = queue \o SubSeq(left[p], 1, k)
  /\ left' = [left EXCEPT ![p] = SubSeq(@, k + 1, Len(@))]
  /\ UNCHANGED <<ropen, wopen, got, killed>>

\* A write fills the pipe and gives up.
Fail(p, k) ==
  /\ k < Len(left[p]) /\ Len(queue) + k = Capacity
  /\ ~ropen \/ p \in killed
  /\ queue' = queue \o SubSeq(left[p], 1, k)
  /\ left' = [left EXCEPT ![p] = << >>]
  /\ UNCHANGED <<ropen, wopen, got, killed>>

Read(n) ==
  /\ ropen
  /\ queue # << >> \/ ~wopen
  /\ LET k == IF n < Len(queue) THEN n ELSE Len(queue)
     IN  /\ got' = SubSeq(queue, 1, k)
         /\ queue' = SubSeq(queue, k + 1, Len(queue))
  /\ UNCHANGED <<ropen, wopen, left, killed>>

\* The last process at an end closes it.
CloseRead == ropen /\ ropen' = FALSE /\ UNCHANGED <<queue, wopen, left, got, killed>>
CloseWrite ==
  /\ wopen /\ \A p \in Procs : left[p] = << >>
  /\ wopen' = FALSE
  /\ UNCHANGED <<queue, ropen, left, got, killed>>

Kill(p) == killed' = killed \cup {p} /\ UNCHANGED <<queue, ropen, wopen, left, got>>

Next ==
  \/ \E p \in Procs : \/ \E s \in Strings : Write(p, s)
                      \/ \E k \in 0..Capacity : Put(p, k) \/ Fail(p, k)
                      \/ Kill(p)
  \/ \E n \in Sizes : Read(n)
  \/ CloseRead \/ CloseWrite

Spec == Init /\ [][Next]_vars

=============================================================================
