----------------------------- MODULE MsgChannel -----------------------------
(***************************************************************************)
(* What send and recv promise, without the ring: a bounded queue from      *)
(* which a receiver takes the oldest message of the type it asks for.      *)
(*                                                                         *)
(* One clause is not what a reader would expect.  A receive that takes the *)
(* oldest message of a FULL queue keeps that message and loses the newest  *)
(* one instead (sysproc.c:182, see MsgQueue).  Every other receive removes *)
(* exactly the message it returns.                                         *)
(***************************************************************************)
EXTENDS Naturals, Sequences

CONSTANTS Types, Data, Max, Stored(_)

VARIABLES q, ret

Full == Len(q) = Max

Failed(why) == [call |-> "failed", why |-> why]

\* The sequence s without its i-th element.
Without(s, i) ==
  [j \in 1..(Len(s) - 1) |-> IF j < i THEN s[j] ELSE s[j + 1]]

OldestOfType(i, type) ==
  /\ i \in 1..Len(q)
  /\ q[i].type = type
  /\ \A k \in 1..(i - 1) : q[k].type # type

Init == q = << >> /\ ret = Failed("none yet")

BadArgument == ret' = Failed("argument") /\ UNCHANGED q

SendFull == Full /\ ret' = Failed("full") /\ UNCHANGED q

RecvNone(type) ==
  /\ \A i \in 1..Len(q) : q[i].type # type
  /\ ret' = Failed("no message")
  /\ UNCHANGED q

Send(type, msg) ==
  /\ ~Full
  /\ q' = Append(q, [type |-> type, data |-> Stored(msg)])
  /\ ret' = [call |-> "send", msg |-> [type |-> type, data |-> Stored(msg)]]

Recv(type) ==
  \E i \in 1..Len(q) :
    /\ OldestOfType(i, type)
    /\ ret' = [call |-> "recv", msg |-> q[i]]
    /\ q' = Without(q, IF Full /\ i = 1 THEN Max ELSE i)

Next ==
  \/ BadArgument
  \/ SendFull
  \/ \E type \in Types, msg \in Data : Send(type, msg)
  \/ \E type \in Types : Recv(type) \/ RecvNone(type)

Spec == Init /\ [][Next]_<<q, ret>>

=============================================================================
