------------------------------ MODULE MsgQueue ------------------------------
(***************************************************************************)
(* The kernel message queue: the global msgq and the system calls send and *)
(* recv (sysproc.c, msgqueue.h, main.c).  Each call runs from acquire to   *)
(* release of msgq.lock without sleeping, so a call is one step.           *)
(*                                                                         *)
(* A message body is a string; only its identity and its length matter     *)
(* here, the length because safestrcpy truncates to MSG_SIZE - 1.          *)
(***************************************************************************)
EXTENDS Naturals, Sequences

CONSTANTS
  Types,          \* message types a caller may use
  Bodies,         \* identities of message bodies
  EmptyBody,      \* the body of a slot nobody has written
  MaxLen,         \* longest body a caller passes
  MAX_MESSAGES,   \* slots of the ring (msgqueue.h)
  MSG_SIZE        \* bytes of a slot, the closing NUL included (msgqueue.h)

ASSUME MsgQueueAssumption ==
  /\ MAX_MESSAGES \in Nat \ {0}
  /\ MSG_SIZE \in Nat \ {0}
  /\ MaxLen \in Nat
  /\ 0 \in Types
  /\ EmptyBody \in Bodies

VARIABLES
  messages,       \* msgq.messages, the ring
  head, tail, count,
  ret             \* what the last call returned to its caller

msgvars == <<messages, head, tail, count, ret>>

-----------------------------------------------------------------------------
Slots == 0..(MAX_MESSAGES - 1)

Data == [body : Bodies, len : 0..MaxLen]

Message == [type : Types, data : Data]

\* safestrcpy(s, t, MSG_SIZE): at most MSG_SIZE - 1 bytes arrive.
safestrcpy(d) ==
  [d EXCEPT !.len = IF @ < MSG_SIZE THEN @ ELSE MSG_SIZE - 1]

\* A slot of the zero-initialised msgq.
ZeroMessage ==
  [type |-> 0, data |-> [body |-> EmptyBody, len |-> 0]]

\* Every failure returns -1; the model keeps its cause apart.
Failed(why) == [call |-> "failed", why |-> why]

Replies ==
  {Failed(why) : why \in {"none yet", "argument", "full", "no message"}} \cup [call : {"send", "recv"}, msg : Message]

\* msgq is zeroed with the kernel's data and msgqueue_init sets its indices.
MsgInit ==
  /\ messages = [s \in Slots |-> ZeroMessage]
  /\ head = 0
  /\ tail = 0
  /\ count = 0
  /\ ret = Failed("none yet")

Fail(why) ==
  /\ ret' = Failed(why)
  /\ UNCHANGED <<messages, head, tail, count>>

\* argint or argptr rejects an argument of either call.
BadArgument == Fail("argument")

IsFull == count = MAX_MESSAGES

sys_send(type, msg) ==
  \/ IsFull /\ Fail("full")
  \/ /\ ~IsFull
     /\ LET m == [type |-> type, data |-> safestrcpy(msg)]
        IN  /\ messages' = [messages EXCEPT ![tail] = m]
            /\ ret' = [call |-> "send", msg |-> m]
     /\ tail' = (tail + 1) % MAX_MESSAGES
     /\ count' = count + 1
     /\ UNCHANGED head

\* The slot of the i-th queued message, i counted from 0.
Index(i) == (head + i) % MAX_MESSAGES

\* The scan of sys_recv stops at the first message of the type.
FirstOfType(i, type) ==
  /\ i \in 0..(count - 1)
  /\ messages[Index(i)].type = type
  /\ \A k \in 0..(i - 1) : messages[Index(k)].type # type

\* Faulty variant: the loop leaves the last slot before tail behind.
Shifted_OneShort(index) ==
  {j \in Slots :
     (j + 1 + MAX_MESSAGES - index) % MAX_MESSAGES
       < (tail + MAX_MESSAGES - index) % MAX_MESSAGES}

\* The loop "for (j = index; j != tail; j = (j + 1) % MAX_MESSAGES)" visits
\* the slots from index up to tail, none of them when index = tail.
Shifted(index) ==
  {j \in Slots :
     (j + MAX_MESSAGES - index) % MAX_MESSAGES
       < (tail + MAX_MESSAGES - index) % MAX_MESSAGES}

\* The ring after that loop: every visited slot takes its successor's message.
ShiftDown(index) ==
  [j \in Slots |-> IF j \in Shifted(index)
                   THEN messages[(j + 1) % MAX_MESSAGES]
                   ELSE messages[j]]

sys_recv(type) ==
  \/ /\ \A i \in 0..(count - 1) : messages[Index(i)].type # type
     /\ Fail("no message")
  \/ \E i \in 0..(count - 1) :
       /\ FirstOfType(i, type)
       /\ LET m == messages[Index(i)]
          IN  ret' = [call |-> "recv",
                      msg |-> [m EXCEPT !.data = safestrcpy(@)]]
       /\ messages' = ShiftDown(Index(i))
       /\ tail' = (tail + MAX_MESSAGES - 1) % MAX_MESSAGES
       /\ count' = count - 1
       /\ UNCHANGED head

MsgNext ==
  \/ BadArgument
  \/ \E type \in Types, msg \in Data : sys_send(type, msg)
  \/ \E type \in Types : sys_recv(type)

MsgSpec == MsgInit /\ [][MsgNext]_msgvars

-----------------------------------------------------------------------------
MsgTypeOK ==
  /\ messages \in [Slots -> Message]
  /\ head \in Slots
  /\ tail \in Slots
  /\ count \in 0..MAX_MESSAGES
  /\ ret \in Replies

\* The queued messages, oldest first.
Contents == [i \in 1..count |-> messages[Index(i - 1)]]

Channel ==
  INSTANCE MsgChannel WITH Data <- Data, Max <- MAX_MESSAGES,
                           Stored <- safestrcpy, q <- Contents, ret <- ret

\* send and recv on the ring implement the bounded channel: order per type,
\* what is returned, what is removed and when a call fails.
ImplementsChannel == Channel!Spec

\* sysproc.c:181, "Remove the message from the queue": a successful receive
\* takes the message it returned out of the queue, and no other.
ReceivedIsRemoved ==
  [][count' < count =>
       \E i \in 1..count :
         /\ Contents[i] = ret'.msg
         /\ Contents' = Channel!Without(Contents, i)]_msgvars

=============================================================================
