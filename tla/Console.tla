------------------------------ MODULE Console ------------------------------
(***************************************************************************)
(* console.c: the ring of typed characters, filled and edited by           *)
(* consoleintr and emptied by consoleread; the cursor that consputc moves. *)
(*                                                                         *)
(* Everything here runs with cons.lock held.  A step is one critical       *)
(* section, one character of consoleintr's, or one character of what the   *)
(* holder of the lock prints.                                              *)
(***************************************************************************)
EXTENDS Naturals, Sequences

CONSTANTS
  Procs,        \* processes that read and write the console
  INPUT_BUF,
  Word,         \* range of the unsigned indices
  Letters,      \* ordinary characters
  Sizes,        \* arguments of read
  Outputs,      \* what is written
  COLS, ROWS    \* the screen

ASSUME ConsoleAssumption ==
  /\ INPUT_BUF \in Nat \ {0} /\ Word \in Nat /\ Word % INPUT_BUF = 0 /\ Word > INPUT_BUF
  /\ COLS \in Nat \ {0} /\ ROWS \in Nat /\ ROWS > 2
  /\ Sizes \subseteq Nat

EndsLine == {"\n", "^D"}
Chars == Letters \cup EndsLine

\* A cell of the ring that was never written.
Nul == ""

VARIABLES
  buf, r, w, e,     \* input
  pos,              \* of the cursor
  out,              \* what the holder of cons.lock has still to print
  call,             \* per process: in consoleread, "awake" or "asleep", or "none"
  target, n,        \* per process: what it asked for, what it still wants
  killed,
  panicked

input == <<buf, r, w, e>>
reads == <<call, target, n>>
vars == <<input, pos, out, reads, killed, panicked>>

Init ==
  /\ buf = [k \in 0..(INPUT_BUF - 1) |-> Nul]
  /\ r = 0 /\ w = 0 /\ e = 0
  /\ pos = 0 /\ out = << >>
  /\ call = [p \in Procs |-> "none"]
  /\ target = [p \in Procs |-> 0]
  /\ n = [p \in Procs |-> 0]
  /\ killed = {}
  /\ panicked = FALSE

-----------------------------------------------------------------------------
(* The screen                                                              *)

\* Faulty variant: the screen scrolls a row late.
Scrolled_Late(q) == IF q \div COLS >= ROWS THEN q - COLS ELSE q

\* cgaputc scrolls when the cursor comes to the last row.
Scrolled(q) == IF q \div COLS >= ROWS - 1 THEN q - COLS ELSE q

\* Where consputc(c) moves the cursor from q.
consputc(q, c) ==
  Scrolled(CASE c = "\n" -> q + COLS - (q % COLS)
             [] c = "BACKSPACE" -> IF q > 0 THEN q - 1 ELSE q
             [] OTHER -> q + 1)

\* The next character of out.
prints ==
  /\ pos' = consputc(pos, Head(out))
  /\ out' = Tail(out)
  /\ UNCHANGED <<input, reads, killed, panicked>>

-----------------------------------------------------------------------------
(* consoleintr                                                             *)

Plus(x, k) == (x + k) % Word
Minus(x, k) == (x + Word - k) % Word
At(x) == buf[x % INPUT_BUF]

\* wakeup(&input.r)
wakeup == [p \in Procs |-> IF call[p] = "asleep" THEN "awake" ELSE call[p]]

\* Faulty variant: a full buffer is not noticed.
LineDone_NotWhenFull(c) == c \in EndsLine

\* The character c, to be stored at e, makes what is typed readable.
LineDone(c) == c \in EndsLine \/ Plus(e, 1) = Plus(r, INPUT_BUF)

Committed == w' = Plus(e, 1) /\ call' = wakeup

HasRoom == Minus(e, r) < INPUT_BUF

\* An ordinary character, if there is room.
typed(c) ==
  /\ HasRoom
  /\ buf' = [buf EXCEPT ![e % INPUT_BUF] = c]
  /\ e' = Plus(e, 1)
  /\ pos' = consputc(pos, c)
  /\ IF LineDone(c) THEN Committed ELSE UNCHANGED <<w, call>>
  /\ UNCHANGED <<r, out, target, n, killed, panicked>>

\* Faulty variant: backspace takes back what is readable.
MayErase_Readable == e # r

MayErase == e # w

backspace ==
  /\ MayErase
  /\ e' = Minus(e, 1)
  /\ pos' = consputc(pos, "BACKSPACE")
  /\ UNCHANGED <<buf, r, w, out, reads, killed, panicked>>

\* ^U takes back k characters, down to w or a newline.
kill_line ==
  \E k \in 0..Minus(e, w) :
    /\ k = Minus(e, w) \/ At(Minus(e, k + 1)) = "\n"
    /\ \A j \in 1..k : At(Minus(e, j)) # "\n"
    /\ e' = Minus(e, k)
    /\ out' = [j \in 1..k |-> "BACKSPACE"]
    /\ UNCHANGED <<buf, r, w, pos, reads, killed, panicked>>

\* 'C': cprintf acquires cons.lock, which consoleintr holds, and acquire panics
\* before the signal is raised.
shift_C == panicked' = TRUE /\ UNCHANGED <<input, pos, out, reads, killed>>

-----------------------------------------------------------------------------
(* consoleread and consolewrite                                            *)

read(p, size) ==
  /\ call[p] = "none" /\ p \notin killed
  /\ call' = [call EXCEPT ![p] = "awake"]
  /\ target' = [target EXCEPT ![p] = size]
  /\ n' = [n EXCEPT ![p] = size]
  /\ UNCHANGED <<input, pos, out, killed, panicked>>

Return(p) ==
  /\ call' = [call EXCEPT ![p] = "none"]
  /\ target' = [target EXCEPT ![p] = 0]
  /\ n' = [n EXCEPT ![p] = 0]

\* consoleread stops at the k-th character: p has all it wants, or the line ends.
Stops(p, k) == k = n[p] \/ At(Plus(r, k - 1)) \in EndsLine

\* p takes k characters without sleeping.
Takes(p, k) ==
  /\ k = Minus(w, r) \/ Stops(p, k)
  /\ \A j \in 1..(k - 1) : ~Stops(p, j)

\* Faulty variant: ^D is consumed by whoever meets it.
KeepsEof_Never(p, k) == FALSE

\* "Save ^D for next time, to make sure caller gets a 0-byte result."
KeepsEof(p, k) == At(Plus(r, k - 1)) = "^D" /\ n[p] - (k - 1) < target[p]

\* consoleread by p finds characters: it returns, or has emptied the ring and goes
\* on to wait for the rest.
consoleread(p) ==
  /\ call[p] = "awake" /\ n[p] > 0 /\ r # w
  /\ \E k \in 1..Minus(w, r) :
       /\ Takes(p, k)
       /\ r' = Plus(r, IF KeepsEof(p, k) THEN k - 1 ELSE k)
       /\ IF Stops(p, k) THEN Return(p)
          ELSE n' = [n EXCEPT ![p] = @ - k] /\ UNCHANGED <<call, target>>
  /\ UNCHANGED <<buf, w, e, pos, out, killed, panicked>>

\* A read of 0 bytes, or by a killed process that finds nothing.
consoleread_ends(p) ==
  /\ call[p] = "awake"
  /\ n[p] = 0 \/ (r = w /\ p \in killed)
  /\ Return(p)
  /\ UNCHANGED <<input, pos, out, killed, panicked>>

consoleread_sleeps(p) ==
  /\ call[p] = "awake" /\ n[p] > 0 /\ r = w /\ p \notin killed
  /\ call' = [call EXCEPT ![p] = "asleep"]
  /\ UNCHANGED <<input, pos, out, target, n, killed, panicked>>

consolewrite(p, s) ==
  /\ call[p] = "none" /\ p \notin killed
  /\ out' = s
  /\ UNCHANGED <<input, pos, reads, killed, panicked>>

consoleclear == pos' = 0 /\ UNCHANGED <<input, out, reads, killed, panicked>>

\* kill() by another process makes a sleeper run.
kill(p) ==
  /\ p \notin killed
  /\ killed' = killed \cup {p}
  /\ call' = [call EXCEPT ![p] = IF @ = "asleep" THEN "awake" ELSE @]
  /\ UNCHANGED <<input, pos, out, target, n, panicked>>

\* What is done with cons.lock held, which is free when nothing is left to print.
Locked ==
  \/ \E c \in Chars : typed(c)
  \/ backspace \/ kill_line \/ shift_C \/ consoleclear
  \/ \E p \in Procs :
       \/ \E s \in Outputs : consolewrite(p, s)
       \/ consoleread(p) \/ consoleread_ends(p) \/ consoleread_sleeps(p)

\* A panic freezes every CPU that prints.
Next ==
  /\ ~panicked
  /\ \/ out = << >> /\ Locked
     \/ out # << >> /\ prints
     \/ \E p \in Procs : kill(p) \/ \E size \in Sizes : read(p, size)

Spec == Init /\ [][Next]_vars

-----------------------------------------------------------------------------
\* Whatever is echoed, printed, erased and cleared, the cursor stays above the last
\* row: cgaputc neither panics ("pos under/overflow") nor writes past the screen.
CursorOnScreen == pos \in 0..(COLS * (ROWS - 1) - 1)

\* Nobody waits for input in vain: no reader sleeps while there is something to
\* read, be it what another reader has left, and a ring with no room for another
\* character has something to read, although its line has no end yet.
SleeperHasNothing ==
  /\ \A p \in Procs : call[p] = "asleep" => r = w
  /\ ~HasRoom => r # w

\* An end of file is used up only by a read that returns nothing else: whoever has
\* copied characters leaves ^D to the next read.
EofIsSeen ==
  [][\A p \in Procs :
       (call[p] # "none" /\ r' # r /\ At(Minus(r', 1)) = "^D" /\ n[p] # n'[p])
         => r' = Plus(r, 1) /\ n[p] = target[p]]_vars

\* Through wrapping indices, editing and any number of readers the ring is a line
\* discipline: readers get whole edited lines, in order, each character once.
Ring(from, to) == [k \in 1..Minus(to, from) |-> At(Plus(from, k - 1))]
Line == Ring(w, e)
Ready == Ring(r, w)
Discipline == INSTANCE LineDiscipline WITH line <- Line, ready <- Ready
ImplementsLineDiscipline == Discipline!LDSpec
=============================================================================
