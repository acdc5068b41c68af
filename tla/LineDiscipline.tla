--------------------------- MODULE LineDiscipline ---------------------------
(***************************************************************************)
(* What the console promises its readers: what is typed is edited as one   *)
(* line and becomes readable only as a whole; characters are read in the   *)
(* order they were typed, each once.                                       *)
(***************************************************************************)
EXTENDS Naturals, Sequences

CONSTANTS Chars, EndsLine, INPUT_BUF

VARIABLES
  line,       \* the line being edited
  ready       \* characters of finished lines

LDInit == line = << >> /\ ready = << >>

\* A character goes to the line, which is finished by one that ends it or when
\* the buffer is full.
Typed(c) ==
  /\ Len(ready) + Len(line) < INPUT_BUF
  /\ IF c \in EndsLine \/ Len(ready) + Len(line) + 1 = INPUT_BUF
     THEN line' = << >> /\ ready' = ready \o Append(line, c)
     ELSE line' = Append(line, c) /\ UNCHANGED ready

\* Backspace and kill take back characters of the line only.
Erased == line # << >> /\ line' = SubSeq(line, 1, Len(line) - 1) /\ UNCHANGED ready
LineKilled == line' = << >> /\ UNCHANGED ready

\* A reader takes characters of at most one line.
Taken(k) ==
  /\ \A i \in 1..(k - 1) : ready[i] \notin EndsLine
  /\ ready' = SubSeq(ready, k + 1, Len(ready))
  /\ UNCHANGED line

LDNext ==
  \/ \E c \in Chars : Typed(c)
  \/ Erased \/ LineKilled
  \/ \E k \in 1..Len(ready) : Taken(k)

LDSpec == LDInit /\ [][LDNext]_<<line, ready>>
=============================================================================
