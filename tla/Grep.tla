-------------------------------- MODULE Grep --------------------------------
(***************************************************************************)
(* The matcher of regular expressions of grep.c.  Strings are sequences of *)
(* characters; a string of the code is the rest of one.                    *)
(***************************************************************************)
EXTENDS Naturals, Sequences, SequencesExt

CONSTANTS
  ReChars, MaxRe,         \* characters of patterns, length
  TextChars, MaxText      \* of lines

VARIABLES
  re,       \* pattern
  text      \* line

grepvars == <<re, text>>

GrepInit == re = << >> /\ text = << >>

AddToRe(c) ==
  /\ text = << >> /\ Len(re) < MaxRe
  /\ re' = Append(re, c) /\ UNCHANGED text

AddToText(c) ==
  /\ Len(text) < MaxText
  /\ text' = Append(text, c) /\ UNCHANGED re

GrepNext == (\E c \in ReChars : AddToRe(c)) \/ (\E c \in TextChars : AddToText(c))

-----------------------------------------------------------------------------
Rest(s, k) == SubSeq(s, k + 1, Len(s))

RECURSIVE matchhere(_, _)

\* Faulty variant: * stands for one or more.
Stars_OneOrMore(c, t) ==
  {k \in 1..Len(t) : \A i \in 1..k : c = "." \/ t[i] = c}

\* The numbers of characters that matchstar tries to skip: it goes on while they
\* are instances of c.
Stars(c, t) == {k \in 0..Len(t) : \A i \in 1..k : c = "." \/ t[i] = c}

matchstar(c, r, t) == \E k \in Stars(c, t) : matchhere(r, Rest(t, k))

matchhere(r, t) ==
  IF r = << >> THEN TRUE
  ELSE IF Len(r) > 1 /\ r[2] = "*" THEN matchstar(r[1], Rest(r, 2), t)
  ELSE IF r = <<"$">> THEN t = << >>
  ELSE t # << >> /\ (r[1] = "." \/ r[1] = t[1]) /\ matchhere(Rest(r, 1), Rest(t, 1))

\* "must look at empty string"
Starts(t) == 0..Len(t)

match(r, t) ==
  IF r # << >> /\ r[1] = "^" THEN matchhere(Rest(r, 1), t)
  ELSE \E k \in Starts(t) : matchhere(r, Rest(t, k))

-----------------------------------------------------------------------------
(* A reference for the matcher: the strings that a pattern denotes.        *)

RECURSIVE Denotes(_, _)
Denotes(r, s) ==
  CASE r = << >> -> s = << >>
    [] Len(r) > 1 /\ r[2] = "*" ->
         \E k \in 0..Len(s) :
           (\A i \in 1..k : r[1] \in {".", s[i]}) /\ Denotes(Rest(r, 2), Rest(s, k))
    [] OTHER -> s # << >> /\ r[1] \in {".", s[1]} /\ Denotes(Rest(r, 1), Rest(s, 1))

\* match finds a pattern iff it denotes some part of the text, at the beginning if it
\* starts with ^ and at the end if it ends with $.
MatchIsRight ==
  LET begins == re # << >> /\ re[1] = "^"
      r == IF begins THEN Rest(re, 1) ELSE re
      ends == r # << >> /\ Last(r) = "$"
      body == IF ends THEN Front(r) ELSE r
  IN
  match(re, text) <=>
    \E i \in IF begins THEN {0} ELSE 0..Len(text) :
      \E j \in IF ends THEN {Len(text)} ELSE i..Len(text) :
        Denotes(body, SubSeq(text, i + 1, j))
=============================================================================
