------------------------------- MODULE Shell -------------------------------
(***************************************************************************)
(* sh.c as operators: the parser, from a line to a command tree, and       *)
(* runcmd, from a tree to the processes it starts with the file            *)
(* descriptors they have.                                                  *)
(*                                                                         *)
(* A line is a sequence of one-character strings and NUL stands behind its *)
(* end.  A word is a pair of places, argv[i] and eargv[i], as in the code. *)
(* Parsing ends in a command; panic, which ends the process, is Panic.     *)
(***************************************************************************)
EXTENDS Naturals, Sequences, SequencesExt, FiniteSetsExt

CONSTANTS
  MAXARGS,
  Keys,         \* characters that are typed
  MaxLine,      \* sizeof(buf) - 1
  Trees         \* commands to write down and read back

VARIABLES
  line,         \* what gets() has read
  meant         \* the command that was written down in it, if one was

shellvars == <<line, meant>>

NUL == "0"
whitespace == {" "}
symbols == {"<", "|", ">", "&", ";", "(", ")"}

At(L, s) == IF s \in DOMAIN L THEN L[s] ELSE NUL

\* The first place from s on whose character is not in C.
Skip(L, s, C) == Min({i \in s..(Len(L) + 1) : At(L, i) \notin C})

SkipSpace(L, s) == Skip(L, s, whitespace)

\* Faulty variant: a word ends at white space only.
WordEnd_AtSpace(L, q) == Skip(L, q, ({At(L, i) : i \in DOMAIN L} \ whitespace))

WordEnd(L, q) == Skip(L, q, ({At(L, i) : i \in DOMAIN L} \ whitespace) \ symbols)

\* The token at s: its kind, its ends and where the next one starts.
gettoken(L, s) ==
  LET q == SkipSpace(L, s)
      twice == At(L, q) = ">" /\ At(L, q + 1) = ">"
      eq == CASE At(L, q) = NUL -> q
              [] twice -> q + 2
              [] ~twice /\ At(L, q) \in symbols -> q + 1
              [] OTHER -> WordEnd(L, q)
      tok == CASE twice -> "+"
               [] ~twice /\ At(L, q) \in symbols \cup {NUL} -> At(L, q)
               [] OTHER -> "a"
  IN  [tok |-> tok, q |-> q, eq |-> eq, s |-> SkipSpace(L, eq)]

\* The tokens of the line from s on, the last one NUL.
RECURSIVE Tokens(_, _)
Tokens(L, s) ==
  LET t == gettoken(L, s) IN IF t.tok = NUL THEN <<t>> ELSE <<t>> \o Tokens(L, t.s)

-----------------------------------------------------------------------------
(* The parser.  T is the tokens of the line, s the one it has come to:     *)
(* peek looks at T[s], gettoken moves on to s + 1.                         *)

Panic == [type |-> "PANIC"]
execcmd(argv) == [type |-> "EXEC", argv |-> argv]
redircmd(cmd, file, fd) == [type |-> "REDIR", cmd |-> cmd, file |-> file, fd |-> fd]
pipecmd(left, right) == [type |-> "PIPE", left |-> left, right |-> right]
listcmd(left, right) == [type |-> "LIST", left |-> left, right |-> right]
backcmd(cmd) == [type |-> "BACK", cmd |-> cmd]

peek(T, s, toks) == T[s].tok \in toks
Word(t) == <<t.q, t.eq>>

\* A parsing operator returns what it has parsed and the token it has come to.
Parsed(s, cmd) == [s |-> s, cmd |-> cmd]
Failed == Parsed(1, Panic)

RECURSIVE parseredirs(_, _, _)
parseredirs(T, s, cmd) ==
  IF ~peek(T, s, {"<", ">", "+"}) THEN Parsed(s, cmd)
  ELSE IF T[s + 1].tok # "a" THEN Failed
  ELSE parseredirs(T, s + 2, redircmd(cmd, Word(T[s + 1]), IF T[s].tok = "<" THEN 0 ELSE 1))

\* The command that cmd redirects gets the arguments argv.
RECURSIVE WithArgs(_, _)
WithArgs(cmd, argv) ==
  IF cmd.type = "REDIR" THEN [cmd EXCEPT !.cmd = WithArgs(@, argv)] ELSE execcmd(argv)

\* "too many args": argv[MAXARGS] would be out of bounds for the final 0.
TooMany(argv) == Len(argv) >= MAXARGS

\* The loop of parseexec; r is the command with the redirections so far.
RECURSIVE parseargs(_, _, _)
parseargs(T, r, argv) ==
  IF r.cmd = Panic THEN r
  ELSE IF peek(T, r.s, {"|", ")", "&", ";", NUL}) THEN Parsed(r.s, WithArgs(r.cmd, argv))
  ELSE IF T[r.s].tok # "a" \/ TooMany(Append(argv, Word(T[r.s]))) THEN Failed
  ELSE parseargs(T, parseredirs(T, r.s + 1, r.cmd), Append(argv, Word(T[r.s])))

\* Faulty variant: a pipe groups to the left.
JoinPipes_Left(left, right) ==
  IF right.type = "PIPE" THEN pipecmd(pipecmd(left, right.left), right.right)
  ELSE pipecmd(left, right)

JoinPipes(left, right) == pipecmd(left, right)

\* The loop of parseline over &.
RECURSIVE parsebacks(_, _)
parsebacks(T, r) ==
  IF r.cmd # Panic /\ peek(T, r.s, {"&"}) THEN parsebacks(T, Parsed(r.s + 1, backcmd(r.cmd)))
  ELSE r

\* "(", a line and ")", with the redirections after them.
parseblock(T, r) ==
  IF r.cmd = Panic \/ ~peek(T, r.s, {")"}) THEN Failed
  ELSE parseredirs(T, r.s + 1, r.cmd)

\* What follows the operator op, and the command built from both sides.
Joined(T, left, op, right) ==
  IF left.cmd = Panic \/ ~peek(T, left.s, {op}) THEN left
  ELSE IF right.cmd = Panic THEN Failed
  ELSE Parsed(right.s, IF op = "|" THEN JoinPipes(left.cmd, right.cmd)
                       ELSE listcmd(left.cmd, right.cmd))

RECURSIVE parseline(_, _), parsepipe(_, _)

parseexec(T, s) ==
  IF peek(T, s, {"("}) THEN parseblock(T, parseline(T, s + 1))
  ELSE parseargs(T, parseredirs(T, s, execcmd(<< >>)), << >>)

parsepipe(T, s) ==
  LET left == parseexec(T, s)
  IN  Joined(T, left, "|", parsepipe(T, left.s + 1))

parseline(T, s) ==
  LET first == parsebacks(T, parsepipe(T, s))
  IN  Joined(T, first, ";", parseline(T, first.s + 1))

Leftovers(T, s) == s # Len(T)

\* The words of a command.
RECURSIVE Words(_)
Words(cmd) ==
  CASE cmd.type = "EXEC" -> ToSet(cmd.argv)
    [] cmd.type = "REDIR" -> Words(cmd.cmd) \cup {cmd.file}
    [] cmd.type \in {"PIPE", "LIST"} -> Words(cmd.left) \cup Words(cmd.right)
    [] cmd.type = "BACK" -> Words(cmd.cmd)
    [] OTHER -> {}

\* Where nulterminate writes NUL.
Ends(cmd) == {wd[2] : wd \in Words(cmd)}

nulterminate(L, cmd) == [i \in DOMAIN L |-> IF i \in Ends(cmd) THEN NUL ELSE L[i]]

\* The command, and the line its words are in.
parsecmd(L) ==
  LET T == Tokens(L, 1)
      all == parseline(T, 1)
      cmd == IF all.cmd = Panic \/ Leftovers(T, all.s) THEN Panic ELSE all.cmd
  IN  [cmd |-> cmd, line |-> nulterminate(L, cmd)]

-----------------------------------------------------------------------------
(* runcmd.  A process is the words it was started with, or "wait" for a    *)
(* shell that waits, and its open descriptors; a pipe is named after the   *)
(* place of its command in the tree.                                       *)

Close(F, fd) == [k \in DOMAIN F \ {fd} |-> F[k]]
LowestFree(F) == Min(0..Cardinality(DOMAIN F) \ DOMAIN F)

\* open, pipe and dup give the lowest free descriptor.
OpenFd(F, file) ==
  [k \in DOMAIN F \cup {LowestFree(F)} |-> IF k \in DOMAIN F THEN F[k] ELSE file]

RECURSIVE Shut(_, _)
Shut(F, fds) == IF fds = << >> THEN F ELSE Shut(Close(F, Head(fds)), Tail(fds))

\* The descriptors of a child whose descriptor fd becomes an end of the pipe p.
ChildFds(F, fd, end, p) == Shut(OpenFd(Close(F, fd), F[end]), p)

\* Faulty variant: the shell keeps both ends.
ParentFds_KeepsEnds(F, p) == F

\* Those of the shell after both forks.
ParentFds(F, p) == Shut(F, p)

RECURSIVE runcmd(_, _, _)

\* The processes that cmd becomes when it runs with the descriptors F, if its calls
\* succeed; a shell that panics or cannot open a file only exits.
runcmd(cmd, F, at) ==
  CASE cmd.type = "EXEC" ->
         IF cmd.argv = << >> THEN {} ELSE {[runs |-> cmd.argv, fds |-> F, at |-> at]}
    [] cmd.type = "REDIR" ->
         runcmd(cmd.cmd, OpenFd(Close(F, cmd.fd), <<"file", cmd.file>>), at)
    [] cmd.type = "LIST" ->
         runcmd(cmd.left, F, Append(at, "l")) \cup runcmd(cmd.right, F, Append(at, "r"))
           \cup {[runs |-> "wait", fds |-> F, at |-> at]}
    [] cmd.type = "PIPE" ->
         LET one == OpenFd(F, <<"read", at>>)
             both == OpenFd(one, <<"write", at>>)
             p == <<LowestFree(F), LowestFree(one)>>
         IN  runcmd(cmd.left, ChildFds(both, 1, p[2], p), Append(at, "l"))
               \cup runcmd(cmd.right, ChildFds(both, 0, p[1], p), Append(at, "r"))
               \cup {[runs |-> "wait", fds |-> ParentFds(both, p), at |-> at]}
    [] cmd.type = "BACK" -> runcmd(cmd.cmd, F, Append(at, "b"))
    [] OTHER -> {}

\* The three descriptors main makes sure of.
Standard == [fd \in 0..2 |-> <<"console">>]

-----------------------------------------------------------------------------
(* A reference for the parser: how a command is written.                   *)

\* The string that starts at q, as C reads it.
StringAt(L, q) == SubSeq(L, q, Skip(L, q, ToSet(L) \ {NUL}) - 1)

Paren(s) == <<"(">> \o s \o <<")">>

RECURSIVE Text(_)
Primary(cmd) == IF cmd.type \in {"EXEC", "REDIR"} THEN Text(cmd) ELSE Paren(Text(cmd))
Text(cmd) ==
  CASE cmd.type = "EXEC" -> FlattenSeq([i \in DOMAIN cmd.argv |-> <<cmd.argv[i], " ">>])
    [] cmd.type = "REDIR" ->
         Primary(cmd.cmd) \o <<IF cmd.fd = 0 THEN "<" ELSE ">", cmd.file, " ">>
    [] cmd.type = "PIPE" ->
         Primary(cmd.left) \o <<"|">>
           \o IF cmd.right.type = "PIPE" THEN Text(cmd.right) ELSE Primary(cmd.right)
    [] cmd.type = "BACK" ->
         (IF cmd.cmd.type = "LIST" THEN Paren(Text(cmd.cmd)) ELSE Text(cmd.cmd)) \o <<"&">>
    [] cmd.type = "LIST" ->
         (IF cmd.left.type = "LIST" THEN Paren(Text(cmd.left)) ELSE Text(cmd.left))
           \o <<";">> \o Text(cmd.right)

\* A command with its words as they stand in the line L.
RECURSIVE Spelt(_, _)
Spelt(cmd, L) ==
  CASE cmd.type = "EXEC" ->
         execcmd([i \in DOMAIN cmd.argv |-> StringAt(L, cmd.argv[i][1])[1]])
    [] cmd.type = "REDIR" ->
         redircmd(Spelt(cmd.cmd, L), StringAt(L, cmd.file[1])[1], cmd.fd)
    [] cmd.type = "PIPE" -> pipecmd(Spelt(cmd.left, L), Spelt(cmd.right, L))
    [] cmd.type = "LIST" -> listcmd(Spelt(cmd.left, L), Spelt(cmd.right, L))
    [] cmd.type = "BACK" -> backcmd(Spelt(cmd.cmd, L))
    [] OTHER -> cmd

-----------------------------------------------------------------------------
NoCommand == [type |-> "none"]

ShellInit == line = << >> /\ meant = NoCommand

\* gets() reads another character of the line.
gets(c) ==
  /\ meant = NoCommand /\ Len(line) < MaxLine
  /\ line' = Append(line, c) /\ UNCHANGED meant

\* Someone types a whole command.
types(cmd) == line = << >> /\ line' = Text(cmd) /\ meant' = cmd

ShellNext == (\E c \in Keys : gets(c)) \/ (\E cmd \in Trees : types(cmd))

-----------------------------------------------------------------------------
\* The words of a line: its longest runs of other characters.
WordsOf(L) ==
  LET InWord(i) == i \in DOMAIN L /\ L[i] \notin whitespace \cup symbols IN
  {<<i, j>> \in (1..Len(L)) \X (2..(Len(L) + 1)) :
     i < j /\ ~InWord(i - 1) /\ ~InWord(j) /\ \A k \in i..(j - 1) : InWord(k)}

\* The argument lists of a command.
RECURSIVE Argvs(_)
Argvs(cmd) ==
  CASE cmd.type = "EXEC" -> {cmd.argv}
    [] cmd.type \in {"REDIR", "BACK"} -> Argvs(cmd.cmd)
    [] cmd.type \in {"PIPE", "LIST"} -> Argvs(cmd.left) \cup Argvs(cmd.right)

\* Whatever is typed, the parser panics or makes a command of exactly the words of
\* the line, none lost and none made up, with no argv overflowing; and the NULs that
\* nulterminate writes over the line cut none of them short and let none run on.
WordsKept ==
  LET r == parsecmd(line) IN
  r.cmd # Panic =>
    /\ Words(r.cmd) = WordsOf(line)
    /\ \A argv \in Argvs(r.cmd) : Len(argv) < MAXARGS
    /\ \A wd \in Words(r.cmd) : StringAt(r.line, wd[1]) = SubSeq(line, wd[1], wd[2] - 1)

\* Some process holds the end "read" or "write" of the pipe at.
Holds(proc, end, at) == \E fd \in DOMAIN proc.fds : proc.fds[fd] = <<end, at>>

\* Whatever is typed, no process that a command starts keeps a descriptor beyond the
\* standard three, and none that can read a pipe holds its other end: when the
\* writers are done every reader sees the end of its input.
PipesEnd ==
  LET procs == runcmd(parsecmd(line).cmd, Standard, << >>) IN
  \A p \in procs :
    /\ DOMAIN p.fds \subseteq 0..2
    /\ \A fd \in DOMAIN p.fds :
         p.fds[fd][1] = "read" => ~Holds(p, "write", p.fds[fd][2])

\* Every command written down is parsed back into the same tree: | binds tighter
\* than &, & than ;, | and ; group to the right, and parentheses override.
ReadsBack ==
  meant # NoCommand =>
    LET r == parsecmd(line) IN Spelt(r.cmd, r.line) = meant
=============================================================================
