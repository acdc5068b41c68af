-------------------------------- MODULE Pipe --------------------------------
(***************************************************************************)
(* A pipe (pipe.c) shared by processes that each hold one or both ends.    *)
(*                                                                         *)
(* A step is a stretch of code under p->lock: a call up to its return or   *)
(* to the point where it has decided to sleep.  It then still holds the    *)
(* lock while it takes ptable.lock in sleep(); the only thing that can     *)
(* happen meanwhile is a kill(), which does not take p->lock.              *)
(*                                                                         *)
(* nread and nwrite are unsigned and wrap at Word.                         *)
(***************************************************************************)
EXTENDS Naturals, Sequences

CONSTANTS
  Procs,      \* processes that got both ends from pipe() and fork()
  Killable,   \* the ones that somebody kills
  Bytes,
  Strings,    \* what the processes write
  Sizes,      \* how much they ask to read
  PIPESIZE,
  Word        \* the range of an unsigned int

ASSUME PipeAssumption ==
  /\ Killable \subseteq Procs
  /\ Strings \subseteq Seq(Bytes) \ {<< >>}
  /\ Sizes \subseteq Nat
  /\ PIPESIZE \in Nat \ {0} /\ Word \in Nat
  /\ Word > PIPESIZE /\ Word % PIPESIZE = 0

VARIABLES
  data, nread, nwrite,
  readopen, writeopen,
  freed,      \* kfree(p) was called
  rfd, wfd,   \* the processes that hold each end open
  call,       \* per process: "none", "read" or "write"
  run,        \* per process: "ready", "locked" (about to sleep), "asleep"
  left,       \* per process: the bytes still to write
  got,        \* what the last read returned
  killed

vars == <<data, nread, nwrite, readopen, writeopen, freed, rfd, wfd, call, run,
          left, got, killed>>

Init ==
  /\ data \in [0..(PIPESIZE - 1) -> Bytes]
  /\ nread = 0 /\ nwrite = 0
  /\ readopen = TRUE /\ writeopen = TRUE /\ freed = FALSE
  /\ rfd = Procs /\ wfd = Procs
  /\ call = [p \in Procs |-> "none"] /\ run = [p \in Procs |-> "ready"]
  /\ left = [p \in Procs |-> << >>] /\ got = << >>
  /\ killed = {}

-----------------------------------------------------------------------------
\* The lock is free.
Unlocked == \A p \in Procs : run[p] # "locked"

\* Sleepers are on &p->nread in a read and on &p->nwrite in a write; this is
\* wakeup() on the channel of call c.
Woken(c) ==
  [p \in Procs |-> IF run[p] = "asleep" /\ call[p] = c THEN "ready" ELSE run[p]]

Used == (nwrite + Word - nread) % Word

\* "pipewrite-full" when w bytes have been written.
Full(w) == w = (nread + PIPESIZE) % Word

\* The bytes of a write that go in before the pipe is full.
Room(s) ==
  CHOOSE k \in 0..Len(s) :
    /\ k = Len(s) \/ Full((nwrite + k) % Word)
    /\ \A j \in 0..(k - 1) : ~Full((nwrite + j) % Word)

\* data after k bytes of s are put in at nwrite.
Filled(s, k) ==
  [i \in DOMAIN data |->
     IF \E j \in 1..k : (nwrite + j - 1) % PIPESIZE = i
     THEN s[CHOOSE j \in 1..k : /\ (nwrite + j - 1) % PIPESIZE = i
                                /\ \A m \in (j + 1)..k :
                                     (nwrite + m - 1) % PIPESIZE # i]
     ELSE data[i]]

\* pipewrite's two wakeups of the readers.
WriteWakes == Woken("read")

\* A process calls write().
CallWrite(p, s) ==
  /\ call[p] = "none" /\ p \in wfd /\ p \notin killed
  /\ call' = [call EXCEPT ![p] = "write"]
  /\ left' = [left EXCEPT ![p] = s]
  /\ UNCHANGED <<data, nread, nwrite, readopen, writeopen, freed, rfd, wfd, run,
                 got, killed>>

\* pipewrite from acquire, or from its sleep, to the next sleep or its end.
\* The error return wakes nobody.
pipewrite(p) ==
  /\ call[p] = "write" /\ run[p] = "ready" /\ Unlocked
  /\ LET k == Room(left[p])
     IN  /\ data' = Filled(left[p], k)
         /\ nwrite' = (nwrite + k) % Word
         /\ \/ /\ k = Len(left[p])
               /\ run' = WriteWakes
               /\ call' = [call EXCEPT ![p] = "none"]
               /\ left' = [left EXCEPT ![p] = << >>]
            \/ /\ k < Len(left[p])
               /\ ~readopen \/ p \in killed
               /\ call' = [call EXCEPT ![p] = "none"]
               /\ left' = [left EXCEPT ![p] = << >>]
               /\ UNCHANGED run
            \/ /\ k < Len(left[p])
               /\ readopen /\ p \notin killed
               /\ run' = [WriteWakes EXCEPT ![p] = "locked"]
               /\ left' = [left EXCEPT ![p] = SubSeq(@, k + 1, Len(@))]
               /\ UNCHANGED call
  /\ UNCHANGED <<nread, readopen, writeopen, freed, rfd, wfd, got, killed>>

\* A process calls read().
CallRead(p) ==
  /\ call[p] = "none" /\ p \in rfd /\ p \notin killed
  /\ call' = [call EXCEPT ![p] = "read"]
  /\ UNCHANGED <<data, nread, nwrite, readopen, writeopen, freed, rfd, wfd, run,
                 left, got, killed>>

\* Faulty variant: a byte is skipped.
ReadIndex_Skips(j) == (nread + j) % PIPESIZE

\* piperead-wakeup
ReadWakes == Woken("write")

\* Where piperead finds its j-th byte.
ReadIndex(j) == (nread + j - 1) % PIPESIZE

\* piperead of n bytes, from acquire, or from its sleep, to the next sleep or
\* its end.
piperead(p, n) ==
  /\ call[p] = "read" /\ run[p] = "ready" /\ Unlocked
  /\ \/ /\ nread # nwrite \/ ~writeopen
        /\ LET k == IF n < Used THEN n ELSE Used
           IN  /\ got' = [j \in 1..k |-> data[ReadIndex(j)]]
               /\ nread' = (nread + k) % Word
        /\ run' = ReadWakes
        /\ call' = [call EXCEPT ![p] = "none"]
     \/ /\ nread = nwrite /\ writeopen
        /\ IF p \in killed
           THEN call' = [call EXCEPT ![p] = "none"] /\ UNCHANGED run
           ELSE run' = [run EXCEPT ![p] = "locked"] /\ UNCHANGED call
        /\ UNCHANGED <<nread, got>>
  /\ UNCHANGED <<data, nwrite, readopen, writeopen, freed, rfd, wfd, left,
                 killed>>

\* sleep(): the lock is released once ptable.lock is held.
Sleep(p) ==
  /\ run[p] = "locked"
  /\ run' = [run EXCEPT ![p] = "asleep"]
  /\ UNCHANGED <<data, nread, nwrite, readopen, writeopen, freed, rfd, wfd,
                 call, left, got, killed>>

\* kill(): p is woken if it is asleep.
Kill(p) ==
  /\ killed' = killed \cup {p}
  /\ run' = [run EXCEPT ![p] = IF @ = "asleep" THEN "ready" ELSE @]
  /\ UNCHANGED <<data, nread, nwrite, readopen, writeopen, freed, rfd, wfd,
                 call, left, got>>

\* Faulty variants: the writer's end wakes nobody, or either end frees the pipe.
CloseWakes_Not(c) == run
LastEnd_Either == ~readopen' \/ ~writeopen'

\* pipeclose's wakeup of the sleepers in call c.
CloseWakes(c) == Woken(c)

LastEnd == ~readopen' /\ ~writeopen'

\* fileclose of one end by a process that is in no call; the last one calls
\* pipeclose.
CloseWrite(p) ==
  /\ call[p] = "none" /\ p \in wfd
  /\ wfd' = wfd \ {p}
  /\ wfd = {p} => Unlocked
  /\ writeopen' = (wfd # {p})
  /\ run' = IF wfd = {p} THEN CloseWakes("read") ELSE run
  /\ UNCHANGED readopen
  /\ freed' = (freed \/ LastEnd)
  /\ UNCHANGED <<data, nread, nwrite, rfd, call, left, got, killed>>

CloseRead(p) ==
  /\ call[p] = "none" /\ p \in rfd
  /\ rfd' = rfd \ {p}
  /\ rfd = {p} => Unlocked
  /\ readopen' = (rfd # {p})
  /\ run' = IF rfd = {p} THEN CloseWakes("write") ELSE run
  /\ UNCHANGED writeopen
  /\ freed' = (freed \/ LastEnd)
  /\ UNCHANGED <<data, nread, nwrite, wfd, call, left, got, killed>>

-----------------------------------------------------------------------------
Next ==
  \/ \E p \in Procs :
       \/ \E s \in Strings : CallWrite(p, s)
       \/ \E n \in Sizes : piperead(p, n)
       \/ CallRead(p) \/ pipewrite(p) \/ Sleep(p)
       \/ CloseWrite(p) \/ CloseRead(p)
  \/ \E p \in Killable : Kill(p)

Spec == Init /\ [][Next]_vars

BS == INSTANCE ByteStream
        WITH Capacity <- PIPESIZE,
             queue <- [j \in 1..Used |-> data[(nread + j - 1) % PIPESIZE]],
             ropen <- readopen, wopen <- writeopen

\* The ring of pipewrite and piperead is a byte stream: order, completeness,
\* end of file and failed writes, across the wrap of both counters.
ImplementsByteStream == BS!Spec

\* pipeclose frees the pipe only when nobody is, or can still get, inside
\* pipewrite or piperead.
NoUseAfterFree ==
  freed => rfd \cup wfd = {} /\ \A p \in Procs : call[p] = "none"

-----------------------------------------------------------------------------
(* A process that has the CPU and the lock goes on; nobody is made to call. *)
Fairness ==
  \A p \in Procs :
    /\ WF_vars(Sleep(p))
    /\ SF_vars(pipewrite(p))
    /\ SF_vars(\E n \in Sizes : piperead(p, n))

FairSpec == Spec /\ Fairness

\* Calls that can go on do.  A read with bytes to return, or with no writer left,
\* returns, unless other readers keep emptying the pipe.  The exception is a reader
\* asleep when another process has been killed: a killed writer that has filled the
\* pipe returns -1 without waking anybody (pipe.c:88), and the reader sleeps on until
\* it is killed itself or the last writer closes.  A write that has room, or no reader
\* left, returns or fills the pipe.
CallsReturn ==
  \A p \in Procs :
    /\ call[p] = "read" /\ (Used > 0 \/ ~writeopen)
         ~> \/ call[p] = "none"
            \/ Used = 0 /\ writeopen
            \/ run[p] = "asleep" /\ killed \ {p} # {} /\ writeopen
    /\ call[p] = "write" /\ (Used < PIPESIZE \/ ~readopen)
         ~> call[p] = "none" \/ (Used = PIPESIZE /\ readopen)

=============================================================================
