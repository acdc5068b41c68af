----------------------------- MODULE IpcProofs ------------------------------
(***************************************************************************)
(* Proofs about what processes exchange data with, the message queue and   *)
(* the pipe, each for rings of every size.                                 *)
(*                                                                         *)
(* The ring of MsgQueue implements the bounded channel MsgChannel, for     *)
(* every message size and set of types and bodies.  The argument rests on  *)
(* one fact the code does not state: recv removes a message by shifting its*)
(* successors down, never by advancing head.  So head stays 0, tail is     *)
(* count modulo the ring's size, and the i-th queued message is in slot i -*)
(* 1.  A stored body is already truncated, so the second safestrcpy, in    *)
(* recv, does not shorten it again.                                        *)
(*                                                                         *)
(* The pipe is not used after it is freed, and it implements ByteStream,   *)
(* for any number of processes and range of its counters.  nread and nwrite*)
(* are never reduced to the ring, they wrap at Word; that the ring is a    *)
(* queue rests on Word being a multiple of PIPESIZE.                       *)
(***************************************************************************)
EXTENDS MsgQueue, Pipe, Integers, TLAPS

-----------------------------------------------------------------------------
(* The pipe: its inductive invariant.                                      *)

\* The bytes in the ring, oldest first.
Queue == [j \in 1..Used |-> data[(nread + j - 1) % PIPESIZE]]

\* The counters are at most a ring apart.
RingOK ==
  /\ data \in [0..(PIPESIZE - 1) -> Bytes]
  /\ nread \in 0..(Word - 1) /\ nwrite \in 0..(Word - 1)
  /\ Used <= PIPESIZE

TypeOK ==
  /\ readopen \in BOOLEAN /\ writeopen \in BOOLEAN /\ freed \in BOOLEAN
  /\ rfd \subseteq Procs /\ wfd \subseteq Procs
  /\ call \in [Procs -> {"none", "read", "write"}]
  /\ run \in [Procs -> {"ready", "locked", "asleep"}]
  /\ left \in [Procs -> Seq(Bytes)]

\* An end that a process holds is open, the pipe is freed only with both ends closed,
\* and a process in a call holds the end that it uses.
EndsOK ==
  /\ rfd # {} => readopen
  /\ wfd # {} => writeopen
  /\ freed => ~readopen /\ ~writeopen
  /\ \A p \in Procs : /\ call[p] = "read" => p \in rfd
                      /\ call[p] = "write" => p \in wfd
                      /\ call[p] = "write" <=> left[p] # << >>

IInv == RingOK /\ TypeOK /\ EndsOK

-----------------------------------------------------------------------------
(* Counters and indices.                                                   *)

\* Sequences with the same elements are the same.
LEMMA SameSeq ==
  ASSUME NEW s \in Seq(Bytes), NEW t \in Seq(Bytes), Len(s) = Len(t),
         \A j \in 1..Len(t) : s[j] = t[j]
  PROVE  s = t
OBVIOUS

\* Division with remainder.
LEMMA Division ==
  ASSUME NEW n \in Nat \ {0}, NEW a \in Nat
  PROVE  /\ a % n \in 0..(n - 1) /\ a \div n \in Nat
         /\ a = n * (a \div n) + (a % n)
<1>1. a % n \in 0..(n - 1)
  OBVIOUS
<1>2. a \div n \in Nat
  OBVIOUS
<1>3. a = n * (a \div n) + (a % n)
  OBVIOUS
<1>4. QED
  BY <1>1, <1>2, <1>3

\* A multiple of n below n is zero.
LEMMA SmallMultiple ==
  ASSUME NEW n \in Nat \ {0}, NEW k \in Int, n * k < n, n * k > 0 - n
  PROVE  k = 0
<1>1. CASE k >= 1
  <2>1. n * k >= n
    BY <1>1
  <2>2. QED
    BY <2>1
<1>2. CASE k <= 0 - 1
  <2>1. n * k <= 0 - n
    BY <1>2
  <2>2. QED
    BY <2>1
<1>3. QED
  BY <1>1, <1>2

\* Numbers that differ by a multiple of n have the same remainder.
LEMMA ModUnique ==
  ASSUME NEW n \in Nat \ {0}, NEW a \in Nat, NEW q \in Int, NEW r \in 0..(n - 1),
         a = n * q + r
  PROVE  a % n = r
<1>1. a = n * (a \div n) + (a % n) /\ a % n \in 0..(n - 1) /\ a \div n \in Nat
  BY Division, ZenonT(40)
<1>2. PICK d \in Nat, e \in 0..(n - 1) : d = a \div n /\ e = a % n /\ a = n * d + e
  BY <1>1
<1>3. n * (q - d) = n * q - n * d
  OBVIOUS
<1>4. n * (q - d) = e - r
  <2> DEFINE x == n * q
             y == n * d
             z == n * (q - d)
  <2>1. x \in Int /\ y \in Int /\ z = x - y /\ a = x + r /\ a = y + e
    BY <1>2, <1>3
  <2> HIDE DEF x, y, z
  <2>2. z = e - r
    BY <2>1
  <2>3. QED
    BY <2>2 DEF z
<1>5. q - d = 0
  BY <1>4, SmallMultiple
<1>6. QED
  BY <1>2, <1>4, <1>5

\* A counter below twice the range comes back once.
LEMMA WordMod ==
  ASSUME NEW a \in 0..(2 * Word - 1)
  PROVE  a % Word = IF a < Word THEN a ELSE a - Word
<1>1. Word \in Nat \ {0}
  BY PipeAssumption
<1>2. CASE a < Word
  <2>1. a = Word * 0 + a /\ a \in 0..(Word - 1) /\ a \in Nat
    BY <1>1, <1>2
  <2>2. QED
    BY <1>1, <1>2, <2>1, ModUnique
<1>3. CASE ~(a < Word)
  <2>1. a = Word * 1 + (a - Word) /\ a - Word \in 0..(Word - 1) /\ a \in Nat
    BY <1>1, <1>3
  <2>2. QED
    BY <1>1, <1>3, <2>1, ModUnique
<1>4. QED
  BY <1>2, <1>3

\* The wrap of a counter does not move its place in the ring.
LEMMA RingWrap ==
  ASSUME NEW a \in Nat, a >= Word
  PROVE  (a - Word) % PIPESIZE = a % PIPESIZE
<1>1. PIPESIZE \in Nat \ {0} /\ Word \in Nat
  BY PipeAssumption
<1>2. PICK m \in Nat : Word = PIPESIZE * m
  <2>1. /\ Word \div PIPESIZE \in Nat
        /\ Word = PIPESIZE * (Word \div PIPESIZE) + (Word % PIPESIZE)
    BY <1>1, Division
  <2>2. Word % PIPESIZE = 0
    BY PipeAssumption
  <2> DEFINE m == Word \div PIPESIZE
  <2>3. m \in Nat /\ Word = PIPESIZE * m + 0
    BY <2>1, <2>2
  <2> HIDE DEF m
  <2>4. Word = PIPESIZE * m
    BY <1>1, <2>3
  <2>5. QED
    BY <2>3, <2>4
<1>3. PICK q \in Nat, r \in 0..(PIPESIZE - 1) : a = PIPESIZE * q + r /\ r = a % PIPESIZE
  BY <1>1, Division, ZenonT(40)
<1>4. a - Word = PIPESIZE * (q - m) + r
  <2>1. PIPESIZE * (q - m) = PIPESIZE * q - PIPESIZE * m
    BY <1>1
  <2>2. QED
    BY <1>2, <1>3, <2>1, <1>1
<1>5. a - Word \in Nat
  BY <1>1
<1>6. PICK c \in Nat, k \in Int : c = a - Word /\ k = q - m
  BY <1>5
<1>7. c = PIPESIZE * k + r
  BY <1>4, <1>6
<1>8. c % PIPESIZE = r
  BY <1>1, <1>7, ModUnique
<1>9. QED
  BY <1>3, <1>6, <1>8, ZenonT(40)

\* Places less than the ring's size apart are different.
LEMMA RingApart ==
  ASSUME NEW a \in Nat, NEW b \in Nat, a < b, b - a < PIPESIZE
  PROVE  a % PIPESIZE # b % PIPESIZE
<1>1. PIPESIZE \in Nat \ {0}
  BY PipeAssumption
<1>2. PICK d \in Nat, e \in Nat : /\ a = PIPESIZE * d + (a % PIPESIZE)
                                  /\ b = PIPESIZE * e + (b % PIPESIZE)
                                  /\ a % PIPESIZE \in Nat /\ b % PIPESIZE \in Nat
  <2>1. /\ a \div PIPESIZE \in Nat /\ a % PIPESIZE \in Nat
        /\ a = PIPESIZE * (a \div PIPESIZE) + (a % PIPESIZE)
    BY <1>1, Division
  <2>2. /\ b \div PIPESIZE \in Nat /\ b % PIPESIZE \in Nat
        /\ b = PIPESIZE * (b \div PIPESIZE) + (b % PIPESIZE)
    BY <1>1, Division
  <2>3. QED
    BY <2>1, <2>2, ZenonT(40)
<1>3. SUFFICES ASSUME a % PIPESIZE = b % PIPESIZE PROVE FALSE
  OBVIOUS
<1>4. PIPESIZE * (e - d) = PIPESIZE * e - PIPESIZE * d
  BY <1>1
<1>5. PIPESIZE * (e - d) = b - a
  BY <1>1, <1>2, <1>3, <1>4
<1>6. e - d = 0
  BY <1>1, <1>5, SmallMultiple
<1>7. QED
  BY <1>1, <1>5, <1>6

\* What Used computes with wrapping counters.
LEMMA UsedIs ==
  ASSUME NEW r \in 0..(Word - 1), NEW w \in 0..(Word - 1)
  PROVE  (w + Word - r) % Word = IF r <= w THEN w - r ELSE w + Word - r
<1>1. Word \in Nat /\ w + Word - r \in 0..(2 * Word - 1)
  BY PipeAssumption
<1>2. QED
  BY <1>1, WordMod

-----------------------------------------------------------------------------
(* The ring as a queue.                                                    *)

\* The queue's bytes are those from nread on.
LEMMA QueueIs ==
  RingOK => /\ Used \in 0..PIPESIZE
            /\ Queue \in Seq(Bytes) /\ Len(Queue) = Used
            /\ \A j \in 1..Used : Queue[j] = data[(nread + j - 1) % PIPESIZE]
<1> SUFFICES ASSUME RingOK
             PROVE  /\ Used \in 0..PIPESIZE
                    /\ Queue \in Seq(Bytes) /\ Len(Queue) = Used
                    /\ \A j \in 1..Used : Queue[j] = data[(nread + j - 1) % PIPESIZE]
  OBVIOUS
<1>1. PIPESIZE \in Nat \ {0} /\ Word \in Nat
  BY PipeAssumption
<1>2. nread \in 0..(Word - 1) /\ nwrite \in 0..(Word - 1) /\ Used <= PIPESIZE
      /\ data \in [0..(PIPESIZE - 1) -> Bytes]
  BY DEF RingOK
<1>3. Used = IF nread <= nwrite THEN nwrite - nread ELSE nwrite + Word - nread
  BY <1>2, UsedIs DEF Used
<1>4. Used \in 0..PIPESIZE
  BY <1>1, <1>2, <1>3
<1> HIDE DEF Used
<1>5. \A j \in 1..Used : data[(nread + j - 1) % PIPESIZE] \in Bytes
  <2> SUFFICES ASSUME NEW j \in 1..Used
               PROVE  data[(nread + j - 1) % PIPESIZE] \in Bytes
    OBVIOUS
  <2>1. nread + j - 1 \in Nat
    BY <1>1, <1>2, <1>4
  <2>2. (nread + j - 1) % PIPESIZE \in 0..(PIPESIZE - 1)
    BY <1>1, <2>1, Division
  <2>3. QED
    BY <1>2, <2>2
<1>6. QED
  BY <1>4, <1>5 DEF Queue

\* How many bytes are used, without remainders, and where the next one goes.
LEMMA Counters ==
  ASSUME RingOK
  PROVE  /\ Used \in 0..PIPESIZE
         /\ nwrite = IF nread + Used < Word THEN nread + Used ELSE nread + Used - Word
         /\ PIPESIZE \in Nat \ {0} /\ Word \in Nat /\ PIPESIZE < Word
         /\ nread \in 0..(Word - 1) /\ nwrite \in 0..(Word - 1)
<1>1. PIPESIZE \in Nat \ {0} /\ Word \in Nat /\ PIPESIZE < Word
  BY PipeAssumption
<1>2. nread \in 0..(Word - 1) /\ nwrite \in 0..(Word - 1)
  BY DEF RingOK
<1>3. Used = IF nread <= nwrite THEN nwrite - nread ELSE nwrite + Word - nread
  BY <1>2, UsedIs DEF Used
<1>4. Used \in 0..PIPESIZE
  BY QueueIs
<1> HIDE DEF Used
<1>5. QED
  BY <1>1, <1>2, <1>3, <1>4

\* pipewrite puts in as much as fits.
LEMMA RoomIs ==
  ASSUME RingOK, NEW s \in Seq(Bytes)
  PROVE  /\ Room(s) \in 0..Len(s) /\ Used + Room(s) <= PIPESIZE
         /\ Room(s) < Len(s) => Used + Room(s) = PIPESIZE
\* "pipewrite-full" holds exactly when PIPESIZE bytes are in the ring.
<1>FullIs. ASSUME NEW k \in Nat, Used + k <= PIPESIZE
           PROVE  Full((nwrite + k) % Word) <=> Used + k = PIPESIZE
  <2> USE <1>FullIs
  <2>1. /\ Used \in 0..PIPESIZE
        /\ nwrite = IF nread + Used < Word THEN nread + Used ELSE nread + Used - Word
        /\ PIPESIZE \in Nat \ {0} /\ Word \in Nat /\ PIPESIZE < Word
        /\ nread \in 0..(Word - 1) /\ nwrite \in 0..(Word - 1)
    BY Counters
  <2> HIDE DEF Used
  <2>2. nwrite + k \in 0..(2 * Word - 1) /\ nread + PIPESIZE \in 0..(2 * Word - 1)
    BY <2>1
  <2>3. /\ (nwrite + k) % Word = IF nwrite + k < Word THEN nwrite + k ELSE nwrite + k - Word
        /\ (nread + PIPESIZE) % Word = IF nread + PIPESIZE < Word THEN nread + PIPESIZE
                                                                  ELSE nread + PIPESIZE - Word
    <3>1. PICK a \in 0..(2 * Word - 1), b \in 0..(2 * Word - 1) :
            a = nwrite + k /\ b = nread + PIPESIZE
      BY <2>2
    <3>2. /\ a % Word = IF a < Word THEN a ELSE a - Word
          /\ b % Word = IF b < Word THEN b ELSE b - Word
      BY WordMod
    <3>3. QED
      BY <2>1, <3>1, <3>2
  <2>4. QED
    BY <2>1, <2>3 DEF Full
<1>1. Used \in 0..PIPESIZE /\ PIPESIZE \in Nat /\ Len(s) \in Nat
  BY Counters
<1>2. \A k \in Nat : Used + k <= PIPESIZE =>
                       (Full((nwrite + k) % Word) <=> Used + k = PIPESIZE)
  BY <1>FullIs
<1> DEFINE F(k) == Full((nwrite + k) % Word)
           Fits(k) == (k = Len(s) \/ F(k)) /\ \A j \in 0..(k - 1) : ~F(j)
           m == IF Len(s) <= PIPESIZE - Used THEN Len(s) ELSE PIPESIZE - Used
<1> HIDE DEF Used, F
<1>3. \A k \in Nat : Used + k <= PIPESIZE => (F(k) <=> Used + k = PIPESIZE)
  BY <1>2 DEF F
<1>4. m \in 0..Len(s) /\ Used + m <= PIPESIZE /\ (m < Len(s) => Used + m = PIPESIZE)
  BY <1>1
<1>5. Fits(m)
  <2>1. m = Len(s) \/ F(m)
    BY <1>1, <1>3, <1>4
  <2>2. \A j \in 0..(m - 1) : ~F(j)
    BY <1>1, <1>3, <1>4
  <2>3. QED
    BY <2>1, <2>2
<1>6. \A k \in 0..Len(s) : Fits(k) => k = m
  <2> SUFFICES ASSUME NEW k \in 0..Len(s), Fits(k) PROVE k = m
    OBVIOUS
  <2> HIDE DEF m
  <2>1. CASE k > m
    <3>1. m \in 0..(k - 1) /\ m < Len(s)
      BY <1>1, <1>4, <2>1
    <3>2. F(m)
      BY <1>1, <1>3, <1>4, <3>1
    <3>3. QED
      BY <3>1, <3>2
  <2>2. CASE k < m
    <3>1. F(k) /\ k \in Nat /\ Used + k <= PIPESIZE /\ Used + k # PIPESIZE
      BY <1>1, <1>4, <2>2
    <3>2. QED
      BY <1>3, <3>1
  <2>3. QED
    BY <1>1, <1>4, <2>1, <2>2
<1>7. Room(s) = CHOOSE k \in 0..Len(s) : Fits(k)
  BY DEF Room, F
<1> HIDE DEF m, Fits
<1>8. Room(s) = m
  BY <1>4, <1>5, <1>6, <1>7
<1>9. QED
  BY <1>4, <1>8

\* What pipewrite does to the queue.
LEMMA QueuePut ==
  ASSUME RingOK, NEW s \in Seq(Bytes), NEW k \in 0..Len(s), Used + k <= PIPESIZE,
         data' = Filled(s, k), nwrite' = (nwrite + k) % Word, nread' = nread
  PROVE  RingOK' /\ Used' = Used + k /\ Queue' = Queue \o SubSeq(s, 1, k)
\* The bytes of a write land in different places, and no other place changes.
<1>FilledIs. ASSUME k <= PIPESIZE
             PROVE  /\ Filled(s, k) \in [0..(PIPESIZE - 1) -> Bytes]
                    /\ \A m \in 1..k : Filled(s, k)[(nwrite + m - 1) % PIPESIZE] = s[m]
                    /\ \A i \in 0..(PIPESIZE - 1) :
                         (\A m \in 1..k : (nwrite + m - 1) % PIPESIZE # i)
                           => Filled(s, k)[i] = data[i]
  <2> USE <1>FilledIs
  <2> DEFINE At(m) == (nwrite + m - 1) % PIPESIZE
             Last(i) == CHOOSE j \in 1..k : /\ At(j) = i
                                            /\ \A m \in (j + 1)..k : At(m) # i
  <2>1. /\ PIPESIZE \in Nat \ {0} /\ nwrite \in Nat /\ k \in Nat /\ Len(s) \in Nat
        /\ data \in [0..(PIPESIZE - 1) -> Bytes]
    BY PipeAssumption DEF RingOK
  <2>2. \A m \in 1..k : At(m) \in 0..(PIPESIZE - 1)
    <3> SUFFICES ASSUME NEW m \in 1..k PROVE At(m) \in 0..(PIPESIZE - 1)
      OBVIOUS
    <3>1. nwrite + m - 1 \in Nat
      BY <2>1
    <3>2. QED
      BY <2>1, <3>1, Division, ZenonT(40)
  <2>3. \A m, j \in 1..k : m < j => At(m) # At(j)
    <3> SUFFICES ASSUME NEW m \in 1..k, NEW j \in 1..k, m < j PROVE At(m) # At(j)
      OBVIOUS
    <3>1. /\ nwrite + m - 1 \in Nat /\ nwrite + j - 1 \in Nat
          /\ nwrite + m - 1 < nwrite + j - 1
          /\ (nwrite + j - 1) - (nwrite + m - 1) < PIPESIZE
      BY <2>1
    <3>2. QED
      BY <3>1, RingApart
  <2>4. Filled(s, k) = [i \in 0..(PIPESIZE - 1) |->
                          IF \E j \in 1..k : At(j) = i THEN s[Last(i)] ELSE data[i]]
    BY <2>1 DEF Filled
  <2> HIDE DEF At
  <2>5. \A m \in 1..k : Last(At(m)) = m
    <3> SUFFICES ASSUME NEW m \in 1..k PROVE Last(At(m)) = m
      OBVIOUS
    <3>1. \A j \in (m + 1)..k : At(j) # At(m)
      BY <2>1, <2>3
    <3>2. \A j \in 1..k : At(j) = At(m) => j = m
      BY <2>1, <2>3
    <3>3. QED
      BY <3>1, <3>2
  <2> HIDE DEF Last
  <2>6. ASSUME NEW i \in 0..(PIPESIZE - 1), NEW m \in 1..k, At(m) = i
        PROVE  Filled(s, k)[i] = s[m]
    BY <2>4, <2>5, <2>6
  <2>7. ASSUME NEW i \in 0..(PIPESIZE - 1), \A m \in 1..k : At(m) # i
        PROVE  Filled(s, k)[i] = data[i]
    BY <2>4, <2>7
  <2>8. \A m \in 1..k : s[m] \in Bytes
    BY <2>1
  <2>9. \A i \in 0..(PIPESIZE - 1) : Filled(s, k)[i] \in Bytes
    BY <2>1, <2>6, <2>7, <2>8, ZenonT(40)
  <2>10. Filled(s, k) \in [0..(PIPESIZE - 1) -> Bytes]
    BY <2>4, <2>9
  <2>11. QED
    BY <2>2, <2>6, <2>7, <2>10 DEF At
<1>1. /\ Used \in 0..PIPESIZE
      /\ nwrite = IF nread + Used < Word THEN nread + Used ELSE nread + Used - Word
      /\ PIPESIZE \in Nat \ {0} /\ Word \in Nat /\ PIPESIZE < Word
      /\ nread \in 0..(Word - 1) /\ nwrite \in 0..(Word - 1)
  BY Counters
<1>2. k \in Nat /\ Len(s) \in Nat
  OBVIOUS
<1>3. PICK u \in 0..PIPESIZE : u = Used
  BY <1>1
<1>4. u + k <= PIPESIZE /\ k <= PIPESIZE
  BY <1>1, <1>2, <1>3
<1>5. nwrite' \in 0..(Word - 1) /\ nwrite' = IF nwrite + k < Word THEN nwrite + k
                                                                  ELSE nwrite + k - Word
  <2>1. nwrite + k \in 0..(2 * Word - 1)
    BY <1>1, <1>2, <1>4
  <2>2. (nwrite + k) % Word = IF nwrite + k < Word THEN nwrite + k ELSE nwrite + k - Word
    <3>1. PICK a \in 0..(2 * Word - 1) : a = nwrite + k
      BY <2>1
    <3>2. a % Word = IF a < Word THEN a ELSE a - Word
      BY WordMod
    <3>3. QED
      BY <1>1, <1>2, <3>1, <3>2
  <2>3. QED
    BY <1>1, <1>2, <2>1, <2>2
<1>6. Used' = u + k
  <2>1. Used' = IF nread' <= nwrite' THEN nwrite' - nread' ELSE nwrite' + Word - nread'
    BY <1>1, <1>5, UsedIs, ZenonT(40) DEF Used
  <2>2. QED
    BY <1>1, <1>2, <1>3, <1>4, <1>5, <2>1
<1>7. /\ data' \in [0..(PIPESIZE - 1) -> Bytes]
      /\ \A m \in 1..k : data'[(nwrite + m - 1) % PIPESIZE] = s[m]
      /\ \A i \in 0..(PIPESIZE - 1) :
           (\A m \in 1..k : (nwrite + m - 1) % PIPESIZE # i) => data'[i] = data[i]
  BY <1>4, <1>FilledIs, ZenonT(40)
<1>8. RingOK'
  BY <1>1, <1>4, <1>5, <1>6, <1>7 DEF RingOK
<1>9. /\ Queue \in Seq(Bytes) /\ Len(Queue) = u
      /\ \A j \in 1..u : Queue[j] = data[(nread + j - 1) % PIPESIZE]
  BY <1>3, QueueIs
<1>10. /\ Queue' \in Seq(Bytes) /\ Len(Queue') = u + k
       /\ \A j \in 1..(u + k) : Queue'[j] = data'[(nread + j - 1) % PIPESIZE]
  <2>1. (RingOK => /\ Used \in 0..PIPESIZE
                   /\ Queue \in Seq(Bytes) /\ Len(Queue) = Used
                   /\ \A j \in 1..Used : Queue[j] = data[(nread + j - 1) % PIPESIZE])'
    BY QueueIs, PTL
  <2>2. QED
    BY <1>6, <1>8, <2>1, ZenonT(40)
<1>11. ASSUME NEW m \in 1..k
       PROVE  (nread + (u + m) - 1) % PIPESIZE = (nwrite + m - 1) % PIPESIZE
  <2>1. CASE nread + u < Word
    <3>1. nread + (u + m) - 1 = nwrite + m - 1
      BY <1>1, <1>2, <1>3, <2>1
    <3>2. QED
      BY <3>1
  <2>2. CASE ~(nread + u < Word)
    <3>1. PICK a \in Nat : a = nread + (u + m) - 1
      BY <1>1, <1>2, <1>3
    <3>2. a >= Word /\ a - Word = nwrite + m - 1
      BY <1>1, <1>2, <1>3, <2>2, <3>1
    <3>3. (a - Word) % PIPESIZE = a % PIPESIZE
      BY <3>2, RingWrap
    <3>4. QED
      BY <3>1, <3>2, <3>3
  <2>3. QED
    BY <2>1, <2>2
<1>12. ASSUME NEW j \in 1..u PROVE Queue'[j] = Queue[j]
  <2>1. PICK a \in Nat : a = nread + j - 1
    BY <1>1
  <2>2. a % PIPESIZE \in 0..(PIPESIZE - 1)
    BY <1>1, <2>1, Division
  <2>3. ASSUME NEW m \in 1..k PROVE (nwrite + m - 1) % PIPESIZE # a % PIPESIZE
    <3>1. PICK b \in Nat : b = nread + (u + m) - 1
      BY <1>1, <1>2, <1>3
    <3>2. a < b /\ b - a < PIPESIZE
      BY <1>1, <1>2, <1>4, <2>1, <3>1
    <3>3. a % PIPESIZE # b % PIPESIZE
      BY <3>2, RingApart
    <3>4. QED
      BY <1>11, <3>1, <3>3
  <2>4. data'[a % PIPESIZE] = data[a % PIPESIZE]
    BY <1>7, <2>2, <2>3
  <2>5. j \in 1..(u + k)
    BY <1>1, <1>2
  <2>6. QED
    BY <1>9, <1>10, <2>1, <2>4, <2>5
<1>13. ASSUME NEW m \in 1..k PROVE Queue'[u + m] = s[m]
  <2>1. u + m \in 1..(u + k)
    BY <1>1, <1>2
  <2>2. Queue'[u + m] = data'[(nread + (u + m) - 1) % PIPESIZE]
    BY <1>10, <2>1
  <2>3. QED
    BY <1>7, <1>11, <2>2, ZenonT(40)
<1> DEFINE t == SubSeq(s, 1, k)
<1>14. t \in Seq(Bytes) /\ Len(t) = k /\ \A m \in 1..k : t[m] = s[m]
  BY <1>2
<1> HIDE DEF t, Queue
<1>15. Queue' = Queue \o t
  <2> DEFINE v == Queue \o t
  <2>1. v \in Seq(Bytes) /\ Len(v) = u + k
    <3>1. Queue \in Seq(Bytes) /\ t \in Seq(Bytes)
      BY <1>9, <1>14
    <3>2. v \in Seq(Bytes) /\ Len(v) = Len(Queue) + Len(t)
      BY <3>1
    <3>3. QED
      BY <1>9, <1>14, <3>2
  <2>a. \A j \in 1..u : v[j] = Queue[j]
    BY <1>2, <1>9, <1>14
  <2>b. \A m \in 1..k : v[u + m] = t[m]
    BY <1>2, <1>9, <1>14
  <2> HIDE DEF v
  <2>2. \A j \in 1..(u + k) : j \in 1..u \/ \E m \in 1..k : j = u + m
    <3> SUFFICES ASSUME NEW j \in 1..(u + k), ~(j \in 1..u)
                 PROVE  \E m \in 1..k : j = u + m
      OBVIOUS
    <3>1. j - u \in 1..k /\ j = u + (j - u)
      BY <1>1, <1>2
    <3>2. QED
      BY <3>1
  <2>3. \A j \in 1..(u + k) : Queue'[j] = v[j]
    <3>1. \A j \in 1..u : Queue'[j] = v[j]
      BY <1>12, <2>a
    <3>2. \A m \in 1..k : Queue'[u + m] = v[u + m]
      BY <1>13, <1>14, <2>b, ZenonT(40)
    <3>3. QED
      BY <2>2, <3>1, <3>2, ZenonT(40)
  <2>4. Queue' = v
    BY <1>10, <2>1, <2>3
  <2>5. QED
    BY <2>4 DEF v
<1>16. QED
  BY <1>3, <1>6, <1>8, <1>15 DEF t

\* What piperead does to the queue.
LEMMA QueueGet ==
  ASSUME RingOK, NEW k \in 0..Used, data' = data, nwrite' = nwrite,
         nread' = (nread + k) % Word
  PROVE  /\ RingOK' /\ Queue' = SubSeq(Queue, k + 1, Len(Queue))
         /\ [j \in 1..k |-> data[ReadIndex(j)]] = SubSeq(Queue, 1, k)
<1>1. /\ Used \in 0..PIPESIZE
      /\ nwrite = IF nread + Used < Word THEN nread + Used ELSE nread + Used - Word
      /\ PIPESIZE \in Nat \ {0} /\ Word \in Nat /\ PIPESIZE < Word
      /\ nread \in 0..(Word - 1) /\ nwrite \in 0..(Word - 1)
  BY Counters
<1>2. PICK u \in 0..PIPESIZE : u = Used
  BY <1>1
<1>3. k \in Nat /\ k <= u
  BY <1>2
<1>4. nread' \in 0..(Word - 1) /\ nread' = IF nread + k < Word THEN nread + k
                                                               ELSE nread + k - Word
  <2>1. nread + k \in 0..(2 * Word - 1)
    BY <1>1, <1>3
  <2>2. (nread + k) % Word = IF nread + k < Word THEN nread + k ELSE nread + k - Word
    <3>1. PICK a \in 0..(2 * Word - 1) : a = nread + k
      BY <2>1
    <3>2. a % Word = IF a < Word THEN a ELSE a - Word
      BY WordMod
    <3>3. QED
      BY <1>1, <1>3, <3>1, <3>2
  <2>3. QED
    BY <1>1, <1>3, <2>1, <2>2
<1>5. Used' = u - k
  <2>1. Used' = IF nread' <= nwrite' THEN nwrite' - nread' ELSE nwrite' + Word - nread'
    BY <1>1, <1>4, UsedIs, ZenonT(40) DEF Used
  <2>2. QED
    BY <1>1, <1>2, <1>3, <1>4, <2>1
<1>6. RingOK'
  BY <1>1, <1>3, <1>4, <1>5 DEF RingOK
<1>7. /\ Queue \in Seq(Bytes) /\ Len(Queue) = u
      /\ \A j \in 1..u : Queue[j] = data[(nread + j - 1) % PIPESIZE]
  BY <1>2, QueueIs
<1>8. /\ Queue' \in Seq(Bytes) /\ Len(Queue') = u - k
      /\ \A j \in 1..(u - k) : Queue'[j] = data[(nread' + j - 1) % PIPESIZE]
  <2>1. (RingOK => /\ Used \in 0..PIPESIZE
                   /\ Queue \in Seq(Bytes) /\ Len(Queue) = Used
                   /\ \A j \in 1..Used : Queue[j] = data[(nread + j - 1) % PIPESIZE])'
    BY QueueIs, PTL
  <2>2. QED
    BY <1>5, <1>6, <2>1
<1>9. ASSUME NEW j \in 1..(u - k) PROVE Queue'[j] = Queue[k + j]
  <2>1. k + j \in 1..u
    BY <1>3
  <2>2. (nread' + j - 1) % PIPESIZE = (nread + (k + j) - 1) % PIPESIZE
    <3>1. CASE nread + k < Word
      <4>1. nread' + j - 1 = nread + (k + j) - 1
        BY <1>1, <1>3, <1>4, <3>1
      <4>2. QED
        BY <4>1
    <3>2. CASE ~(nread + k < Word)
      <4>1. PICK a \in Nat : a = nread + (k + j) - 1
        BY <1>1, <1>3
      <4>2. a >= Word /\ a - Word = nread' + j - 1
        BY <1>1, <1>3, <1>4, <3>2, <4>1
      <4>3. (a - Word) % PIPESIZE = a % PIPESIZE
        BY <4>2, RingWrap
      <4>4. QED
        BY <4>1, <4>2, <4>3
    <3>3. QED
      BY <3>1, <3>2
  <2>3. QED
    BY <1>7, <1>8, <2>1, <2>2, ZenonT(40)
<1> HIDE DEF Queue
<1>10. Queue' = SubSeq(Queue, k + 1, Len(Queue))
  <2> DEFINE t == SubSeq(Queue, k + 1, u)
  <2>1. t \in Seq(Bytes) /\ Len(t) = u - k /\ \A j \in 1..(u - k) : t[j] = Queue[k + j]
    BY <1>3, <1>7
  <2> HIDE DEF t
  <2>2. Len(Queue') = Len(t) /\ \A j \in 1..Len(t) : Queue'[j] = t[j]
    BY <1>8, <1>9, <2>1, ZenonT(40)
  <2>3. Queue' = t
    BY <1>8, <2>1, <2>2, SameSeq, ZenonT(40)
  <2>4. QED
    BY <1>7, <2>3 DEF t
<1>11. [j \in 1..k |-> data[ReadIndex(j)]] = SubSeq(Queue, 1, k)
  <2> DEFINE t == SubSeq(Queue, 1, k)
             g == [j \in 1..k |-> data[ReadIndex(j)]]
  <2>1. t \in Seq(Bytes) /\ Len(t) = k /\ \A j \in 1..k : t[j] = Queue[j]
    BY <1>3, <1>7
  <2>2. \A j \in 1..k : g[j] = Queue[j]
    BY <1>3, <1>7 DEF ReadIndex
  <2>3. g \in Seq(Bytes) /\ Len(g) = k
    <3>1. \A j \in 1..k : Queue[j] \in Bytes
      BY <1>3, <1>7
    <3>2. QED
      BY <1>3, <2>2, <3>1
  <2> HIDE DEF t, g
  <2>4. t = g
    BY <2>1, <2>2, <2>3
  <2>5. QED
    BY <2>4 DEF t, g
<1>12. QED
  BY <1>6, <1>10, <1>11

-----------------------------------------------------------------------------
(* The inductive invariant.                                                *)

\* A wakeup keeps the type of run.
LEMMA WokenType ==
  ASSUME TypeOK, NEW c
  PROVE  Woken(c) \in [Procs -> {"ready", "locked", "asleep"}]
BY DEF TypeOK, Woken

\* pipe() establishes the invariant.
LEMMA InvInit ==
  ASSUME Init
  PROVE  IInv
<1>1. RingOK
  <2>1. Word \in Nat \ {0} /\ PIPESIZE \in Nat /\ 0 \in 0..(Word - 1)
    BY PipeAssumption
  <2>2. Used = 0
    BY <2>1, UsedIs DEF Init, Used
  <2>3. QED
    BY <2>1, <2>2 DEF Init, RingOK
<1>2. TypeOK
  <2>1. /\ call \in [Procs -> {"none", "read", "write"}]
        /\ run \in [Procs -> {"ready", "locked", "asleep"}]
        /\ left \in [Procs -> Seq(Bytes)]
    BY DEF Init
  <2>2. readopen \in BOOLEAN /\ writeopen \in BOOLEAN /\ freed \in BOOLEAN
    BY ZenonT(40) DEF Init
  <2>3. QED
    BY <2>1, <2>2 DEF Init, TypeOK
<1>3. EndsOK
  BY DEF Init, EndsOK
<1>4. QED
  BY <1>1, <1>2, <1>3 DEF IInv

\* The ring stays well formed when its counters and data stay.
LEMMA RingSame ==
  ASSUME RingOK, UNCHANGED <<data, nread, nwrite>>
  PROVE  RingOK' /\ Used' = Used /\ Queue' = Queue
BY DEF RingOK, Used, Queue

\* The invariant is inductive.
LEMMA InvNext ==
  ASSUME IInv, [Next]_vars
  PROVE  IInv'
\* A call of write.
<1>CallWriteInv. ASSUME NEW p \in Procs, NEW s \in Strings, CallWrite(p, s)
                 PROVE  IInv'
  <2> USE <1>CallWriteInv
  <2>0. RingOK /\ TypeOK /\ EndsOK
    BY DEF IInv
  <2>1. s \in Seq(Bytes) /\ s # << >>
    BY PipeAssumption
  <2>2. /\ call[p] = "none" /\ p \in wfd
        /\ call' = [call EXCEPT ![p] = "write"] /\ left' = [left EXCEPT ![p] = s]
        /\ UNCHANGED <<data, nread, nwrite, readopen, writeopen, freed, rfd, wfd, run>>
    BY DEF CallWrite
  <2>3. RingOK'
    BY <2>0, <2>2, RingSame
  <2>4. TypeOK'
    BY <2>0, <2>1, <2>2 DEF TypeOK
  <2>5. EndsOK'
    BY <2>0, <2>1, <2>2 DEF EndsOK, TypeOK
  <2>6. QED
    BY <2>3, <2>4, <2>5 DEF IInv
\* A stretch of pipewrite.
<1>WriteInv. ASSUME NEW p \in Procs, pipewrite(p)
             PROVE  IInv'
  <2> USE <1>WriteInv
  <2>0. RingOK /\ TypeOK /\ EndsOK
    BY DEF IInv
  <2>1. PICK s \in Seq(Bytes) : s = left[p]
    BY <2>0 DEF TypeOK
  <2>2. PICK k \in 0..Len(s) : k = Room(s) /\ Used + k <= PIPESIZE
    BY <2>0, RoomIs
  <2>3. data' = Filled(s, k) /\ nwrite' = (nwrite + k) % Word /\ nread' = nread
    BY <2>1, <2>2 DEF pipewrite
  <2>4. RingOK'
    BY <2>0, <2>2, <2>3, QueuePut
  <2>5. UNCHANGED <<readopen, writeopen, freed, rfd, wfd>> /\ call[p] = "write"
    BY DEF pipewrite
  <2>6. CASE /\ run' = WriteWakes \/ run' = run
             /\ call' = [call EXCEPT ![p] = "none"] /\ left' = [left EXCEPT ![p] = << >>]
    <3>1. run' \in [Procs -> {"ready", "locked", "asleep"}]
      BY <2>0, <2>6, WokenType DEF WriteWakes, TypeOK
    <3>2. TypeOK'
      <4>1. << >> \in Seq(Bytes)
        OBVIOUS
      <4>2. left' \in [Procs -> Seq(Bytes)]
        BY <2>0, <2>6, <4>1 DEF TypeOK
      <4>3. call' \in [Procs -> {"none", "read", "write"}]
        BY <2>0, <2>6 DEF TypeOK
      <4>4. QED
        BY <2>0, <2>5, <3>1, <4>2, <4>3 DEF TypeOK
    <3>3. EndsOK'
      BY <2>0, <2>5, <2>6 DEF EndsOK, TypeOK
    <3>4. QED
      BY <2>4, <3>2, <3>3 DEF IInv
  <2>7. CASE /\ k < Len(s) /\ run' = [WriteWakes EXCEPT ![p] = "locked"]
             /\ left' = [left EXCEPT ![p] = SubSeq(@, k + 1, Len(@))] /\ call' = call
    <3>1. run' \in [Procs -> {"ready", "locked", "asleep"}]
      BY <2>0, <2>7, WokenType DEF WriteWakes
    <3>2. PICK t : t = SubSeq(s, k + 1, Len(s))
      BY ZenonT(40)
    <3>3. t \in Seq(Bytes) /\ Len(t) # 0
      BY <2>7, <3>2
    <3>4. left' = [left EXCEPT ![p] = t] /\ t # << >>
      BY <2>1, <2>7, <3>2, <3>3, ZenonT(40)
    <3>5. TypeOK'
      BY <2>0, <2>5, <2>7, <3>1, <3>3, <3>4 DEF TypeOK
    <3>6. EndsOK'
      BY <2>0, <2>5, <2>7, <3>4, ZenonT(40) DEF EndsOK, TypeOK
    <3>7. QED
      BY <2>4, <3>5, <3>6 DEF IInv
  <2>8. QED
    BY <2>1, <2>2, <2>6, <2>7 DEF pipewrite
\* A stretch of piperead.
<1>ReadInv. ASSUME NEW p \in Procs, NEW n \in Sizes, piperead(p, n)
            PROVE  IInv'
  <2> USE <1>ReadInv
  <2>0. RingOK /\ TypeOK /\ EndsOK
    BY DEF IInv
  <2>1. /\ UNCHANGED <<data, nwrite, readopen, writeopen, freed, rfd, wfd, left>>
        /\ call[p] = "read"
    BY DEF piperead
  <2>2. CASE nread # nwrite \/ ~writeopen
    <3>1. PICK k \in 0..Used : nread' = (nread + k) % Word
      <4>1. n \in Nat /\ Used \in Nat
        BY <2>0, Counters, PipeAssumption
      <4>2. (IF n < Used THEN n ELSE Used) \in 0..Used
        BY <4>1
      <4>3. QED
        BY <2>2, <4>2 DEF piperead
    <3>2. RingOK'
      BY <2>0, <2>1, <3>1, QueueGet
    <3>3. run' = ReadWakes /\ call' = [call EXCEPT ![p] = "none"]
      BY <2>2 DEF piperead
    <3>4. TypeOK'
      BY <2>0, <2>1, <3>3, WokenType DEF TypeOK, ReadWakes
    <3>5. EndsOK'
      BY <2>0, <2>1, <3>3 DEF EndsOK, TypeOK
    <3>6. QED
      BY <3>2, <3>4, <3>5 DEF IInv
  <2>3. CASE ~(nread # nwrite \/ ~writeopen)
    <3>1. /\ nread' = nread
          /\ \/ call' = [call EXCEPT ![p] = "none"] /\ run' = run
             \/ run' = [run EXCEPT ![p] = "locked"] /\ call' = call
      BY <2>3 DEF piperead
    <3>2. RingOK'
      BY <2>0, <2>1, <3>1, RingSame
    <3>3. TypeOK'
      BY <2>0, <2>1, <3>1, ZenonT(40) DEF TypeOK
    <3>4. EndsOK'
      BY <2>0, <2>1, <3>1 DEF EndsOK, TypeOK
    <3>5. QED
      BY <3>2, <3>3, <3>4 DEF IInv
  <2>4. QED
    BY <2>2, <2>3
\* The writer's end is closed; pipeclose is called for the last holder.
<1>CloseWriteInv. ASSUME NEW p \in Procs, CloseWrite(p)
                  PROVE  IInv'
  <2> USE <1>CloseWriteInv
  <2>0. RingOK /\ TypeOK /\ EndsOK
    BY DEF IInv
  <2>1. /\ call[p] = "none" /\ p \in wfd /\ wfd' = wfd \ {p} /\ writeopen' = (wfd # {p})
        /\ freed' = (freed \/ (~readopen /\ ~writeopen'))
        /\ UNCHANGED <<data, nread, nwrite, readopen, rfd, call, left>>
    BY DEF CloseWrite, LastEnd
  <2>2. run' \in [Procs -> {"ready", "locked", "asleep"}]
    BY <2>0, WokenType DEF CloseWrite, CloseWakes, TypeOK
  <2>3. RingOK'
    BY <2>0, <2>1, RingSame
  <2>4. writeopen = TRUE /\ freed = FALSE
    BY <2>0, <2>1 DEF EndsOK, TypeOK
  <2>5. TypeOK'
    <3>1. writeopen' \in BOOLEAN /\ freed' \in BOOLEAN
      BY <2>1
    <3>2. QED
      BY <2>0, <2>1, <2>2, <3>1 DEF TypeOK
  <2>6. EndsOK'
    <3>1. rfd' # {} => readopen'
      BY <2>0, <2>1 DEF EndsOK
    <3>2. wfd' # {} => writeopen'
      BY <2>1, ZenonT(40)
    <3>3. freed' => ~readopen' /\ ~writeopen'
      BY <2>1, <2>4, ZenonT(40)
    <3>4. \A q \in Procs : /\ call'[q] = "read" => q \in rfd'
                           /\ call'[q] = "write" => q \in wfd'
                           /\ call'[q] = "write" <=> left'[q] # << >>
      BY <2>0, <2>1 DEF EndsOK
    <3>5. QED
      BY <3>1, <3>2, <3>3, <3>4 DEF EndsOK
  <2>7. QED
    BY <2>3, <2>5, <2>6 DEF IInv
\* The same for the reader's end.
<1>CloseReadInv. ASSUME NEW p \in Procs, CloseRead(p)
                 PROVE  IInv'
  <2> USE <1>CloseReadInv
  <2>0. RingOK /\ TypeOK /\ EndsOK
    BY DEF IInv
  <2>1. /\ call[p] = "none" /\ p \in rfd /\ rfd' = rfd \ {p} /\ readopen' = (rfd # {p})
        /\ freed' = (freed \/ (~readopen' /\ ~writeopen))
        /\ UNCHANGED <<data, nread, nwrite, writeopen, wfd, call, left>>
    BY DEF CloseRead, LastEnd
  <2>2. run' \in [Procs -> {"ready", "locked", "asleep"}]
    BY <2>0, WokenType DEF CloseRead, CloseWakes, TypeOK
  <2>3. RingOK'
    BY <2>0, <2>1, RingSame
  <2>4. readopen = TRUE /\ freed = FALSE
    BY <2>0, <2>1 DEF EndsOK, TypeOK
  <2>5. TypeOK'
    <3>1. readopen' \in BOOLEAN /\ freed' \in BOOLEAN
      BY <2>1
    <3>2. QED
      BY <2>0, <2>1, <2>2, <3>1 DEF TypeOK
  <2>6. EndsOK'
    <3>1. rfd' # {} => readopen'
      BY <2>1, ZenonT(40)
    <3>2. wfd' # {} => writeopen'
      BY <2>0, <2>1 DEF EndsOK
    <3>3. freed' => ~readopen' /\ ~writeopen'
      BY <2>1, <2>4, ZenonT(40)
    <3>4. \A q \in Procs : /\ call'[q] = "read" => q \in rfd'
                           /\ call'[q] = "write" => q \in wfd'
                           /\ call'[q] = "write" <=> left'[q] # << >>
      BY <2>0, <2>1 DEF EndsOK
    <3>5. QED
      BY <3>1, <3>2, <3>3, <3>4 DEF EndsOK
  <2>7. QED
    BY <2>3, <2>5, <2>6 DEF IInv
<1>0. RingOK /\ TypeOK /\ EndsOK
  BY DEF IInv
<1>1. ASSUME NEW p \in Procs, CallRead(p) PROVE IInv'
  <2>1. RingOK'
    BY <1>0, <1>1, RingSame DEF CallRead
  <2>2. TypeOK'
    BY <1>0, <1>1 DEF TypeOK, CallRead
  <2>3. EndsOK'
    BY <1>0, <1>1 DEF EndsOK, TypeOK, CallRead
  <2>4. QED
    BY <2>1, <2>2, <2>3 DEF IInv
<1>2. ASSUME NEW p, Sleep(p) \/ Kill(p) PROVE IInv'
  <2>1. /\ UNCHANGED <<data, nread, nwrite, readopen, writeopen, freed, rfd, wfd, call, left>>
        /\ run' \in [Procs -> {"ready", "locked", "asleep"}]
    BY <1>0, <1>2 DEF Sleep, Kill, TypeOK
  <2>2. RingOK'
    BY <1>0, <2>1, RingSame
  <2>3. TypeOK'
    BY <1>0, <2>1 DEF TypeOK
  <2>4. EndsOK'
    BY <1>0, <2>1 DEF EndsOK
  <2>5. QED
    BY <2>2, <2>3, <2>4 DEF IInv
<1>3. CASE UNCHANGED vars
  <2>1. RingOK'
    BY <1>0, <1>3, RingSame DEF vars
  <2>2. TypeOK'
    BY <1>0, <1>3 DEF TypeOK, vars
  <2>3. EndsOK'
    BY <1>0, <1>3 DEF EndsOK, vars
  <2>4. QED
    BY <2>1, <2>2, <2>3 DEF IInv
<1>4. QED
  BY <1>1, <1>2, <1>3, <1>CallWriteInv, <1>WriteInv, <1>ReadInv, <1>CloseWriteInv, <1>CloseReadInv
     DEF Next

\* The invariant holds in every state.
LEMMA Invariant == Spec => []IInv
<1>1. Init => IInv
  BY InvInit
<1>2. IInv /\ [Next]_vars => IInv'
  BY InvNext
<1>3. QED
  BY <1>1, <1>2, PTL DEF Spec

\* pipeclose frees the pipe only when nobody is in pipewrite or piperead, asleep or
\* not, and nobody has an end left to get there.
THEOREM FreedUnused == Spec => []NoUseAfterFree
<1>1. IInv => NoUseAfterFree
  BY DEF IInv, EndsOK, TypeOK, NoUseAfterFree
<1>2. QED
  BY <1>1, Invariant, PTL

-----------------------------------------------------------------------------
(* The pipe implements the byte stream.                                    *)

\* What the byte stream sees of the pipe.
BSVars == <<Queue, readopen, writeopen, left, got, killed>>

\* Every step of the pipe is a step of the byte stream, or changes nothing there.
LEMMA RefineNext ==
  ASSUME IInv, [Next]_vars
  PROVE  BS!Next \/ UNCHANGED BSVars
\* A stretch of pipewrite puts bytes at the end of the stream, or gives up with the
\* pipe full.
<1>WriteRefines. ASSUME NEW p \in Procs, pipewrite(p)
                 PROVE  \E k \in 0..PIPESIZE : BS!Put(p, k) \/ BS!Fail(p, k)
  <2> USE <1>WriteRefines
  <2>0. RingOK /\ TypeOK /\ EndsOK
    BY DEF IInv
  <2>1. PICK s \in Seq(Bytes) : s = left[p]
    BY <2>0 DEF TypeOK
  <2>2. PICK k \in 0..Len(s) : /\ k = Room(s) /\ Used + k <= PIPESIZE
                               /\ k < Len(s) => Used + k = PIPESIZE
    BY <2>0, RoomIs
  <2>3. data' = Filled(s, k) /\ nwrite' = (nwrite + k) % Word /\ nread' = nread
    BY <2>1, <2>2 DEF pipewrite
  <2>4. Queue' = Queue \o SubSeq(left[p], 1, k)
    BY <2>0, <2>1, <2>2, <2>3, QueuePut, ZenonT(40)
  <2>5. Len(Queue) = Used /\ Used \in 0..PIPESIZE /\ Len(s) \in Nat /\ k \in 0..PIPESIZE
    <3>1. Len(Queue) = Used /\ Used \in 0..PIPESIZE /\ PIPESIZE \in Nat
      BY <2>0, QueueIs, PipeAssumption
    <3>2. Len(s) \in Nat
      OBVIOUS
    <3>3. QED
      BY <2>2, <3>1, <3>2
  <2>6. UNCHANGED <<readopen, writeopen, got, killed>> /\ writeopen
    BY <2>0 DEF pipewrite, EndsOK
  <2>7. CASE k = Len(s) /\ left' = [left EXCEPT ![p] = << >>]
    <3>1. SubSeq(s, k + 1, Len(s)) = << >>
      BY <2>5, <2>7
    <3>2. left' = [left EXCEPT ![p] = SubSeq(@, k + 1, Len(@))]
      BY <2>1, <2>7, <3>1, ZenonT(40)
    <3>3. k <= Len(left[p]) /\ Len(Queue) + k <= PIPESIZE
      BY <2>1, <2>2, <2>5
    <3>4. BS!Put(p, k)
      BY <2>4, <2>6, <3>2, <3>3, ZenonT(40) DEF BS!Put, Queue
    <3>5. QED
      BY <2>5, <3>4
  <2>8. CASE /\ k < Len(s) /\ (~readopen \/ p \in killed)
             /\ left' = [left EXCEPT ![p] = << >>]
    <3>1. k < Len(left[p]) /\ Len(Queue) + k = PIPESIZE
      BY <2>1, <2>2, <2>5, <2>8
    <3>2. BS!Fail(p, k)
      BY <2>4, <2>6, <2>8, <3>1, ZenonT(40) DEF BS!Fail, Queue
    <3>3. QED
      BY <2>5, <3>2
  <2>9. CASE k < Len(s) /\ left' = [left EXCEPT ![p] = SubSeq(@, k + 1, Len(@))]
    <3>1. k <= Len(left[p]) /\ Len(Queue) + k <= PIPESIZE
      BY <2>1, <2>2, <2>5
    <3>2. BS!Put(p, k)
      BY <2>4, <2>6, <2>9, <3>1, ZenonT(40) DEF BS!Put, Queue
    <3>3. QED
      BY <2>5, <3>2
  <2>10. QED
    BY <2>1, <2>2, <2>7, <2>8, <2>9 DEF pipewrite
\* A stretch of piperead takes bytes from the front of the stream, or changes nothing.
<1>ReadRefines. ASSUME NEW p \in Procs, NEW n \in Sizes, piperead(p, n)
                PROVE  BS!Read(n) \/ UNCHANGED BSVars
  <2> USE <1>ReadRefines
  <2>0. RingOK /\ TypeOK /\ EndsOK
    BY DEF IInv
  <2>1. UNCHANGED <<data, nwrite, readopen, writeopen, left, killed>> /\ readopen
    BY <2>0 DEF piperead, EndsOK
  <2>2. /\ Len(Queue) = Used /\ Used \in Nat /\ n \in Nat
        /\ Used = 0 => nread = nwrite
    BY <2>0, QueueIs, Counters, PipeAssumption
  <2>3. CASE nread # nwrite \/ ~writeopen
    <3>1. PICK k \in 0..Used : k = IF n < Used THEN n ELSE Used
      BY <2>2
    <3>2. got' = [j \in 1..k |-> data[ReadIndex(j)]] /\ nread' = (nread + k) % Word
      BY <2>3, <3>1 DEF piperead
    <3>3. Queue' = SubSeq(Queue, k + 1, Len(Queue)) /\ got' = SubSeq(Queue, 1, k)
      BY <2>0, <2>1, <3>2, QueueGet
    <3>4. Queue # << >> \/ ~writeopen
      BY <2>2, <2>3
    <3>5. k = IF n < Len(Queue) THEN n ELSE Len(Queue)
      BY <2>2, <3>1
    <3>6. BS!Read(n)
      BY <2>1, <3>3, <3>4, <3>5, ZenonT(40) DEF BS!Read, Queue
    <3>7. QED
      BY <3>6
  <2>4. CASE ~(nread # nwrite \/ ~writeopen)
    <3>1. nread' = nread /\ got' = got
      BY <2>4 DEF piperead
    <3>2. QED
      BY <2>0, <2>1, <3>1, RingSame DEF BSVars
  <2>5. QED
    BY <2>3, <2>4
<1>0. RingOK /\ TypeOK /\ EndsOK
  BY DEF IInv
<1>1. ASSUME NEW p \in Procs, NEW s \in Strings, CallWrite(p, s) PROVE BS!Write(p, s)
  <2>1. Queue' = Queue
    BY <1>0, <1>1, RingSame DEF CallWrite
  <2>2. left[p] = << >> /\ writeopen
    BY <1>0, <1>1 DEF CallWrite, EndsOK
  <2>3. QED
    BY <1>1, <2>1, <2>2 DEF CallWrite, BS!Write, Queue
<1>2. ASSUME NEW p \in Procs, CallRead(p) \/ Sleep(p) PROVE UNCHANGED BSVars
  BY <1>0, <1>2, RingSame DEF CallRead, Sleep, BSVars
<1>3. ASSUME NEW p \in Killable, Kill(p) PROVE BS!Kill(p) /\ p \in Procs
  <2>1. Queue' = Queue
    BY <1>0, <1>3, RingSame DEF Kill
  <2>2. QED
    BY <1>3, <2>1, PipeAssumption DEF Kill, BS!Kill, Queue
<1>4. ASSUME NEW p \in Procs, CloseWrite(p) PROVE BS!CloseWrite \/ UNCHANGED BSVars
  <2>1. Queue' = Queue
    BY <1>0, <1>4, RingSame DEF CloseWrite
  <2>2. /\ call[p] = "none" /\ p \in wfd /\ writeopen' = (wfd # {p})
        /\ UNCHANGED <<readopen, left, got, killed>> /\ writeopen = TRUE
    BY <1>0, <1>4 DEF CloseWrite, EndsOK, TypeOK
  <2>3. CASE wfd = {p}
    <3>1. \A q \in Procs : left[q] = << >>
      BY <1>0, <2>2, <2>3 DEF EndsOK
    <3>2. BS!CloseWrite
      BY <2>1, <2>2, <2>3, <3>1, ZenonT(40) DEF BS!CloseWrite, Queue
    <3>3. QED
      BY <3>2
  <2>4. CASE wfd # {p}
    BY <2>1, <2>2, <2>4, ZenonT(40) DEF BSVars
  <2>5. QED
    BY <2>3, <2>4
<1>5. ASSUME NEW p \in Procs, CloseRead(p) PROVE BS!CloseRead \/ UNCHANGED BSVars
  <2>1. Queue' = Queue
    BY <1>0, <1>5, RingSame DEF CloseRead
  <2>2. /\ p \in rfd /\ readopen' = (rfd # {p})
        /\ UNCHANGED <<writeopen, left, got, killed>> /\ readopen = TRUE
    BY <1>0, <1>5 DEF CloseRead, EndsOK, TypeOK
  <2>3. CASE rfd = {p}
    BY <2>1, <2>2, <2>3, ZenonT(40) DEF BS!CloseRead, Queue
  <2>4. CASE rfd # {p}
    BY <2>1, <2>2, <2>4, ZenonT(40) DEF BSVars
  <2>5. QED
    BY <2>3, <2>4
<1>6. CASE UNCHANGED vars
  BY <1>0, <1>6, RingSame DEF vars, BSVars
<1>7. ASSUME NEW p \in Procs, pipewrite(p) PROVE BS!Next
  BY <1>7, <1>WriteRefines DEF BS!Next
<1>8. QED
  BY <1>1, <1>2, <1>3, <1>4, <1>5, <1>6, <1>7, <1>ReadRefines DEF Next, BS!Next

\* For every size of the ring and every range of its counters: bytes come out in the
\* order they went in, none lost and none twice, a read returns nothing only at the
\* end of the file, and a write fails only with the pipe full.
THEOREM PipeIsByteStream == Spec => ImplementsByteStream
<1>1. ASSUME Init PROVE BS!Init
  <2>1. RingOK /\ Used = 0
    <3>1. Word \in Nat \ {0} /\ 0 \in 0..(Word - 1)
      BY PipeAssumption
    <3>2. Used = 0
      BY <1>1, <3>1, UsedIs DEF Init, Used
    <3>3. QED
      BY <1>1, <3>2, InvInit DEF IInv
  <2>2. Queue = << >>
    <3>1. Queue \in Seq(Bytes) /\ Len(Queue) = 0
      BY <2>1, QueueIs
    <3>2. QED
      BY <3>1
  <2>3. QED
    BY <1>1, <2>2 DEF Init, BS!Init, Queue
<1>2. IInv /\ [Next]_vars => [BS!Next]_BSVars
  BY RefineNext
<1>3. Init /\ []IInv /\ [][Next]_vars => BS!Init /\ [][BS!Next]_BSVars
  BY <1>1, <1>2, PTL
<1>4. QED
  BY <1>3, Invariant, PTL DEF Spec, ImplementsByteStream, BS!Spec, BS!vars, BSVars, Queue

-----------------------------------------------------------------------------
(* The message queue: its inductive invariant.                             *)

RingInv ==
  /\ MsgTypeOK
  /\ head = 0
  /\ tail = IF count = MAX_MESSAGES THEN 0 ELSE count
  /\ \A s \in Slots : safestrcpy(messages[s].data) = messages[s].data

-----------------------------------------------------------------------------
(* Arithmetic modulo the ring's size.                                      *)

\* An index below the ring's size is its own remainder.
LEMMA ModSmall ==
  ASSUME NEW x \in Slots
  PROVE  x % MAX_MESSAGES = x
BY MsgQueueAssumption DEF Slots

\* An index in the second turn of the ring comes back by one ring size.
LEMMA ModTurn ==
  ASSUME NEW x \in Slots
  PROVE  (x + MAX_MESSAGES) % MAX_MESSAGES = x
BY MsgQueueAssumption DEF Slots

-----------------------------------------------------------------------------
(* The ring invariant.                                                     *)

\* What safestrcpy returns is again a body of the right type.
LEMMA StrcpyType ==
  ASSUME NEW d \in Data
  PROVE  safestrcpy(d) \in Data
BY MsgQueueAssumption DEF Data, safestrcpy

\* safestrcpy of what safestrcpy returned changes nothing more.
LEMMA StrcpyIdempotent ==
  ASSUME NEW d \in Data
  PROVE  safestrcpy(safestrcpy(d)) = safestrcpy(d)
BY MsgQueueAssumption, ZenonT(40) DEF Data, safestrcpy

\* msgqueue_init establishes the ring invariant.
LEMMA InitRing == MsgInit => RingInv
<1> SUFFICES ASSUME MsgInit PROVE RingInv
  OBVIOUS
<1>1. ZeroMessage \in Message
  BY MsgQueueAssumption DEF ZeroMessage, Message, Data
<1>2. messages \in [Slots -> Message]
  BY <1>1, ZenonT(40) DEF MsgInit
<1>3. ret \in Replies
  BY ZenonT(40) DEF MsgInit, Replies
<1>4. head = 0 /\ tail = 0 /\ count = 0
  BY ZenonT(40) DEF MsgInit
<1>5. 0 \in Slots /\ 0 \in 0..MAX_MESSAGES /\ MAX_MESSAGES # 0
  BY MsgQueueAssumption DEF Slots
<1>6. \A s \in Slots : safestrcpy(messages[s].data) = messages[s].data
  <2>1. safestrcpy(ZeroMessage.data) = ZeroMessage.data
    BY MsgQueueAssumption DEF ZeroMessage, safestrcpy
  <2> QED BY <2>1, ZenonT(40) DEF MsgInit
<1> QED BY <1>2, <1>3, <1>4, <1>5, <1>6 DEF RingInv, MsgTypeOK

\* With head = 0 the i-th message is in slot i.
LEMMA IndexIsPosition ==
  ASSUME RingInv, NEW i \in 0..(count - 1)
  PROVE  Index(i) = i /\ i \in Slots
<1>1. i \in Slots
  BY MsgQueueAssumption DEF RingInv, MsgTypeOK, Slots
<1> QED BY <1>1, ModSmall, MsgQueueAssumption DEF RingInv, Index, Slots

\* A send stores one message in slot count and keeps the ring invariant.
LEMMA SendRing ==
  ASSUME RingInv, NEW type \in Types, NEW msg \in Data, sys_send(type, msg)
  PROVE  RingInv'
<1>1. CASE IsFull /\ Fail("full")
  BY <1>1, ZenonT(40) DEF RingInv, MsgTypeOK, Fail, Failed, Replies
<1>2. CASE ~IsFull
  <2>1. tail = count /\ count \in Slots /\ count < MAX_MESSAGES
    BY <1>2, MsgQueueAssumption DEF RingInv, MsgTypeOK, IsFull, Slots
  <2>2. (tail + 1) % MAX_MESSAGES
           = IF count + 1 = MAX_MESSAGES THEN 0 ELSE count + 1
    <3>1. CASE count + 1 = MAX_MESSAGES
      BY <2>1, <3>1, ModTurn, MsgQueueAssumption DEF Slots
    <3>2. CASE count + 1 # MAX_MESSAGES
      BY <2>1, <3>2, ModSmall, MsgQueueAssumption DEF Slots
    <3> QED BY <3>1, <3>2
  <2>3. [type |-> type, data |-> safestrcpy(msg)] \in Message
    BY StrcpyType DEF Message
  <2>4. messages' \in [Slots -> Message]
    BY <1>2, <2>3 DEF sys_send, RingInv, MsgTypeOK
  <2>6. ret' \in Replies
    <3>1. ret' = [call |-> "send",
                  msg |-> [type |-> type, data |-> safestrcpy(msg)]]
      BY <1>2 DEF sys_send
    <3>2. ret' \in [call : {"send", "recv"}, msg : Message]
      BY <2>3, <3>1
    <3> QED BY <3>2, ZenonT(40) DEF Replies
  <2>5. tail' = (tail + 1) % MAX_MESSAGES /\ count' = count + 1 /\ head' = head
    BY <1>2 DEF sys_send
  <2>7. \A s \in Slots : safestrcpy(messages'[s].data) = messages'[s].data
    BY <1>2, <2>1, StrcpyIdempotent DEF sys_send, RingInv, MsgTypeOK
  <2> QED BY <2>1, <2>2, <2>4, <2>5, <2>6, <2>7, MsgQueueAssumption
          DEF RingInv, MsgTypeOK, Slots
<1> QED BY <1>1, <1>2 DEF sys_send

\* A receive shifts the ring down and keeps the ring invariant.
LEMMA RecvRing ==
  ASSUME RingInv, NEW type \in Types, sys_recv(type)
  PROVE  RingInv'
<1>1. CASE Fail("no message")
  BY <1>1, ZenonT(40) DEF RingInv, MsgTypeOK, Fail, Failed, Replies
<1>2. ASSUME NEW i \in 0..(count - 1),
             ret' = [call |-> "recv",
                     msg |-> [messages[Index(i)] EXCEPT !.data = safestrcpy(@)]],
             messages' = ShiftDown(Index(i)),
             tail' = (tail + MAX_MESSAGES - 1) % MAX_MESSAGES,
             count' = count - 1,
             head' = head
      PROVE  RingInv'
  <2>1. count - 1 \in Slots /\ count \in Nat /\ count # 0
    BY MsgQueueAssumption DEF RingInv, MsgTypeOK, Slots
  <2>2. tail' = count - 1
    <3>1. CASE count = MAX_MESSAGES
      BY <1>2, <2>1, <3>1, ModSmall, MsgQueueAssumption DEF RingInv, Slots
    <3>2. CASE count # MAX_MESSAGES
      BY <1>2, <2>1, <3>2, ModTurn, MsgQueueAssumption DEF RingInv, Slots
    <3> QED BY <3>1, <3>2
  <2>0. \A s \in Slots : (s + 1) % MAX_MESSAGES \in Slots
    BY MsgQueueAssumption DEF Slots
  <2>m. messages \in [Slots -> Message] /\ messages' = ShiftDown(Index(i))
    BY <1>2 DEF RingInv, MsgTypeOK
  <2>3. messages' \in [Slots -> Message]
    BY <2>0, <2>m DEF ShiftDown
  <2>4. ret' \in Replies
    <3> DEFINE m == messages[Index(i)]
    <3>1. m \in Message /\ safestrcpy(m.data) = m.data
      BY IndexIsPosition DEF RingInv, MsgTypeOK
    <3>2. [m EXCEPT !.data = safestrcpy(@)] \in Message
      BY <3>1 DEF Message
    <3>3. ret' = [call |-> "recv", msg |-> [m EXCEPT !.data = safestrcpy(@)]]
      BY <1>2
    <3> HIDE DEF m
    <3>4. ret' \in [call : {"send", "recv"}, msg : Message]
      BY <3>2, <3>3
    <3> QED BY <3>4, ZenonT(40) DEF Replies
  <2>5. head' = 0 /\ head' \in Slots /\ tail' \in Slots
    BY <1>2, <2>1, <2>2, MsgQueueAssumption DEF RingInv, Slots
  <2>6. count' \in 0..MAX_MESSAGES /\ count' # MAX_MESSAGES /\ tail' = count'
    BY <1>2, <2>1, <2>2, MsgQueueAssumption DEF Slots
  <2>7. \A s \in Slots : safestrcpy(messages'[s].data) = messages'[s].data
    <3>1. \A s \in Slots : safestrcpy(messages[s].data) = messages[s].data
      BY DEF RingInv
    <3>2. ASSUME NEW s \in Slots
          PROVE  messages'[s] = messages[(s + 1) % MAX_MESSAGES] \/ messages'[s] = messages[s]
      BY <2>m DEF ShiftDown
    <3> QED BY <2>0, <3>1, <3>2, ZenonT(40)
  <2> QED BY <2>3, <2>4, <2>5, <2>6, <2>7 DEF RingInv, MsgTypeOK
<1> QED BY <1>1, <1>2, ZenonT(40) DEF sys_recv

\* Every step of the specification keeps the ring invariant.
LEMMA NextRing == RingInv /\ [MsgNext]_msgvars => RingInv'
<1> SUFFICES ASSUME RingInv, [MsgNext]_msgvars PROVE RingInv'
  OBVIOUS
<1>1. CASE BadArgument
  BY <1>1, ZenonT(40) DEF BadArgument, Fail, Failed, Replies, RingInv, MsgTypeOK
<1>2. CASE \E type \in Types, msg \in Data : sys_send(type, msg)
  BY <1>2, SendRing
<1>3. CASE \E type \in Types : sys_recv(type)
  BY <1>3, RecvRing
<1>4. CASE UNCHANGED msgvars
  BY <1>4 DEF msgvars, RingInv, MsgTypeOK
<1> QED BY <1>1, <1>2, <1>3, <1>4 DEF MsgNext

\* head, tail and count stay inside the ring and agree with each other, and
\* every slot holds a message, whatever sequence of calls is made.
THEOREM RingCorrect == MsgSpec => []RingInv
BY InitRing, NextRing, PTL DEF MsgSpec

\* The type invariant that the run msgqueue checks, for every constant.
THEOREM TypeCorrect == MsgSpec => []MsgTypeOK
<1>1. RingInv => MsgTypeOK
  BY DEF RingInv
<1> QED BY <1>1, RingCorrect, PTL

-----------------------------------------------------------------------------
(* Refinement of the channel.                                              *)

SlotsInOrder ==
  /\ Contents \in Seq(Message)
  /\ Len(Contents) = count
  /\ \A i \in 1..count : Contents[i] = messages[i - 1]

\* With head = 0 the queue's i-th message is the one in slot i - 1.
LEMMA ContentsAt == RingInv => SlotsInOrder
<1> SUFFICES ASSUME RingInv PROVE SlotsInOrder
  OBVIOUS
<1>1. \A i \in 1..count : Index(i - 1) = i - 1 /\ i - 1 \in Slots
  BY IndexIsPosition DEF RingInv, MsgTypeOK
<1>2. Contents = [i \in 1..count |-> messages[i - 1]]
  BY <1>1 DEF Contents
<1> QED BY <1>1, <1>2 DEF RingInv, MsgTypeOK, SlotsInOrder

\* The slots the removal loop of recv visits: those from the received
\* message to the newest one, but none when the queue is full and the
\* received message is the oldest, because then index = tail at once.
LEMMA ShiftedSlots ==
  ASSUME RingInv, NEW i \in 0..(count - 1), NEW j \in Slots
  PROVE  j \in Shifted(i) <=> /\ i <= j /\ j < count
                              /\ ~(count = MAX_MESSAGES /\ i = 0)
<1>1. i \in Slots /\ count \in 1..MAX_MESSAGES
  BY MsgQueueAssumption DEF RingInv, MsgTypeOK, Slots
<1>2. (j + MAX_MESSAGES - i) % MAX_MESSAGES
        = IF i <= j THEN j - i ELSE j + MAX_MESSAGES - i
  <2>1. CASE i <= j
    <3>1. j - i \in Slots
      BY <1>1, <2>1, MsgQueueAssumption DEF Slots
    <3> QED BY <1>1, <2>1, <3>1, ModTurn, MsgQueueAssumption DEF Slots
  <2>2. CASE ~(i <= j)
    <3>1. j + MAX_MESSAGES - i \in Slots
      BY <1>1, <2>2, MsgQueueAssumption DEF Slots
    <3> QED BY <2>2, <3>1, ModSmall
  <2> QED BY <2>1, <2>2
<1>3. (tail + MAX_MESSAGES - i) % MAX_MESSAGES
        = IF count = MAX_MESSAGES /\ i = 0 THEN 0 ELSE count - i
  <2>1. CASE count # MAX_MESSAGES
    <3>1. count - i \in Slots /\ tail = count
      BY <1>1, <2>1, MsgQueueAssumption DEF Slots, RingInv
    <3> QED BY <1>1, <2>1, <3>1, ModTurn, MsgQueueAssumption DEF Slots
  <2>2. CASE count = MAX_MESSAGES /\ i = 0
    <3>1. 0 \in Slots /\ tail = 0
      BY <2>2, MsgQueueAssumption DEF Slots, RingInv
    <3> QED BY <2>2, <3>1, ModTurn, MsgQueueAssumption DEF Slots
  <2>3. CASE count = MAX_MESSAGES /\ i # 0
    <3>1. count - i \in Slots /\ tail = 0
      BY <1>1, <2>3, MsgQueueAssumption DEF Slots, RingInv
    <3> QED BY <1>1, <2>3, <3>1, ModSmall, MsgQueueAssumption DEF Slots
  <2> QED BY <2>1, <2>2, <2>3
<1> QED BY <1>1, <1>2, <1>3, MsgQueueAssumption DEF Shifted, Slots

\* A send appends to the channel.
LEMMA SendRefines ==
  ASSUME RingInv, NEW type \in Types, NEW msg \in Data, sys_send(type, msg),
         ~IsFull
  PROVE  Channel!Send(type, msg)
<1> DEFINE m == [type |-> type, data |-> safestrcpy(msg)]
<1>1. RingInv'
  BY SendRing
<1>2. /\ messages' = [messages EXCEPT ![tail] = m]
      /\ ret' = [call |-> "send", msg |-> m]
      /\ count' = count + 1
  BY DEF sys_send
<1>3. tail = count /\ count \in Slots /\ count \in Nat /\ count < MAX_MESSAGES
  BY MsgQueueAssumption DEF RingInv, MsgTypeOK, IsFull, Slots
<1>4. SlotsInOrder /\ SlotsInOrder'
  BY <1>1, ContentsAt, PTL
<1>5. Contents \in Seq(Message) /\ Contents' \in Seq(Message)
      /\ Len(Contents) = count /\ Len(Contents') = count + 1
  BY <1>2, <1>4 DEF SlotsInOrder
<1>6. ASSUME NEW i \in 1..count
      PROVE  Contents'[i] = Contents[i]
  <2>1. i - 1 \in Slots /\ i - 1 # count /\ i \in 1..count'
    BY <1>2, <1>3, MsgQueueAssumption DEF Slots
  <2>2. messages'[i - 1] = messages[i - 1]
    <3>1. messages \in [Slots -> Message]
      BY ZenonT(40) DEF RingInv, MsgTypeOK
    <3>2. QED
      BY <1>2, <1>3, <2>1, <3>1
  <2> QED BY <1>4, <2>1, <2>2 DEF SlotsInOrder
<1>7. Contents'[count + 1] = m
  BY <1>2, <1>3, <1>4 DEF RingInv, MsgTypeOK, SlotsInOrder
<1> HIDE DEF m
<1>8. Contents' = Append(Contents, m)
  BY <1>3, <1>5, <1>6, <1>7
<1> QED BY <1>2, <1>3, <1>5, <1>8 DEF Channel!Send, Channel!Full, m

\* A receive removes from the channel the message it returns, or, when the
\* queue is full and that message is the oldest, the newest one.
LEMMA RecvRefines ==
  ASSUME RingInv, NEW type \in Types, NEW i \in 0..(count - 1),
         FirstOfType(i, type),
         ret' = [call |-> "recv",
                 msg |-> [messages[Index(i)] EXCEPT !.data = safestrcpy(@)]],
         messages' = ShiftDown(Index(i)), count' = count - 1, RingInv'
  PROVE  Channel!Recv(type)
<1> DEFINE lost == IF count = MAX_MESSAGES /\ i = 0 THEN MAX_MESSAGES
                                                   ELSE i + 1
<1>1. SlotsInOrder /\ SlotsInOrder'
  BY ContentsAt, PTL
<1>2. Contents \in Seq(Message) /\ Contents' \in Seq(Message)
      /\ Len(Contents) = count /\ Len(Contents') = count - 1
  BY <1>1 DEF SlotsInOrder
<1>3. count \in 1..MAX_MESSAGES /\ i + 1 \in 1..count /\ lost \in 1..count
  BY MsgQueueAssumption DEF RingInv, MsgTypeOK
<1>4. \A k \in 0..(count - 1) : Index(k) = k /\ k \in Slots
  BY IndexIsPosition
<1>5. \A k \in 1..count : Contents[k] = messages[k - 1]
  BY <1>1 DEF SlotsInOrder
<1>6. Channel!OldestOfType(i + 1, type)
  <2>1. Contents[i + 1].type = type
    BY <1>3, <1>4, <1>5 DEF FirstOfType
  <2>2. ASSUME NEW k \in 1..((i + 1) - 1)
        PROVE  Contents[k].type # type
    <3>1. k - 1 \in 0..(i - 1) /\ k - 1 \in 0..(count - 1) /\ k \in 1..count
      BY <1>3
    <3> QED BY <1>4, <1>5, <3>1 DEF FirstOfType
  <2> QED BY <1>2, <1>3, <2>1, <2>2 DEF Channel!OldestOfType
<1>7. ret' = [call |-> "recv", msg |-> Contents[i + 1]]
  <2>1. messages[i] \in Message /\ safestrcpy(messages[i].data) = messages[i].data
    BY <1>4 DEF RingInv, MsgTypeOK
  <2>2. [messages[i] EXCEPT !.data = safestrcpy(@)] = messages[i]
    BY <2>1 DEF Message
  <2> QED BY <1>3, <1>4, <1>5, <2>2
<1>8. ASSUME NEW j \in 1..(count - 1)
      PROVE  Contents'[j] = IF j < lost THEN Contents[j] ELSE Contents[j + 1]
  <2>1. j - 1 \in Slots /\ j \in Slots /\ j \in 1..count /\ j + 1 \in 1..count
    BY <1>3, MsgQueueAssumption DEF Slots
  <2>2. Contents'[j] = messages'[j - 1]
    BY <1>1 DEF SlotsInOrder
  <2>3. messages'[j - 1] = IF j - 1 \in Shifted(i)
                           THEN messages[j % MAX_MESSAGES] ELSE messages[j - 1]
    BY <1>4, <2>1 DEF ShiftDown
  <2>4. j % MAX_MESSAGES = j
    BY <2>1, ModSmall
  <2>5. j - 1 \in Shifted(i) <=> ~(j < lost)
    BY <1>3, <2>1, ShiftedSlots, MsgQueueAssumption
  <2> QED BY <1>5, <2>1, <2>2, <2>3, <2>4, <2>5
<1> HIDE DEF lost
<1>9. Contents' = Channel!Without(Contents, lost)
  BY <1>2, <1>3, <1>8 DEF Channel!Without
<1>10. lost = IF Channel!Full /\ i + 1 = 1 THEN MAX_MESSAGES ELSE i + 1
  BY <1>2, <1>3 DEF lost, Channel!Full
<1>11. i + 1 \in 1..Len(Contents)
  BY <1>2, <1>3
<1> QED BY <1>6, <1>7, <1>9, <1>10, <1>11 DEF Channel!Recv

\* Every step of the ring is a step of the channel, or leaves it alone.
LEMMA StepRefines ==
  RingInv /\ RingInv' /\ [MsgNext]_msgvars => [Channel!Next]_<<Contents, ret>>
<1> SUFFICES ASSUME RingInv, RingInv', [MsgNext]_msgvars
             PROVE  [Channel!Next]_<<Contents, ret>>
  OBVIOUS
<1>1. ASSUME NEW why, Fail(why)
      PROVE  Contents' = Contents /\ ret' = Channel!Failed(why)
  BY <1>1 DEF Fail, Failed, Channel!Failed, Contents, Index
<1>2. CASE BadArgument
  BY <1>1, <1>2 DEF BadArgument, Channel!BadArgument, Channel!Next
<1>3. ASSUME NEW type \in Types, NEW msg \in Data, sys_send(type, msg)
      PROVE  Channel!Next
  <2>1. CASE IsFull
    <3>1. Len(Contents) = MAX_MESSAGES
      <4>1. Len(Contents) = count
        BY ContentsAt, ZenonT(40) DEF SlotsInOrder
      <4>2. QED
        BY <2>1, <4>1 DEF IsFull
    <3>2. Fail("full")
      BY <1>3, <2>1 DEF sys_send
    <3> QED BY <1>1, <3>1, <3>2
            DEF Channel!Next, Channel!SendFull, Channel!Full
  <2>2. CASE ~IsFull
    BY <1>3, <2>2, SendRefines DEF Channel!Next
  <2> QED BY <2>1, <2>2
<1>4. ASSUME NEW type \in Types, sys_recv(type)
      PROVE  Channel!Next
  <2>1. CASE \A i \in 0..(count - 1) : messages[Index(i)].type # type
    <3>1. Fail("no message")
      BY <1>4, <2>1, ZenonT(40) DEF sys_recv, FirstOfType
    <3>2. ASSUME NEW i \in 1..Len(Contents)
          PROVE  Contents[i].type # type
      <4>1. i \in 1..count /\ i - 1 \in 0..(count - 1)
        BY ContentsAt DEF SlotsInOrder, RingInv, MsgTypeOK
      <4> QED BY <2>1, <4>1, ContentsAt, IndexIsPosition DEF SlotsInOrder
    <3> QED BY <1>1, <1>4, <3>1, <3>2, ZenonT(40) DEF Channel!Next, Channel!RecvNone
  <2>2. CASE ~ \A i \in 0..(count - 1) : messages[Index(i)].type # type
    BY <1>4, <2>2, RecvRefines, ZenonT(40) DEF sys_recv, Channel!Next
  <2> QED BY <2>1, <2>2
<1>5. CASE UNCHANGED msgvars
  BY <1>5 DEF msgvars, Contents, Index
<1> QED BY <1>2, <1>3, <1>4, <1>5 DEF MsgNext

\* The ring implements the bounded channel: messages of one type come out in
\* the order they went in, a call fails only when the queue is full, empty of
\* the type, or its arguments are bad, and each receive removes exactly one
\* message.
THEOREM RingImplementsChannel == MsgSpec => ImplementsChannel
<1>1. MsgInit => Channel!Init
  <2> SUFFICES ASSUME MsgInit PROVE Channel!Init
    OBVIOUS
  <2>1. Contents = << >>
    <3>1. Contents \in Seq(Message) /\ Len(Contents) = 0
      BY InitRing, ContentsAt, ZenonT(40) DEF SlotsInOrder, MsgInit
    <3> QED BY <3>1
  <2>2. ret = Channel!Failed("none yet")
    BY ZenonT(40) DEF MsgInit, Failed, Channel!Failed
  <2> QED BY <2>1, <2>2, ZenonT(40) DEF Channel!Init
<1> QED BY <1>1, RingCorrect, StepRefines, PTL
        DEF MsgSpec, ImplementsChannel, Channel!Spec

=============================================================================
