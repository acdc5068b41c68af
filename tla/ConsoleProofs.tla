---------------------------- MODULE ConsoleProofs ----------------------------
(***************************************************************************)
(* Proofs about Console, for any number of readers, size of the ring,      *)
(* range of its indices and size of the screen: the cursor stays on the    *)
(* screen, nobody sleeps beside input, an end of file is seen, and the     *)
(* ring implements LineDiscipline.                                         *)
(*                                                                         *)
(* r, w and e are never reduced to the ring, they wrap at Word; the ring   *)
(* is described by how many characters are readable, how many are being    *)
(* edited, and the j-th character from r on.                               *)
(***************************************************************************)
EXTENDS Console, Integers, TLAPS

Avail == Minus(w, r)
Pending == Minus(e, w)
Char(j) == buf[(r + j) % INPUT_BUF]

\* The ring holds no more than it has room for, and a full ring is readable.
RingOK ==
  /\ buf \in [0..(INPUT_BUF - 1) -> Chars \cup {Nul}]
  /\ r \in 0..(Word - 1) /\ w \in 0..(Word - 1) /\ e \in 0..(Word - 1)
  /\ Avail + Pending <= INPUT_BUF
  /\ Avail + Pending = INPUT_BUF => Pending = 0

\* The line being edited has no end.
LineOK == \A j \in Avail..(Avail + Pending - 1) : Char(j) \notin EndsLine

\* Who sleeps has nothing to read; nobody wants more than it asked for.
ReadersOK ==
  /\ call \in [Procs -> {"none", "awake", "asleep"}]
  /\ target \in [Procs -> Nat] /\ n \in [Procs -> Nat]
  /\ \A p \in Procs : n[p] <= target[p]
  /\ \A p \in Procs : call[p] = "asleep" => r = w

IInv == RingOK /\ LineOK /\ ReadersOK /\ CursorOnScreen

-----------------------------------------------------------------------------
(* Indices.                                                                *)

\* Division with remainder.
LEMMA Division ==
  ASSUME NEW size \in Nat \ {0}, NEW a \in Nat
  PROVE  /\ a % size \in 0..(size - 1) /\ a \div size \in Nat
         /\ a = size * (a \div size) + (a % size)
<1>1. a % size \in 0..(size - 1)
  OBVIOUS
<1>2. a \div size \in Nat
  OBVIOUS
<1>3. a = size * (a \div size) + (a % size)
  OBVIOUS
<1>4. QED
  BY <1>1, <1>2, <1>3

\* A multiple of size below size is zero.
LEMMA SmallMultiple ==
  ASSUME NEW size \in Nat \ {0}, NEW k \in Int, size * k < size, size * k > 0 - size
  PROVE  k = 0
<1>1. CASE k >= 1
  <2>1. size * k >= size
    BY <1>1
  <2>2. QED
    BY <2>1
<1>2. CASE k <= 0 - 1
  <2>1. size * k <= 0 - size
    BY <1>2
  <2>2. QED
    BY <2>1
<1>3. QED
  BY <1>1, <1>2

\* Numbers that differ by a multiple of size have the same remainder.
LEMMA ModUnique ==
  ASSUME NEW size \in Nat \ {0}, NEW a \in Nat, NEW q \in Int, NEW rem \in 0..(size - 1),
         a = size * q + rem
  PROVE  a % size = rem
<1>1. a = size * (a \div size) + (a % size) /\ a % size \in 0..(size - 1) /\ a \div size \in Nat
  BY Division, ZenonT(40)
<1>2. PICK d \in Nat, f \in 0..(size - 1) : d = a \div size /\ f = a % size /\ a = size * d + f
  BY <1>1
<1>3. size * (q - d) = size * q - size * d
  OBVIOUS
<1>4. size * (q - d) = f - rem
  <2> DEFINE x == size * q
             y == size * d
             z == size * (q - d)
  <2>1. x \in Int /\ y \in Int /\ z = x - y /\ a = x + rem /\ a = y + f
    BY <1>2, <1>3
  <2> HIDE DEF x, y, z
  <2>2. z = f - rem
    BY <2>1
  <2>3. QED
    BY <2>2 DEF z
<1>5. q - d = 0
  BY <1>4, SmallMultiple
<1>6. QED
  BY <1>2, <1>4, <1>5

\* A counter below twice the range comes back once.
LEMMA WordMod ==
  ASSUME NEW a \in 0..(2 * Word - 1)
  PROVE  a % Word = IF a < Word THEN a ELSE a - Word
<1>1. Word \in Nat \ {0}
  BY ConsoleAssumption
<1>2. CASE a < Word
  <2>1. a = Word * 0 + a /\ a \in 0..(Word - 1) /\ a \in Nat
    BY <1>1, <1>2
  <2>2. QED
    BY <1>1, <1>2, <2>1, ModUnique
<1>3. CASE ~(a < Word)
  <2>1. a = Word * 1 + (a - Word) /\ a - Word \in 0..(Word - 1) /\ a \in Nat
    BY <1>1, <1>3
  <2>2. QED
    BY <1>1, <1>3, <2>1, ModUnique
<1>4. QED
  BY <1>2, <1>3

\* The wrap of a counter does not move its place in the ring.
LEMMA RingWrap ==
  ASSUME NEW a \in Nat, a >= Word
  PROVE  (a - Word) % INPUT_BUF = a % INPUT_BUF
<1>1. INPUT_BUF \in Nat \ {0} /\ Word \in Nat
  BY ConsoleAssumption
<1>2. PICK m \in Nat : Word = INPUT_BUF * m
  <2>1. /\ Word \div INPUT_BUF \in Nat
        /\ Word = INPUT_BUF * (Word \div INPUT_BUF) + (Word % INPUT_BUF)
    BY <1>1, Division
  <2>2. Word % INPUT_BUF = 0
    BY ConsoleAssumption
  <2> DEFINE m == Word \div INPUT_BUF
  <2>3. m \in Nat /\ Word = INPUT_BUF * m + 0
    BY <2>1, <2>2
  <2> HIDE DEF m
  <2>4. Word = INPUT_BUF * m
    BY <1>1, <2>3
  <2>5. QED
    BY <2>3, <2>4
<1>3. PICK q \in Nat, rem \in 0..(INPUT_BUF - 1) : a = INPUT_BUF * q + rem /\ rem = a % INPUT_BUF
  BY <1>1, Division, ZenonT(40)
<1>4. a - Word = INPUT_BUF * (q - m) + rem
  <2>1. INPUT_BUF * (q - m) = INPUT_BUF * q - INPUT_BUF * m
    BY <1>1
  <2>2. QED
    BY <1>2, <1>3, <2>1, <1>1
<1>5. a - Word \in Nat
  BY <1>1
<1>6. PICK c \in Nat, k \in Int : c = a - Word /\ k = q - m
  BY <1>5
<1>7. c = INPUT_BUF * k + rem
  BY <1>4, <1>6
<1>8. c % INPUT_BUF = rem
  BY <1>1, <1>7, ModUnique
<1>9. QED
  BY <1>3, <1>6, <1>8, ZenonT(40)

\* Places less than the ring's size apart are different.
LEMMA RingApart ==
  ASSUME NEW a \in Nat, NEW b \in Nat, a < b, b - a < INPUT_BUF
  PROVE  a % INPUT_BUF # b % INPUT_BUF
<1>1. INPUT_BUF \in Nat \ {0}
  BY ConsoleAssumption
<1>2. PICK d \in Nat, f \in Nat : /\ a = INPUT_BUF * d + (a % INPUT_BUF)
                                  /\ b = INPUT_BUF * f + (b % INPUT_BUF)
                                  /\ a % INPUT_BUF \in Nat /\ b % INPUT_BUF \in Nat
  <2>1. /\ a \div INPUT_BUF \in Nat /\ a % INPUT_BUF \in Nat
        /\ a = INPUT_BUF * (a \div INPUT_BUF) + (a % INPUT_BUF)
    BY <1>1, Division
  <2>2. /\ b \div INPUT_BUF \in Nat /\ b % INPUT_BUF \in Nat
        /\ b = INPUT_BUF * (b \div INPUT_BUF) + (b % INPUT_BUF)
    BY <1>1, Division
  <2>3. QED
    BY <2>1, <2>2, ZenonT(40)
<1>3. SUFFICES ASSUME a % INPUT_BUF = b % INPUT_BUF PROVE FALSE
  OBVIOUS
<1>4. INPUT_BUF * (f - d) = INPUT_BUF * f - INPUT_BUF * d
  BY <1>1
<1>5. INPUT_BUF * (f - d) = b - a
  BY <1>1, <1>2, <1>3, <1>4
<1>6. f - d = 0
  BY <1>1, <1>5, SmallMultiple
<1>7. QED
  BY <1>1, <1>5, <1>6

\* Sums and differences of indices, without remainders.
LEMMA PlusIs ==
  ASSUME NEW x \in 0..(Word - 1), NEW k \in 0..(Word - 1)
  PROVE  /\ Plus(x, k) = IF x + k < Word THEN x + k ELSE x + k - Word
         /\ Plus(x, k) \in 0..(Word - 1)
         /\ Plus(x, k) % INPUT_BUF = (x + k) % INPUT_BUF
<1>1. Word \in Nat /\ x + k \in 0..(2 * Word - 1)
  BY ConsoleAssumption
<1>2. Plus(x, k) = IF x + k < Word THEN x + k ELSE x + k - Word
  BY <1>1, WordMod DEF Plus
<1>3. CASE x + k < Word
  BY <1>1, <1>2, <1>3
<1>4. CASE ~(x + k < Word)
  <2>1. x + k \in Nat /\ x + k >= Word /\ Plus(x, k) = x + k - Word
    BY <1>1, <1>2, <1>4
  <2>2. ((x + k) - Word) % INPUT_BUF = (x + k) % INPUT_BUF
    BY <2>1, RingWrap
  <2>3. QED
    BY <1>1, <1>2, <2>1, <2>2
<1>5. QED
  BY <1>3, <1>4

LEMMA MinusIs ==
  ASSUME NEW x \in 0..(Word - 1), NEW y \in 0..(Word - 1)
  PROVE  /\ Minus(x, y) = IF y <= x THEN x - y ELSE x + Word - y
         /\ Minus(x, y) \in 0..(Word - 1)
<1>1. Word \in Nat /\ x + Word - y \in 0..(2 * Word - 1)
  BY ConsoleAssumption
<1>2. QED
  BY <1>1, WordMod DEF Minus

\* How much is readable and edited, without remainders, and where the three indices
\* are from r on.
LEMMA Indices ==
  ASSUME RingOK
  PROVE  /\ INPUT_BUF \in Nat \ {0} /\ Word \in Nat /\ INPUT_BUF < Word
         /\ Avail \in 0..INPUT_BUF /\ Pending \in 0..INPUT_BUF
         /\ Avail + Pending \in 0..INPUT_BUF
         /\ w = Plus(r, Avail) /\ e = Plus(r, Avail + Pending) /\ e = Plus(w, Pending)
         /\ Minus(e, r) = Avail + Pending
         /\ r = w <=> Avail = 0
         /\ e = w <=> Pending = 0
<1>1. INPUT_BUF \in Nat \ {0} /\ Word \in Nat /\ INPUT_BUF < Word
  BY ConsoleAssumption
<1>2. /\ r \in 0..(Word - 1) /\ w \in 0..(Word - 1) /\ e \in 0..(Word - 1)
      /\ Avail + Pending <= INPUT_BUF
  BY DEF RingOK
<1>3. /\ Avail = IF r <= w THEN w - r ELSE w + Word - r
      /\ Pending = IF w <= e THEN e - w ELSE e + Word - w
      /\ Minus(e, r) = IF r <= e THEN e - r ELSE e + Word - r
  BY <1>2, MinusIs DEF Avail, Pending
<1>4. /\ Avail \in 0..INPUT_BUF /\ Pending \in 0..INPUT_BUF
      /\ Avail + Pending \in 0..INPUT_BUF
  BY <1>1, <1>2, <1>3
<1>5. /\ Avail \in 0..(Word - 1) /\ Pending \in 0..(Word - 1)
      /\ Avail + Pending \in 0..(Word - 1)
  BY <1>1, <1>4
<1>6. /\ Plus(r, Avail) = IF r + Avail < Word THEN r + Avail ELSE r + Avail - Word
      /\ Plus(w, Pending) = IF w + Pending < Word THEN w + Pending ELSE w + Pending - Word
      /\ Plus(r, Avail + Pending) = IF r + (Avail + Pending) < Word THEN r + (Avail + Pending)
                                    ELSE r + (Avail + Pending) - Word
  BY <1>2, <1>5, PlusIs, ZenonT(40)
<1>7. QED
  BY <1>1, <1>2, <1>3, <1>4, <1>6

\* The characters that the two parts of the ring have.
LEMMA RingsAre ==
  ASSUME RingOK
  PROVE  /\ \A k \in 1..Avail : At(Plus(r, k - 1)) = Char(k - 1)
         /\ \A k \in 1..Pending : At(Plus(w, k - 1)) = Char(Avail + (k - 1))
<1>1. /\ INPUT_BUF \in Nat \ {0} /\ Word \in Nat /\ INPUT_BUF < Word
      /\ Avail \in 0..INPUT_BUF /\ Pending \in 0..INPUT_BUF
      /\ Avail + Pending \in 0..INPUT_BUF /\ w = Plus(r, Avail)
  BY Indices
<1>2. r \in 0..(Word - 1) /\ w \in 0..(Word - 1)
  BY DEF RingOK
<1>3. ASSUME NEW k \in 1..Avail PROVE At(Plus(r, k - 1)) = Char(k - 1)
  <2>1. k - 1 \in 0..(Word - 1)
    BY <1>1
  <2>2. Plus(r, k - 1) % INPUT_BUF = (r + (k - 1)) % INPUT_BUF
    BY <1>2, <2>1, PlusIs
  <2>3. QED
    BY <2>2 DEF At, Char
<1>4. ASSUME NEW k \in 1..Pending PROVE At(Plus(w, k - 1)) = Char(Avail + (k - 1))
  <2>1. /\ k - 1 \in 0..(Word - 1) /\ Avail \in 0..(Word - 1)
        /\ Avail + (k - 1) \in 0..(Word - 1)
    BY <1>1
  <2>2. PICK j \in 0..(Word - 1), a \in 0..(Word - 1), s \in 0..(Word - 1) :
          j = k - 1 /\ a = Avail /\ s = Avail + (k - 1) /\ s = a + j
    BY <1>1, <2>1
  <2>3. /\ Plus(w, j) = IF w + j < Word THEN w + j ELSE w + j - Word
        /\ w = IF r + a < Word THEN r + a ELSE r + a - Word
        /\ Plus(r, s) = IF r + s < Word THEN r + s ELSE r + s - Word
    BY <1>1, <1>2, <2>2, PlusIs, ZenonT(40)
  <2>4. Plus(w, j) = Plus(r, s)
    BY <1>1, <1>2, <2>2, <2>3
  <2>5. Plus(r, s) % INPUT_BUF = (r + s) % INPUT_BUF
    BY <1>2, <2>2, PlusIs
  <2>6. QED
    BY <2>2, <2>4, <2>5 DEF At, Char
<1>5. QED
  BY <1>3, <1>4

-----------------------------------------------------------------------------
(* The screen.                                                             *)

\* The rows above q.
LEMMA RowIs ==
  ASSUME NEW q \in Nat, NEW m \in Nat
  PROVE  /\ q \div COLS \in Nat /\ q % COLS \in 0..(COLS - 1)
         /\ q = COLS * (q \div COLS) + (q % COLS)
         /\ q < COLS * m <=> q \div COLS < m
<1>1. COLS \in Nat \ {0}
  BY ConsoleAssumption
<1>2. /\ q \div COLS \in Nat /\ q % COLS \in 0..(COLS - 1)
      /\ q = COLS * (q \div COLS) + (q % COLS)
  BY <1>1, Division, ZenonT(40)
<1>3. PICK d \in Nat, f \in 0..(COLS - 1) : d = q \div COLS /\ f = q % COLS /\ q = COLS * d + f
  BY <1>2
<1>4. CASE d < m
  <2>1. COLS * (d + 1) <= COLS * m /\ COLS * (d + 1) = COLS * d + COLS
    BY <1>1, <1>4
  <2>2. COLS * d \in Nat /\ COLS * m \in Nat
    BY <1>1
  <2>3. q < COLS * m
    BY <1>1, <1>3, <2>1, <2>2
  <2>4. QED
    BY <1>2, <1>3, <1>4, <2>3
<1>5. CASE d >= m
  <2>1. COLS * d >= COLS * m /\ COLS * d \in Nat /\ COLS * m \in Nat
    BY <1>1, <1>5
  <2>2. ~(q < COLS * m)
    BY <1>1, <1>3, <2>1
  <2>3. QED
    BY <1>2, <1>3, <1>5, <2>2
<1>6. QED
  BY <1>4, <1>5

\* Whatever cgaputc puts out, the cursor is above the last row afterwards.
LEMMA CursorMoves ==
  ASSUME CursorOnScreen, NEW c
  PROVE  consputc(pos, c) \in 0..(COLS * (ROWS - 1) - 1)
<1> DEFINE m == ROWS - 1
           last == COLS * m
<1>1. COLS \in Nat \ {0} /\ m \in Nat /\ m > 1 /\ last \in Nat
  BY ConsoleAssumption
<1>2. pos \in Nat /\ pos < last
  BY <1>1 DEF CursorOnScreen
<1>3. last >= COLS
  BY <1>1
<1> HIDE DEF m
<1>4. ASSUME NEW q \in Nat, q <= last PROVE Scrolled(q) \in 0..(last - 1)
  <2>1. q < last <=> q \div COLS < m
    BY <1>1, RowIs
  <2>2. q \div COLS \in Nat
    BY <1>1, RowIs
  <2>3. Scrolled(q) = IF q \div COLS >= m THEN q - COLS ELSE q
    BY DEF Scrolled, m
  <2> HIDE DEF last
  <2>4. QED
    BY <1>1, <1>3, <1>4, <2>1, <2>2, <2>3
<1>5. pos + COLS - (pos % COLS) \in Nat /\ pos + COLS - (pos % COLS) <= last
  <2>1. PICK d \in Nat, f \in 0..(COLS - 1) :
          /\ d = pos \div COLS /\ f = pos % COLS /\ pos = COLS * d + f /\ d < m
    BY <1>1, <1>2, RowIs
  <2>2. COLS * (d + 1) <= COLS * m /\ COLS * (d + 1) = COLS * d + COLS /\ COLS * d \in Nat
    BY <1>1, <2>1
  <2>3. QED
    BY <1>1, <1>2, <2>1, <2>2
<1> HIDE DEF last
<1>6. PICK q \in Nat : q <= last /\ consputc(pos, c) = Scrolled(q)
  <2>1. CASE c = "\n"
    BY <1>5, <2>1 DEF consputc
  <2>2. CASE c = "BACKSPACE"
    BY <1>1, <1>2, <2>2 DEF consputc
  <2>3. CASE c # "\n" /\ c # "BACKSPACE"
    BY <1>1, <1>2, <2>3 DEF consputc
  <2>4. QED
    BY <2>1, <2>2, <2>3
<1>7. consputc(pos, c) \in 0..(last - 1)
  BY <1>4, <1>6
<1>8. QED
  BY <1>7 DEF last, m

-----------------------------------------------------------------------------
(* What the three users of the ring make of it.                            *)

\* A character is counted.
LEMMA Counted ==
  ASSUME RingOK, HasRoom, e' = Plus(e, 1), r' = r, w' \in {w, Plus(e, 1)}
  PROVE  /\ w' \in 0..(Word - 1) /\ e' \in 0..(Word - 1)
         /\ Avail + Pending < INPUT_BUF
         /\ w' = w => Avail' = Avail /\ Pending' = Pending + 1
         /\ w' = Plus(e, 1) => Avail' = Avail + Pending + 1 /\ Pending' = 0
         /\ Plus(e, 1) = Plus(r, INPUT_BUF) <=> Avail + Pending + 1 = INPUT_BUF
<1>1. /\ INPUT_BUF \in Nat \ {0} /\ Word \in Nat /\ INPUT_BUF < Word
      /\ Avail \in 0..INPUT_BUF /\ Pending \in 0..INPUT_BUF
      /\ e = Plus(r, Avail + Pending) /\ Minus(e, r) = Avail + Pending
  BY Indices
<1>2. r \in 0..(Word - 1) /\ w \in 0..(Word - 1) /\ e \in 0..(Word - 1)
  BY DEF RingOK
<1>3. Avail + Pending < INPUT_BUF
  BY <1>1 DEF HasRoom
<1>4. PICK t \in 0..(Word - 1) : t = Avail + Pending
  BY <1>1, <1>3
<1>5. e = IF r + t < Word THEN r + t ELSE r + t - Word
  BY <1>1, <1>2, <1>4, PlusIs, ZenonT(40)
<1>6. /\ Plus(e, 1) = IF e + 1 < Word THEN e + 1 ELSE e + 1 - Word
      /\ Plus(e, 1) \in 0..(Word - 1)
      /\ Plus(r, INPUT_BUF) = IF r + INPUT_BUF < Word THEN r + INPUT_BUF
                              ELSE r + INPUT_BUF - Word
  <2>1. 1 \in 0..(Word - 1) /\ INPUT_BUF \in 0..(Word - 1)
    BY <1>1
  <2>2. QED
    BY <1>2, <2>1, PlusIs, ZenonT(40)
<1>7. /\ Avail = IF r <= w THEN w - r ELSE w + Word - r
      /\ Pending = IF w <= e THEN e - w ELSE e + Word - w
  BY <1>2, MinusIs DEF Avail, Pending
<1>8. /\ Avail' = IF r <= w' THEN w' - r ELSE w' + Word - r
      /\ Pending' = IF w' <= e' THEN e' - w' ELSE e' + Word - w'
  BY <1>2, <1>6, MinusIs, ZenonT(40) DEF Avail, Pending, Minus
<1>9. ASSUME w' = w PROVE Avail' = Avail /\ Pending' = Pending + 1
  BY <1>1, <1>2, <1>3, <1>6, <1>7, <1>8, <1>9
<1>10. ASSUME w' = Plus(e, 1) PROVE Avail' = Avail + Pending + 1 /\ Pending' = 0
  BY <1>1, <1>2, <1>3, <1>4, <1>5, <1>6, <1>8, <1>10
<1>11. Plus(e, 1) = Plus(r, INPUT_BUF) <=> Avail + Pending + 1 = INPUT_BUF
  BY <1>1, <1>2, <1>3, <1>4, <1>5, <1>6
<1>12. QED
  BY <1>2, <1>3, <1>6, <1>9, <1>10, <1>11

\* The place of the j-th character; places of different characters are different.
LEMMA Places ==
  ASSUME RingOK, NEW j \in 0..(INPUT_BUF - 1), NEW k \in 0..(INPUT_BUF - 1)
  PROVE  /\ (r + j) % INPUT_BUF \in 0..(INPUT_BUF - 1)
         /\ (r + j) % INPUT_BUF = (r + k) % INPUT_BUF => j = k
<1>1. INPUT_BUF \in Nat \ {0} /\ Word \in Nat /\ r \in 0..(Word - 1)
  BY ConsoleAssumption DEF RingOK
<1>2. PICK a \in Nat, b \in Nat : a = r + j /\ b = r + k
  BY <1>1
<1>3. a % INPUT_BUF \in 0..(INPUT_BUF - 1)
  BY <1>1, Division
<1>4. CASE j < k
  <2>1. a < b /\ b - a < INPUT_BUF
    BY <1>1, <1>2, <1>4
  <2>2. QED
    BY <1>2, <1>3, <2>1, RingApart
<1>5. CASE k < j
  <2>1. b < a /\ a - b < INPUT_BUF
    BY <1>1, <1>2, <1>5
  <2>2. QED
    BY <1>2, <1>3, <2>1, RingApart
<1>6. QED
  BY <1>1, <1>2, <1>3, <1>4, <1>5

\* It is stored behind the line, where nothing else is.
LEMMA Stored ==
  ASSUME RingOK, HasRoom, NEW c \in Chars, buf' = [buf EXCEPT ![e % INPUT_BUF] = c], r' = r
  PROVE  /\ buf' \in [0..(INPUT_BUF - 1) -> Chars \cup {Nul}]
         /\ \A j \in 0..(INPUT_BUF - 1) :
              Char(j)' = IF j = Avail + Pending THEN c ELSE Char(j)
<1>1. PICK t \in 0..(INPUT_BUF - 1) : t = Avail + Pending /\ e = Plus(r, t) /\ t \in 0..(Word - 1)
  BY Indices DEF HasRoom
<1>2. r \in 0..(Word - 1) /\ buf \in [0..(INPUT_BUF - 1) -> Chars \cup {Nul}]
  BY DEF RingOK
<1>3. e % INPUT_BUF = (r + t) % INPUT_BUF
  BY <1>1, <1>2, PlusIs
<1>4. ASSUME NEW j \in 0..(INPUT_BUF - 1) PROVE Char(j)' = IF j = t THEN c ELSE Char(j)
  <2> DEFINE x == (r + j) % INPUT_BUF
             y == (r + t) % INPUT_BUF
  <2>1. x \in 0..(INPUT_BUF - 1) /\ (x = y <=> j = t)
    BY Places
  <2>2. Char(j)' = buf'[x] /\ Char(j) = buf[x] /\ buf' = [buf EXCEPT ![y] = c]
    BY <1>3, ZenonT(40) DEF Char
  <2> HIDE DEF x, y
  <2>3. QED
    BY <1>2, <2>1, <2>2
<1>5. QED
  BY <1>1, <1>2, <1>4, ZenonT(40)

\* Backspace and kill take back the end of the line.
LEMMA TakenBack ==
  ASSUME RingOK, NEW k \in 0..Pending, e' = Minus(e, k), UNCHANGED <<buf, r, w>>
  PROVE  /\ e' \in 0..(Word - 1) /\ Avail' = Avail /\ Pending' = Pending - k
         /\ \A j : Char(j)' = Char(j)
<1>1. /\ Word \in Nat /\ INPUT_BUF < Word /\ INPUT_BUF \in Nat /\ Pending \in 0..INPUT_BUF
  BY Indices
<1>2. r \in 0..(Word - 1) /\ w \in 0..(Word - 1) /\ e \in 0..(Word - 1)
  BY DEF RingOK
<1>3. k \in 0..(Word - 1)
  BY <1>1
<1>4. e' = (IF k <= e THEN e - k ELSE e + Word - k) /\ e' \in 0..(Word - 1)
  BY <1>2, <1>3, MinusIs, ZenonT(40)
<1>5. /\ Pending = IF w <= e THEN e - w ELSE e + Word - w
      /\ Pending' = IF w <= e' THEN e' - w ELSE e' + Word - w
  BY <1>2, <1>4, MinusIs, ZenonT(40) DEF Pending, Minus
<1>6. Pending' = Pending - k
  BY <1>1, <1>2, <1>4, <1>5
<1>7. QED
  BY <1>4, <1>6 DEF Avail, Minus, Char

\* A reader takes the front of what is readable.
LEMMA TakenOut ==
  ASSUME RingOK, NEW k \in 0..Avail, r' = Plus(r, k), UNCHANGED <<buf, w, e>>
  PROVE  /\ r' \in 0..(Word - 1) /\ Avail' = Avail - k /\ Pending' = Pending
         /\ \A j \in Nat : Char(j)' = Char(k + j)
<1>1. /\ Word \in Nat /\ INPUT_BUF < Word /\ INPUT_BUF \in Nat \ {0} /\ Avail \in 0..INPUT_BUF
  BY Indices
<1>2. r \in 0..(Word - 1) /\ w \in 0..(Word - 1) /\ e \in 0..(Word - 1)
  BY DEF RingOK
<1>3. k \in 0..(Word - 1)
  BY <1>1
<1>4. r' = (IF r + k < Word THEN r + k ELSE r + k - Word) /\ r' \in 0..(Word - 1)
  BY <1>2, <1>3, PlusIs, ZenonT(40)
<1>5. /\ Avail = IF r <= w THEN w - r ELSE w + Word - r
      /\ Avail' = IF r' <= w THEN w - r' ELSE w + Word - r'
  BY <1>2, <1>4, MinusIs, ZenonT(40) DEF Avail, Minus
<1>6. Avail' = Avail - k
  BY <1>1, <1>2, <1>4, <1>5
<1>7. ASSUME NEW j \in Nat PROVE Char(j)' = Char(k + j)
  <2>1. Char(j)' = buf[(r' + j) % INPUT_BUF] /\ Char(k + j) = buf[(r + (k + j)) % INPUT_BUF]
    BY DEF Char
  <2>2. PICK a \in Nat : a = r + (k + j)
    BY <1>1, <1>2
  <2>3. CASE r + k < Word
    BY <1>2, <1>4, <2>1, <2>3
  <2>4. CASE ~(r + k < Word)
    <3>1. a >= Word /\ r' + j = a - Word
      BY <1>1, <1>2, <1>4, <2>2, <2>4
    <3>2. (a - Word) % INPUT_BUF = a % INPUT_BUF
      BY <3>1, RingWrap
    <3>3. QED
      BY <2>1, <2>2, <3>1, <3>2
  <2>5. QED
    BY <2>3, <2>4
<1>8. QED
  BY <1>4, <1>6, <1>7 DEF Pending, Minus

-----------------------------------------------------------------------------
(* The invariant is inductive.                                             *)

LEMMA InitInv == Init => IInv
<1> SUFFICES ASSUME Init PROVE IInv
  OBVIOUS
<1>1. INPUT_BUF \in Nat \ {0} /\ Word \in Nat \ {0} /\ COLS \in Nat \ {0} /\ ROWS \in Nat /\ ROWS > 2
  BY ConsoleAssumption
<1>2. r = 0 /\ w = 0 /\ e = 0 /\ 0 \in 0..(Word - 1)
  BY <1>1 DEF Init
<1>3. Avail = 0 /\ Pending = 0
  BY <1>2, MinusIs DEF Avail, Pending
<1>4. RingOK
  BY <1>1, <1>2, <1>3 DEF RingOK, Init
<1>5. LineOK
  BY <1>3 DEF LineOK
<1>6. ReadersOK
  BY DEF ReadersOK, Init
<1>7. CursorOnScreen
  <2>1. COLS * (ROWS - 1) >= 1
    BY <1>1
  <2>2. QED
    BY <1>1, <2>1 DEF CursorOnScreen, Init
<1>8. QED
  BY <1>4, <1>5, <1>6, <1>7 DEF IInv

\* A step that leaves the input alone.
LEMMA SameInput ==
  ASSUME RingOK, LineOK, UNCHANGED input
  PROVE  RingOK' /\ LineOK'
<1>1. UNCHANGED <<buf, r, w, e>>
  BY DEF input
<1>2. Avail' = Avail /\ Pending' = Pending /\ \A j : Char(j)' = Char(j)
  BY <1>1 DEF Avail, Pending, Minus, Char
<1>3. QED
  BY <1>1, <1>2 DEF RingOK, LineOK

LEMMA TypedInv ==
  ASSUME IInv, NEW c \in Chars, typed(c)
  PROVE  IInv'
<1>0. RingOK /\ LineOK /\ ReadersOK /\ CursorOnScreen
  BY DEF IInv
<1>1. /\ HasRoom /\ buf' = [buf EXCEPT ![e % INPUT_BUF] = c] /\ e' = Plus(e, 1) /\ r' = r
      /\ pos' = consputc(pos, c) /\ UNCHANGED <<target, n>>
  BY DEF typed
<1>2. \/ LineDone(c) /\ w' = Plus(e, 1) /\ call' = wakeup
      \/ ~LineDone(c) /\ w' = w /\ call' = call
  BY DEF typed, Committed
<1>3. /\ w' \in 0..(Word - 1) /\ e' \in 0..(Word - 1) /\ r' \in 0..(Word - 1)
      /\ Avail + Pending < INPUT_BUF
      /\ w' = w => Avail' = Avail /\ Pending' = Pending + 1
      /\ w' = Plus(e, 1) => Avail' = Avail + Pending + 1 /\ Pending' = 0
      /\ Plus(e, 1) = Plus(r, INPUT_BUF) <=> Avail + Pending + 1 = INPUT_BUF
  BY <1>0, <1>1, <1>2, Counted DEF RingOK
<1>4. /\ buf' \in [0..(INPUT_BUF - 1) -> Chars \cup {Nul}]
      /\ \A j \in 0..(INPUT_BUF - 1) : Char(j)' = IF j = Avail + Pending THEN c ELSE Char(j)
  BY <1>0, <1>1, Stored, ZenonT(40)
<1>5. /\ INPUT_BUF \in Nat /\ Avail \in 0..INPUT_BUF /\ Pending \in 0..INPUT_BUF
  BY <1>0, Indices
<1>6. RingOK' /\ LineOK'
  <2>1. CASE LineDone(c) /\ w' = Plus(e, 1)
    BY <1>3, <1>4, <1>5, <2>1 DEF RingOK, LineOK
  <2>2. CASE ~LineDone(c) /\ w' = w
    <3>1. Avail' = Avail /\ Pending' = Pending + 1 /\ Avail + Pending + 1 # INPUT_BUF /\ c \notin EndsLine
      BY <1>3, <2>2 DEF LineDone
    <3>2. RingOK'
      BY <1>3, <1>4, <1>5, <3>1 DEF RingOK
    <3>3. ASSUME NEW j \in Avail'..(Avail' + Pending' - 1) PROVE Char(j)' \notin EndsLine
      <4>1. j \in 0..(INPUT_BUF - 1) /\ (j # Avail + Pending => j \in Avail..(Avail + Pending - 1))
        BY <1>3, <1>5, <3>1
      <4>2. QED
        BY <1>0, <1>4, <3>1, <4>1 DEF LineOK
    <3>4. QED
      BY <3>2, <3>3 DEF LineOK
  <2>3. QED
    BY <1>2, <2>1, <2>2
<1>7. ReadersOK'
  BY <1>0, <1>1, <1>2 DEF ReadersOK, wakeup
<1>8. CursorOnScreen'
  BY <1>0, <1>1, CursorMoves DEF CursorOnScreen
<1>9. QED
  BY <1>6, <1>7, <1>8 DEF IInv

\* Backspace and kill.
LEMMA TakenBackInv ==
  ASSUME RingOK, LineOK, NEW k \in 0..Pending, e' = Minus(e, k), UNCHANGED <<buf, r, w>>
  PROVE  RingOK' /\ LineOK'
<1>1. /\ e' \in 0..(Word - 1) /\ Avail' = Avail /\ Pending' = Pending - k
      /\ \A j : Char(j)' = Char(j)
  BY TakenBack
<1>2. INPUT_BUF \in Nat /\ Avail \in 0..INPUT_BUF /\ Pending \in 0..INPUT_BUF
  BY Indices
<1>3. QED
  BY <1>1, <1>2 DEF RingOK, LineOK

\* How many characters a reader takes: ^D may stay.
LEMMA ReadTakes ==
  ASSUME RingOK, NEW p \in Procs, consoleread(p)
  PROVE  \E k \in 1..Avail :
           /\ \A j \in 1..(k - 1) : ~Stops(p, j)
           /\ k = Avail \/ Stops(p, k)
           /\ r' = Plus(r, IF KeepsEof(p, k) THEN k - 1 ELSE k)
           /\ IF Stops(p, k) THEN Return(p)
              ELSE n' = [n EXCEPT ![p] = @ - k] /\ UNCHANGED <<call, target>>
  BY DEF consoleread, Takes, Avail

LEMMA ReadInv ==
  ASSUME IInv, NEW p \in Procs, consoleread(p)
  PROVE  IInv'
<1>0. RingOK /\ LineOK /\ ReadersOK /\ CursorOnScreen
  BY DEF IInv
<1>1. /\ call[p] = "awake" /\ n[p] > 0 /\ r # w /\ UNCHANGED <<buf, w, e, pos>>
  BY DEF consoleread
<1>2. INPUT_BUF \in Nat /\ Avail \in 0..INPUT_BUF /\ Pending \in 0..INPUT_BUF
  BY <1>0, Indices
<1>3. PICK k \in 1..Avail :
        /\ \A j \in 1..(k - 1) : ~Stops(p, j)
        /\ k = Avail \/ Stops(p, k)
        /\ r' = Plus(r, IF KeepsEof(p, k) THEN k - 1 ELSE k)
        /\ IF Stops(p, k) THEN Return(p)
           ELSE n' = [n EXCEPT ![p] = @ - k] /\ UNCHANGED <<call, target>>
  BY <1>0, ReadTakes
<1>4. PICK m \in 0..Avail : r' = Plus(r, m)
  BY <1>2, <1>3
<1>5. /\ r' \in 0..(Word - 1) /\ Avail' = Avail - m /\ Pending' = Pending
      /\ \A j \in Nat : Char(j)' = Char(m + j)
  BY <1>0, <1>1, <1>4, TakenOut
<1>6. RingOK' /\ LineOK'
  <2>1. RingOK'
    <3>1. /\ Avail + Pending <= INPUT_BUF /\ w \in 0..(Word - 1) /\ e \in 0..(Word - 1)
          /\ Avail + Pending = INPUT_BUF => Pending = 0
          /\ buf \in [0..(INPUT_BUF - 1) -> Chars \cup {Nul}]
      BY <1>0 DEF RingOK
    <3>2. /\ Avail' + Pending' <= INPUT_BUF
          /\ Avail' + Pending' = INPUT_BUF => Pending' = 0
      <4>1. Avail' = Avail - m /\ Pending' = Pending /\ m \in 0..Avail
        BY <1>5
      <4>2. QED
        BY <1>2, <3>1, <4>1
    <3>3. QED
      BY <1>1, <1>5, <3>1, <3>2 DEF RingOK
  <2>2. ASSUME NEW j \in Avail'..(Avail' + Pending' - 1) PROVE Char(j)' \notin EndsLine
    <3>1. j \in Nat /\ m + j \in Avail..(Avail + Pending - 1)
      BY <1>2, <1>4, <1>5
    <3>2. QED
      BY <1>0, <1>5, <3>1 DEF LineOK
  <2>3. QED
    BY <2>1, <2>2 DEF LineOK
<1>7. n[p] - k \in Nat \/ Stops(p, k)
  <2>1. CASE k <= n[p]
    BY <1>0, <1>2, <1>3, <2>1 DEF ReadersOK
  <2>2. CASE k > n[p]
    <3>1. n[p] \in 1..(k - 1)
      BY <1>0, <1>1, <1>2, <1>3, <2>2 DEF ReadersOK
    <3>2. QED
      BY <1>3, <3>1 DEF Stops
  <2>3. QED
    BY <1>0, <1>2, <2>1, <2>2 DEF ReadersOK
<1>8. \A q \in Procs : call[q] # "asleep"
  BY <1>0, <1>1 DEF ReadersOK
<1>9. ReadersOK'
  <2>1. CASE Stops(p, k)
    BY <1>0, <1>3, <1>8, <2>1 DEF ReadersOK, Return
  <2>2. CASE ~Stops(p, k)
    BY <1>0, <1>2, <1>3, <1>7, <1>8, <2>2 DEF ReadersOK
  <2>3. QED
    BY <2>1, <2>2
<1>10. QED
  BY <1>0, <1>1, <1>6, <1>9 DEF IInv, CursorOnScreen

\* Steps that leave the input alone.
LEMMA OtherInv ==
  ASSUME IInv, UNCHANGED input, CursorOnScreen', ReadersOK'
  PROVE  IInv'
  BY SameInput DEF IInv

LEMMA LockedInv ==
  ASSUME IInv, Locked
  PROVE  IInv'
<1>0. RingOK /\ LineOK /\ ReadersOK /\ CursorOnScreen
  BY DEF IInv
<1>1. ASSUME backspace PROVE IInv'
  <2>1. 1 \in 0..Pending
    BY <1>0, <1>1, Indices DEF backspace, MayErase
  <2>2. RingOK' /\ LineOK'
    BY <1>0, <1>1, <2>1, TakenBackInv DEF backspace
  <2>3. CursorOnScreen'
    BY <1>0, <1>1, CursorMoves DEF backspace, CursorOnScreen
  <2>4. QED
    BY <1>0, <1>1, <2>2, <2>3 DEF IInv, backspace, reads, ReadersOK
<1>2. ASSUME kill_line PROVE IInv'
  <2>1. PICK k \in 0..Pending : e' = Minus(e, k)
    BY <1>2 DEF kill_line, Pending
  <2>2. RingOK' /\ LineOK'
    BY <1>0, <1>2, <2>1, TakenBackInv DEF kill_line
  <2>3. QED
    BY <1>0, <1>2, <2>2 DEF IInv, kill_line, reads, ReadersOK, CursorOnScreen
<1>3. ASSUME shift_C PROVE IInv'
  BY <1>0, <1>3, OtherInv DEF shift_C, reads, ReadersOK, CursorOnScreen, input
<1>4. ASSUME consoleclear PROVE IInv'
  <2>1. COLS * (ROWS - 1) >= 1 /\ COLS * (ROWS - 1) \in Nat
    BY ConsoleAssumption
  <2>2. CursorOnScreen'
    BY <1>4, <2>1 DEF consoleclear, CursorOnScreen
  <2>3. QED
    BY <1>0, <1>4, <2>2, OtherInv DEF consoleclear, reads, ReadersOK, input
<1>5. ASSUME NEW p \in Procs, NEW s \in Outputs, consolewrite(p, s) PROVE IInv'
  BY <1>0, <1>5, OtherInv DEF consolewrite, reads, ReadersOK, CursorOnScreen, input
<1>6. ASSUME NEW p \in Procs, consoleread_ends(p) PROVE IInv'
  <2>1. ReadersOK'
    BY <1>0, <1>6 DEF consoleread_ends, Return, ReadersOK, input
  <2>2. QED
    BY <1>0, <1>6, <2>1, OtherInv DEF consoleread_ends, CursorOnScreen
<1>7. ASSUME NEW p \in Procs, consoleread_sleeps(p) PROVE IInv'
  <2>1. ReadersOK'
    BY <1>0, <1>7 DEF consoleread_sleeps, ReadersOK, input
  <2>2. QED
    BY <1>0, <1>7, <2>1, OtherInv DEF consoleread_sleeps, CursorOnScreen
<1>8. QED
  BY <1>1, <1>2, <1>3, <1>4, <1>5, <1>6, <1>7, TypedInv, ReadInv DEF Locked

LEMMA StepInv ==
  ASSUME IInv, [Next]_vars
  PROVE  IInv'
<1>0. RingOK /\ LineOK /\ ReadersOK /\ CursorOnScreen
  BY DEF IInv
<1>1. ASSUME prints PROVE IInv'
  <2>1. CursorOnScreen'
    BY <1>0, <1>1, CursorMoves DEF prints, CursorOnScreen
  <2>2. QED
    BY <1>0, <1>1, <2>1, OtherInv DEF prints, reads, ReadersOK, input
<1>2. ASSUME NEW p \in Procs, kill(p) PROVE IInv'
  <2>1. ReadersOK'
    BY <1>0, <1>2 DEF kill, ReadersOK, input
  <2>2. QED
    BY <1>0, <1>2, <2>1, OtherInv DEF kill, CursorOnScreen
<1>3. ASSUME NEW p \in Procs, NEW size \in Sizes, read(p, size) PROVE IInv'
  <2>1. ReadersOK'
    BY <1>0, <1>3, ConsoleAssumption DEF read, ReadersOK, input
  <2>2. QED
    BY <1>0, <1>3, <2>1, OtherInv DEF read, CursorOnScreen
<1>4. ASSUME UNCHANGED vars PROVE IInv'
  BY <1>0, <1>4, OtherInv DEF vars, reads, input, ReadersOK, CursorOnScreen
<1>5. QED
  BY <1>1, <1>2, <1>3, <1>4, LockedInv DEF Next

LEMMA Inductive == Spec => []IInv
<1>1. IInv /\ [Next]_vars => IInv'
  BY StepInv
<1>2. QED
  BY InitInv, <1>1, PTL DEF Spec

\* cgaputc: whatever is echoed, printed, erased and cleared, the cursor stays above
\* the last row, so that "pos under/overflow" never comes.
THEOREM CursorStaysOnScreen == Spec => []CursorOnScreen
<1>1. IInv => CursorOnScreen
  BY DEF IInv
<1>2. QED
  BY Inductive, <1>1, PTL

\* consoleintr and consoleread: no reader sleeps while there is something to read,
\* and a full ring has something to read.
THEOREM SleepersHaveNothing == Spec => []SleeperHasNothing
<1>1. IInv => SleeperHasNothing
  <2> SUFFICES ASSUME IInv PROVE SleeperHasNothing
    OBVIOUS
  <2>1. RingOK /\ ReadersOK
    BY DEF IInv
  <2>2. ~HasRoom => r # w
    BY <2>1, Indices DEF HasRoom, RingOK
  <2>3. QED
    BY <2>1, <2>2 DEF SleeperHasNothing, ReadersOK
<1>2. QED
  BY Inductive, <1>1, PTL

-----------------------------------------------------------------------------
(* End of file.                                                            *)

\* The step of EofIsSeen.
EofStep ==
  \A p \in Procs :
    (call[p] # "none" /\ r' # r /\ At(Minus(r', 1)) = "^D" /\ n[p] # n'[p])
      => r' = Plus(r, 1) /\ n[p] = target[p]

\* consoleread: a ^D behind characters that were copied stays in the ring.
THEOREM EndOfFileIsSeen == Spec => EofIsSeen
<1>1. ASSUME IInv, NEW p \in Procs, consoleread(p), r' # r, At(Minus(r', 1)) = "^D"
      PROVE  r' = Plus(r, 1) /\ n[p] = target[p]
  <2>0. RingOK /\ ReadersOK
    BY <1>1 DEF IInv
  <2>1. /\ INPUT_BUF \in Nat /\ Avail \in 0..INPUT_BUF /\ INPUT_BUF < Word /\ Word \in Nat
        /\ r \in 0..(Word - 1)
    BY <2>0, Indices DEF RingOK
  <2>2. PICK k \in 1..Avail :
          /\ \A j \in 1..(k - 1) : ~Stops(p, j)
          /\ k = Avail \/ Stops(p, k)
          /\ r' = Plus(r, IF KeepsEof(p, k) THEN k - 1 ELSE k)
    BY <1>1, <2>0, ReadTakes
  <2>3. PICK m \in 0..Avail : r' = Plus(r, m) /\ m = IF KeepsEof(p, k) THEN k - 1 ELSE k
    BY <2>1, <2>2
  <2>4. m # 0 /\ Minus(r', 1) = Plus(r, m - 1)
    <3>1. /\ m \in 0..(Word - 1) /\ 1 \in 0..(Word - 1)
          /\ m # 0 => m - 1 \in 0..(Word - 1)
      BY <2>1, <2>2
    <3>2. r' = (IF r + m < Word THEN r + m ELSE r + m - Word) /\ r' \in 0..(Word - 1)
      BY <2>1, <2>3, <3>1, PlusIs, ZenonT(40)
    <3>3. m # 0
      BY <1>1, <2>1, <3>2
    <3>4. Minus(r', 1) = IF 1 <= r' THEN r' - 1 ELSE r' + Word - 1
      BY <3>1, <3>2, MinusIs, ZenonT(40)
    <3>5. Plus(r, m - 1) = IF r + (m - 1) < Word THEN r + (m - 1) ELSE r + (m - 1) - Word
      BY <2>1, <3>1, <3>3, PlusIs, ZenonT(40)
    <3>6. QED
      BY <2>1, <3>1, <3>2, <3>3, <3>4, <3>5
  <2>5. Stops(p, m)
    BY <1>1, <2>4 DEF Stops, EndsLine
  <2>6. m = k /\ ~KeepsEof(p, k)
    BY <2>1, <2>2, <2>3, <2>4, <2>5
  <2>7. ~(n[p] - (k - 1) < target[p])
    BY <1>1, <2>4, <2>6 DEF KeepsEof
  <2>8. n[p] \in Nat /\ target[p] \in Nat /\ n[p] <= target[p]
    BY <2>0 DEF ReadersOK
  <2>9. k = 1 /\ n[p] = target[p]
    <3>1. k \in Nat /\ k >= 1
      BY <2>1
    <3>2. QED
      BY <2>7, <2>8, <3>1
  <2>10. QED
    BY <2>3, <2>6, <2>9
<1>2. ASSUME IInv, Next, r' # r PROVE \E p \in Procs : consoleread(p)
  BY <1>2 DEF Next, Locked, typed, backspace, kill_line, shift_C, consoleclear, consolewrite,
              consoleread_ends, consoleread_sleeps, prints, kill, read, input
<1>3. ASSUME NEW p \in Procs, NEW q \in Procs, IInv, consoleread(p), n[q] # n'[q] PROVE p = q
  <2>1. n \in [Procs -> Nat]
    BY <1>3 DEF IInv, ReadersOK
  <2>2. QED
    BY <1>3, <2>1 DEF consoleread, Return
<1>4. IInv /\ [Next]_vars => [EofStep]_vars
  BY <1>1, <1>2, <1>3, ZenonT(40) DEF EofStep
<1>5. QED
  BY Inductive, <1>4, PTL DEF Spec, EofIsSeen, EofStep

-----------------------------------------------------------------------------
(* The ring implements LineDiscipline.                                     *)

\* Sequences with the same elements are the same.
LEMMA SameElements ==
  ASSUME NEW S, NEW s \in Seq(S), NEW t \in Seq(S), Len(s) = Len(t),
         \A k \in 1..Len(s) : s[k] = t[k]
  PROVE  s = t
  OBVIOUS

\* What is edited and what is readable, as sequences.
SeqsOK ==
  /\ Ready \in Seq(Chars \cup {Nul}) /\ Len(Ready) = Avail
  /\ Line \in Seq(Chars \cup {Nul}) /\ Len(Line) = Pending
  /\ \A k \in 1..Avail : Ready[k] = Char(k - 1)
  /\ \A k \in 1..Pending : Line[k] = Char(Avail + (k - 1))

LEMMA SeqsAre == RingOK => SeqsOK
<1> SUFFICES ASSUME RingOK PROVE SeqsOK
  OBVIOUS
<1>1. /\ INPUT_BUF \in Nat \ {0} /\ Avail \in 0..INPUT_BUF /\ Pending \in 0..INPUT_BUF
      /\ Avail + Pending \in 0..INPUT_BUF
  BY Indices
<1>2. ASSUME NEW j \in 0..(INPUT_BUF - 1) PROVE Char(j) \in Chars \cup {Nul}
  BY Places DEF Char, RingOK
<1>3. Ready = [k \in 1..Avail |-> Char(k - 1)]
  BY RingsAre DEF Ready, Ring, Avail
<1>4. Line = [k \in 1..Pending |-> Char(Avail + (k - 1))]
  BY RingsAre DEF Line, Ring, Pending
<1>5. ASSUME NEW k \in 1..Avail PROVE Char(k - 1) \in Chars \cup {Nul}
  <2>1. k - 1 \in 0..(INPUT_BUF - 1)
    BY <1>1
  <2>2. QED
    BY <1>2, <2>1
<1>6. ASSUME NEW k \in 1..Pending PROVE Char(Avail + (k - 1)) \in Chars \cup {Nul}
  <2>1. Avail + (k - 1) \in 0..(INPUT_BUF - 1)
    BY <1>1
  <2>2. QED
    BY <1>2, <2>1
<1>7. QED
  BY <1>1, <1>3, <1>4, <1>5, <1>6 DEF SeqsOK

LEMMA SeqsWillBe ==
  ASSUME RingOK'
  PROVE  /\ Ready' \in Seq(Chars \cup {Nul}) /\ Len(Ready') = Avail'
         /\ Line' \in Seq(Chars \cup {Nul}) /\ Len(Line') = Pending'
         /\ \A k \in 1..Avail' : Ready'[k] = Char(k - 1)'
         /\ \A k \in 1..Pending' : Line'[k] = Char(Avail + (k - 1))'
<1>1. SeqsOK'
  BY SeqsAre, PTL
<1>2. QED
  BY <1>1 DEF SeqsOK

\* Steps that leave a part of the ring alone.
LEMMA ReadyKept ==
  ASSUME RingOK, RingOK', Avail' = Avail, \A k \in 1..Avail : Char(k - 1)' = Char(k - 1)
  PROVE  Ready' = Ready
<1>1. /\ Ready \in Seq(Chars \cup {Nul}) /\ Len(Ready) = Avail
      /\ \A k \in 1..Avail : Ready[k] = Char(k - 1)
  BY SeqsAre DEF SeqsOK
<1>2. /\ Ready' \in Seq(Chars \cup {Nul}) /\ Len(Ready') = Avail'
      /\ \A k \in 1..Avail' : Ready'[k] = Char(k - 1)'
  BY SeqsWillBe
<1>3. QED
  BY <1>1, <1>2, SameElements

LEMMA TypedRefines ==
  ASSUME IInv, IInv', NEW c \in Chars, typed(c)
  PROVE  Discipline!Typed(c)
<1>0. RingOK /\ RingOK'
  BY DEF IInv
<1>1. /\ HasRoom /\ buf' = [buf EXCEPT ![e % INPUT_BUF] = c] /\ e' = Plus(e, 1) /\ r' = r
  BY DEF typed
<1>2. \/ LineDone(c) /\ w' = Plus(e, 1)
      \/ ~LineDone(c) /\ w' = w
  BY DEF typed, Committed
<1>3. /\ Avail + Pending < INPUT_BUF
      /\ w' = w => Avail' = Avail /\ Pending' = Pending + 1
      /\ w' = Plus(e, 1) => Avail' = Avail + Pending + 1 /\ Pending' = 0
      /\ Plus(e, 1) = Plus(r, INPUT_BUF) <=> Avail + Pending + 1 = INPUT_BUF
  BY <1>0, <1>1, <1>2, Counted
<1>4. \A j \in 0..(INPUT_BUF - 1) : Char(j)' = IF j = Avail + Pending THEN c ELSE Char(j)
  BY <1>0, <1>1, Stored, ZenonT(40)
<1>5. INPUT_BUF \in Nat /\ Avail \in 0..INPUT_BUF /\ Pending \in 0..INPUT_BUF
  BY <1>0, Indices
<1>6. /\ Ready \in Seq(Chars \cup {Nul}) /\ Len(Ready) = Avail
      /\ Line \in Seq(Chars \cup {Nul}) /\ Len(Line) = Pending
      /\ \A k \in 1..Avail : Ready[k] = Char(k - 1)
      /\ \A k \in 1..Pending : Line[k] = Char(Avail + (k - 1))
  BY <1>0, SeqsAre DEF SeqsOK
<1>7. /\ Ready' \in Seq(Chars \cup {Nul}) /\ Len(Ready') = Avail'
      /\ Line' \in Seq(Chars \cup {Nul}) /\ Len(Line') = Pending'
      /\ \A k \in 1..Avail' : Ready'[k] = Char(k - 1)'
      /\ \A k \in 1..Pending' : Line'[k] = Char(Avail + (k - 1))'
  BY <1>0, SeqsWillBe
<1>8. CASE LineDone(c) /\ w' = Plus(e, 1)
  <2> DEFINE u == Append(Line, c)
             t == Ready \o u
  <2>1. Line' = << >>
    BY <1>3, <1>7, <1>8
  <2>2. /\ u \in Seq(Chars \cup {Nul}) /\ Len(u) = Pending + 1
        /\ u[Pending + 1] = c /\ \A k \in 1..Pending : u[k] = Line[k]
    BY <1>5, <1>6
  <2> HIDE DEF u
  <2>3. /\ t \in Seq(Chars \cup {Nul}) /\ Len(t) = Avail + Pending + 1
        /\ \A k \in 1..Avail : t[k] = Ready[k]
        /\ \A k \in 1..(Pending + 1) : t[Avail + k] = u[k]
    <3>1. /\ t \in Seq(Chars \cup {Nul}) /\ Len(t) = Len(Ready) + Len(u)
          /\ \A k \in 1..Len(Ready) : t[k] = Ready[k]
          /\ \A k \in 1..Len(u) : t[Len(Ready) + k] = u[k]
      <4>1. Ready \in Seq(Chars \cup {Nul}) /\ u \in Seq(Chars \cup {Nul})
        BY <1>6, <2>2
      <4>2. t \in Seq(Chars \cup {Nul}) /\ Len(t) = Len(Ready) + Len(u)
        BY <4>1
      <4>3. \A k \in 1..Len(Ready) : t[k] = Ready[k]
        BY <4>1
      <4>4. \A k \in 1..Len(u) : t[Len(Ready) + k] = u[k]
        BY <4>1
      <4>5. QED
        BY <4>2, <4>3, <4>4
    <3> HIDE DEF t
    <3>2. Len(Ready) = Avail /\ Len(u) = Pending + 1
      BY <1>6, <2>2
    <3>3. Len(t) = Avail + Pending + 1
      BY <1>5, <3>1, <3>2
    <3>4. QED
      BY <3>1, <3>2, <3>3
  <2> HIDE DEF t
  <2>4. ASSUME NEW k \in 1..(Avail + Pending + 1) PROVE Ready'[k] = t[k]
    <3>1. Ready'[k] = IF k - 1 = Avail + Pending THEN c ELSE Char(k - 1)
      <4>1. k - 1 \in 0..(INPUT_BUF - 1) /\ k \in 1..Avail'
        BY <1>3, <1>5, <1>8
      <4>2. QED
        BY <1>4, <1>7, <4>1
    <3>2. CASE k <= Avail
      <4>1. k \in 1..Avail /\ k - 1 # Avail + Pending
        BY <1>5, <3>2
      <4>2. QED
        BY <1>6, <2>3, <3>1, <4>1
    <3>3. CASE k > Avail
      <4>1. PICK j \in 1..(Pending + 1) : k = Avail + j
        BY <1>5, <3>3
      <4>2. t[k] = u[j]
        BY <2>3, <4>1
      <4>3. CASE j = Pending + 1
        BY <1>5, <2>2, <3>1, <4>1, <4>2, <4>3
      <4>4. CASE j # Pending + 1
        <5>1. j \in 1..Pending /\ k - 1 = Avail + (j - 1) /\ k - 1 # Avail + Pending
          BY <1>5, <4>1, <4>4
        <5>2. QED
          BY <1>6, <2>2, <3>1, <4>2, <5>1
      <4>5. QED
        BY <4>3, <4>4
    <3>4. QED
      BY <1>5, <3>2, <3>3
  <2>5. Len(Ready') = Len(t)
    BY <1>3, <1>7, <1>8, <2>3
  <2>6. Ready' = t
    BY <1>7, <2>3, <2>4, <2>5, SameElements
  <2>7. Len(Ready) + Len(Line) < INPUT_BUF
    BY <1>3, <1>6
  <2>8. c \in EndsLine \/ Len(Ready) + Len(Line) + 1 = INPUT_BUF
    BY <1>3, <1>6, <1>8 DEF LineDone
  <2>9. QED
    BY <2>1, <2>6, <2>7, <2>8 DEF Discipline!Typed, t, u
<1>9. CASE ~LineDone(c) /\ w' = w
  <2> DEFINE t == Append(Line, c)
  <2>1. /\ t \in Seq(Chars \cup {Nul}) /\ Len(t) = Pending + 1
        /\ \A k \in 1..Pending : t[k] = Line[k]
        /\ t[Pending + 1] = c
    BY <1>5, <1>6
  <2> HIDE DEF t
  <2>2. Avail' = Avail /\ Pending' = Pending + 1
    BY <1>3, <1>9
  <2>3. Ready' = Ready
    <3>1. ASSUME NEW k \in 1..Avail PROVE Char(k - 1)' = Char(k - 1)
      <4>1. k - 1 \in 0..(INPUT_BUF - 1) /\ k - 1 # Avail + Pending
        BY <1>5
      <4>2. QED
        BY <1>4, <4>1
    <3>2. QED
      BY <1>0, <2>2, <3>1, ReadyKept
  <2>4. ASSUME NEW k \in 1..(Pending + 1) PROVE Line'[k] = t[k]
    <3>1. Avail + (k - 1) \in 0..(INPUT_BUF - 1) /\ k \in 1..Pending'
      BY <1>3, <1>5, <2>2
    <3>2. Line'[k] = Char(Avail + (k - 1))'
      BY <1>7, <3>1
    <3>3. Char(Avail + (k - 1))' = IF k = Pending + 1 THEN c ELSE Char(Avail + (k - 1))
      <4>1. PICK j \in 0..(INPUT_BUF - 1) : j = Avail + (k - 1)
        BY <3>1
      <4>2. Char(Avail + (k - 1))' = Char(j)'
        BY <2>2, <4>1 DEF Char
      <4>3. QED
        BY <1>4, <1>5, <4>1, <4>2
    <3>4. QED
      BY <1>5, <1>6, <2>1, <3>2, <3>3
  <2>5. Line' = t
    BY <1>7, <2>1, <2>2, <2>4, SameElements
  <2>6. Len(Ready) + Len(Line) < INPUT_BUF
    BY <1>3, <1>6
  <2>7. ~(c \in EndsLine \/ Len(Ready) + Len(Line) + 1 = INPUT_BUF)
    BY <1>3, <1>6, <1>9 DEF LineDone
  <2>8. QED
    BY <2>3, <2>5, <2>6, <2>7 DEF Discipline!Typed, t
<1>10. QED
  BY <1>2, <1>8, <1>9

\* Backspace.
LEMMA BackspaceRefines ==
  ASSUME IInv, IInv', backspace
  PROVE  Discipline!Erased
<1>0. RingOK /\ RingOK'
  BY DEF IInv
<1>1. e # w /\ e' = Minus(e, 1) /\ UNCHANGED <<buf, r, w>>
  BY DEF backspace, MayErase
<1>2. /\ INPUT_BUF \in Nat /\ Avail \in 0..INPUT_BUF /\ Pending \in 0..INPUT_BUF
      /\ e = w <=> Pending = 0
  BY <1>0, Indices
<1>3. 1 \in 0..Pending
  BY <1>1, <1>2
<1>4. Avail' = Avail /\ Pending' = Pending - 1 /\ \A j : Char(j)' = Char(j)
  BY <1>0, <1>1, <1>3, TakenBack
<1>5. /\ Line \in Seq(Chars \cup {Nul}) /\ Len(Line) = Pending
      /\ \A k \in 1..Pending : Line[k] = Char(Avail + (k - 1))
  BY <1>0, SeqsAre DEF SeqsOK
<1>6. /\ Line' \in Seq(Chars \cup {Nul}) /\ Len(Line') = Pending'
      /\ \A k \in 1..Pending' : Line'[k] = Char(Avail + (k - 1))'
  BY <1>0, SeqsWillBe
<1>7. Ready' = Ready
  BY <1>0, <1>4, ReadyKept
<1> DEFINE t == SubSeq(Line, 1, Len(Line) - 1)
<1>8. /\ t \in Seq(Chars \cup {Nul}) /\ Len(t) = Pending - 1
      /\ \A k \in 1..(Pending - 1) : t[k] = Line[k]
  BY <1>2, <1>3, <1>5
<1> HIDE DEF t
<1>9. ASSUME NEW k \in 1..(Pending - 1) PROVE Line'[k] = t[k]
  <2>1. Line'[k] = Char(Avail + (k - 1))' /\ k \in 1..Pending
    BY <1>2, <1>4, <1>6
  <2>2. Char(Avail + (k - 1))' = Char(Avail + (k - 1))
    BY <1>1, <1>4 DEF Char
  <2>3. QED
    BY <1>5, <1>8, <2>1, <2>2
<1>10. Line' = t
  BY <1>4, <1>6, <1>8, <1>9, SameElements
<1>11. Line # << >>
  BY <1>3, <1>5
<1>12. QED
  BY <1>7, <1>10, <1>11 DEF Discipline!Erased, t

\* The line has no newline, so that ^U takes back all of it.
LEMMA KillRefines ==
  ASSUME IInv, IInv', kill_line
  PROVE  Discipline!LineKilled
<1>0. RingOK /\ RingOK' /\ LineOK
  BY DEF IInv
<1>1. UNCHANGED <<buf, r, w>>
  BY DEF kill_line
<1>2. PICK k \in 0..Pending :
        e' = Minus(e, k) /\ (k = Pending \/ At(Minus(e, k + 1)) = "\n")
  BY DEF kill_line, Pending
<1>3. /\ INPUT_BUF \in Nat /\ Word \in Nat /\ INPUT_BUF < Word
      /\ Avail \in 0..INPUT_BUF /\ Pending \in 0..INPUT_BUF /\ e = Plus(w, Pending)
  BY <1>0, Indices
<1>4. ASSUME k # Pending PROVE FALSE
  <2>1. PICK j \in 1..Pending : j = Pending - k
    BY <1>2, <1>3, <1>4
  <2>2. Minus(e, k + 1) = Plus(w, j - 1)
    <3>1. /\ w \in 0..(Word - 1) /\ e \in 0..(Word - 1) /\ k + 1 \in 0..(Word - 1)
          /\ j - 1 \in 0..(Word - 1) /\ Pending \in 0..(Word - 1)
      BY <1>0, <1>2, <1>3, <1>4, <2>1 DEF RingOK
    <3>2. e = IF w + Pending < Word THEN w + Pending ELSE w + Pending - Word
      BY <1>3, <3>1, PlusIs, ZenonT(40)
    <3>3. Plus(w, j - 1) = IF w + (j - 1) < Word THEN w + (j - 1) ELSE w + (j - 1) - Word
      BY <3>1, PlusIs, ZenonT(40)
    <3>4. Minus(e, k + 1) = IF k + 1 <= e THEN e - (k + 1) ELSE e + Word - (k + 1)
      BY <3>1, MinusIs, ZenonT(40)
    <3>5. QED
      BY <1>2, <1>3, <2>1, <3>1, <3>2, <3>3, <3>4
  <2>3. Char(Avail + (j - 1)) = "\n"
    BY <1>0, <1>2, <1>4, <2>2, RingsAre
  <2>4. Avail + (j - 1) \in Avail..(Avail + Pending - 1)
    BY <1>3
  <2>5. QED
    BY <1>0, <2>3, <2>4 DEF LineOK, EndsLine
<1>5. Avail' = Avail /\ Pending' = Pending - Pending /\ \A j : Char(j)' = Char(j)
  BY <1>0, <1>1, <1>2, <1>4, TakenBack
<1>6. Ready' = Ready
  BY <1>0, <1>5, ReadyKept
<1>7. Line' = << >>
  <2>1. Line' \in Seq(Chars \cup {Nul}) /\ Len(Line') = Pending' /\ Pending' = 0
    BY <1>0, <1>3, <1>5, SeqsWillBe
  <2>2. QED
    BY <2>1
<1>8. QED
  BY <1>6, <1>7 DEF Discipline!LineKilled

\* A step that leaves the input alone.
LEMMA SameRing ==
  ASSUME UNCHANGED input
  PROVE  UNCHANGED <<Line, Ready>>
  BY DEF input, Line, Ready, Ring, At, Minus, Plus

\* A reader takes characters of one line, or leaves a ^D where it is.
LEMMA ReadRefines ==
  ASSUME IInv, IInv', NEW p \in Procs, consoleread(p)
  PROVE  \/ \E k \in 1..Len(Ready) : Discipline!Taken(k)
         \/ UNCHANGED <<Line, Ready>>
<1>0. RingOK /\ RingOK'
  BY DEF IInv
<1>1. UNCHANGED <<buf, w, e>>
  BY DEF consoleread
<1>2. INPUT_BUF \in Nat /\ Avail \in 0..INPUT_BUF /\ Pending \in 0..INPUT_BUF
  BY <1>0, Indices
<1>3. PICK k \in 1..Avail :
        /\ \A j \in 1..(k - 1) : ~Stops(p, j)
        /\ r' = Plus(r, IF KeepsEof(p, k) THEN k - 1 ELSE k)
  BY <1>0, ReadTakes
<1>4. PICK m \in 0..Avail : r' = Plus(r, m) /\ m <= k
  BY <1>2, <1>3
<1>5. Avail' = Avail - m /\ Pending' = Pending /\ \A j \in Nat : Char(j)' = Char(m + j)
  BY <1>0, <1>1, <1>4, TakenOut
<1>6. /\ Ready \in Seq(Chars \cup {Nul}) /\ Len(Ready) = Avail
      /\ \A i \in 1..Avail : Ready[i] = Char(i - 1)
  BY <1>0, SeqsAre DEF SeqsOK
<1>7. /\ Ready' \in Seq(Chars \cup {Nul}) /\ Len(Ready') = Avail'
      /\ \A i \in 1..Avail' : Ready'[i] = Char(i - 1)'
  BY <1>0, SeqsWillBe
<1>8. Line' = Line
  BY <1>1 DEF Line, Ring, At, Minus, Plus
<1> DEFINE t == SubSeq(Ready, m + 1, Len(Ready))
<1>9. /\ t \in Seq(Chars \cup {Nul}) /\ Len(t) = Avail - m
      /\ \A i \in 1..(Avail - m) : t[i] = Ready[m + i]
  BY <1>2, <1>4, <1>6
<1> HIDE DEF t
<1>10. ASSUME NEW i \in 1..(Avail - m) PROVE Ready'[i] = t[i]
  <2>1. i \in 1..Avail' /\ i - 1 \in Nat /\ m + i \in 1..Avail /\ m + (i - 1) = (m + i) - 1
    BY <1>2, <1>4, <1>5
  <2>2. Ready'[i] = Char(m + (i - 1))
    BY <1>5, <1>7, <2>1
  <2>3. Ready[m + i] = Char((m + i) - 1)
    BY <1>6, <2>1
  <2>4. QED
    BY <1>9, <2>1, <2>2, <2>3
<1>11. Len(Ready') = Len(t)
  BY <1>5, <1>7, <1>9
<1>12. Ready' = t
  BY <1>5, <1>7, <1>9, <1>10, <1>11, SameElements, ZenonT(40)
<1>13. CASE m = 0
  BY <1>2, <1>6, <1>8, <1>12, <1>13 DEF t
<1>14. CASE m # 0
  <2>1. ASSUME NEW i \in 1..(m - 1) PROVE Ready[i] \notin EndsLine
    <3>1. i \in 1..(k - 1) /\ i \in 1..Avail
      BY <1>2, <1>3, <1>4
    <3>2. At(Plus(r, i - 1)) \notin EndsLine
      BY <1>3, <3>1 DEF Stops
    <3>3. QED
      BY <1>0, <1>6, <3>1, <3>2, RingsAre
  <2>2. m \in 1..Len(Ready)
    BY <1>2, <1>4, <1>6, <1>14
  <2>3. Discipline!Taken(m)
    BY <1>8, <1>12, <2>1 DEF Discipline!Taken, t
  <2>4. QED
    BY <2>2, <2>3
<1>15. QED
  BY <1>13, <1>14

\* consoleintr and consoleread on a ring of wrapping indices implement
\* LineDiscipline: readers get whole edited lines, in order, each character once.
THEOREM RingImplementsLineDiscipline == Spec => ImplementsLineDiscipline
<1>1. Init => Discipline!LDInit
  <2> SUFFICES ASSUME Init PROVE Line = << >> /\ Ready = << >>
    BY DEF Discipline!LDInit
  <2>1. RingOK /\ r = 0 /\ w = 0 /\ e = 0
    BY InitInv DEF IInv, Init
  <2>2. Avail = 0 /\ Pending = 0
    BY <2>1, Indices
  <2>3. QED
    BY <2>1, <2>2, SeqsAre DEF SeqsOK
<1>2. IInv /\ IInv' /\ [Next]_vars => [Discipline!LDNext]_<<Line, Ready>>
  <2> SUFFICES ASSUME IInv, IInv', [Next]_vars
               PROVE  Discipline!LDNext \/ UNCHANGED <<Line, Ready>>
    OBVIOUS
  <2>1. ASSUME NEW c \in Chars, typed(c) PROVE Discipline!LDNext
    BY <2>1, TypedRefines DEF Discipline!LDNext
  <2>2. ASSUME backspace PROVE Discipline!LDNext
    BY <2>2, BackspaceRefines DEF Discipline!LDNext
  <2>3. ASSUME kill_line PROVE Discipline!LDNext
    BY <2>3, KillRefines DEF Discipline!LDNext
  <2>4. ASSUME NEW p \in Procs, consoleread(p)
        PROVE  Discipline!LDNext \/ UNCHANGED <<Line, Ready>>
    BY <2>4, ReadRefines DEF Discipline!LDNext
  <2>5. ASSUME \/ shift_C \/ consoleclear \/ prints \/ UNCHANGED vars
               \/ \E p \in Procs :
                    \/ \E s \in Outputs : consolewrite(p, s)
                    \/ \E size \in Sizes : read(p, size)
                    \/ consoleread_ends(p) \/ consoleread_sleeps(p) \/ kill(p)
        PROVE  UNCHANGED <<Line, Ready>>
    <3>1. UNCHANGED input
      BY <2>5 DEF shift_C, consoleclear, prints, vars, consolewrite, read, consoleread_ends,
                  consoleread_sleeps, kill
    <3>2. QED
      BY <3>1, SameRing
  <2>6. QED
    BY <2>1, <2>2, <2>3, <2>4, <2>5 DEF Next, Locked
<1>3. QED
  BY Inductive, <1>1, <1>2, PTL DEF Spec, ImplementsLineDiscipline, Discipline!LDSpec

=============================================================================
