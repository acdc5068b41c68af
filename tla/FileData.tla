------------------------------ MODULE FileData ------------------------------
(***************************************************************************)
(* The contents of files: balloc, bfree, bmap, itrunc, readi and writei of *)
(* fs.c, and fileread and filewrite of file.c; filewrite splits a write    *)
(* into transactions that the log can hold.  The offset is that of the     *)
(* struct file, which processes share after fork() or dup().               *)
(*                                                                         *)
(* A transaction is one step (module Log).  A block is BSIZE numbers, be   *)
(* they bytes or block addresses, so that NINDIRECT is BSIZE.  Address 0   *)
(* means no block.                                                         *)
(***************************************************************************)
EXTENDS Naturals, Sequences, SequencesExt, FiniteSetsExt

CONSTANTS
  Files, Writers,
  OpenFiles,          \* struct files of ftable
  DataBlocks,         \* the numbers of the blocks that balloc hands out
  BSIZE, NDIRECT,
  MAXOPBLOCKS,
  Lengths,            \* arguments of read and write
  MaxWrites           \* bound on the calls of write

NINDIRECT == BSIZE
MAXFILE == NDIRECT + NINDIRECT

ASSUME FileDataAssumption ==
  /\ DataBlocks \subseteq Nat \ {0} /\ 0 \notin Files /\ 0 \notin OpenFiles
  /\ BSIZE \in Nat \ {0} /\ NDIRECT \in Nat \ {0} /\ Lengths \subseteq Nat
  /\ MAXOPBLOCKS \in Nat /\ MAXOPBLOCKS >= 6

VARIABLES
  disk,       \* used: the bitmap; data: the blocks; addrs, size: the inodes;
              \* log: blocks the last transaction wrote; full: balloc has panicked
  ftable,     \* per struct file that is being written to: ip and off
  writers,    \* per process: the write it is in
  content,    \* per file: what has been written to it
  writes      \* calls of write so far

datavars == <<disk, ftable, writers, content, writes>>

Zeros == [k \in 0..(BSIZE - 1) |-> 0]
NoFile == [ip |-> 0, off |-> 0]
NoWrite == [file |-> 0, left |-> 0]

\* Log entries.
Block(b) == <<"data", b>>
Bitmap(b) == <<"bitmap", b>>
Inode(f) == <<"inode", f>>

-----------------------------------------------------------------------------
(* Blocks                                                                  *)

balloc(D) == Min(DataBlocks \ D.used)

\* balloc's effect: the block is marked and zeroed.
Allocated(D) ==
  IF D.used = DataBlocks THEN [D EXCEPT !.full = TRUE]
  ELSE [D EXCEPT !.used = @ \cup {balloc(D)}, !.data[balloc(D)] = Zeros,
                 !.log = @ \cup {Bitmap(balloc(D)), Block(balloc(D))}]

\* bmap: the address of block bn of f, 0 if there is none yet.
bmap(D, f, bn) ==
  CASE bn < NDIRECT -> D.addrs[f][bn]
    [] bn >= NDIRECT /\ D.addrs[f][NDIRECT] = 0 -> 0
    [] OTHER -> D.data[D.addrs[f][NDIRECT]][bn - NDIRECT]

\* A new entry of an indirect block.
EntrySet(D, ind, k, b) == [D EXCEPT !.data[ind][k] = b, !.log = @ \cup {Block(ind)}]

\* bmap's effect: the block, and the indirect block, are allocated if need be.
Mapped(D, f, bn) ==
  IF bmap(D, f, bn) # 0 THEN D
  ELSE IF bn < NDIRECT
  THEN LET A == Allocated(D) IN IF A.full THEN A ELSE [A EXCEPT !.addrs[f][bn] = balloc(D)]
  ELSE LET I == IF D.addrs[f][NDIRECT] # 0 THEN D
                ELSE LET A == Allocated(D) IN
                     IF A.full THEN A ELSE [A EXCEPT !.addrs[f][NDIRECT] = balloc(D)]
           B == IF I.full THEN I ELSE Allocated(I)
       IN  IF B.full THEN B
           ELSE EntrySet(B, B.addrs[f][NDIRECT], bn - NDIRECT, balloc(I))

\* Faulty variant: the blocks of the indirect block are forgotten.
FreedBlocks_Direct(D, f) == {D.addrs[f][k] : k \in 0..NDIRECT} \ {0}

\* What itrunc passes to bfree: the direct blocks, the entries of the indirect
\* block, and that block itself.
FreedBlocks(D, f) ==
  ({D.addrs[f][k] : k \in 0..NDIRECT}
     \cup (IF D.addrs[f][NDIRECT] = 0 THEN {}
           ELSE {D.data[D.addrs[f][NDIRECT]][k] : k \in 0..(NINDIRECT - 1)})) \ {0}

itrunc(D, f) ==
  [D EXCEPT !.used = @ \ FreedBlocks(D, f),
            !.addrs[f] = [k \in 0..NDIRECT |-> 0], !.size[f] = 0, !.log = {}]

-----------------------------------------------------------------------------
(* readi and writei                                                        *)

Smaller(a, b) == IF a < b THEN a ELSE b

\* What readi copies out.
readi(D, f, off, n) ==
  IF off > D.size[f] THEN << >>
  ELSE [i \in 1..Smaller(n, D.size[f] - off) |->
          D.data[bmap(D, f, (off + i - 1) \div BSIZE)][(off + i - 1) % BSIZE]]

\* Faulty variant: a write that ends inside a block replaces the rest of it.
Copied_ToTheEnd(data, bn, off, n, v) ==
  [k \in 0..(BSIZE - 1) |-> IF bn * BSIZE + k >= off THEN v ELSE data[k]]

\* The block bn after v has been written to the bytes off, ..., off + n - 1.
Copied(data, bn, off, n, v) ==
  [k \in 0..(BSIZE - 1) |->
     IF bn * BSIZE + k \in off..(off + n - 1) THEN v ELSE data[k]]

\* The file may have the bytes off, ..., off + n - 1.
InRange(D, f, off, n) == off <= D.size[f] /\ off + n <= MAXFILE * BSIZE

\* writei: block by block, then the size.
writei(D, f, off, n, v) ==
  LET Write(E, bn) ==
        LET M == Mapped(E, f, bn) IN
        IF E.full \/ M.full THEN [E EXCEPT !.full = TRUE]
        ELSE [M EXCEPT !.data[bmap(M, f, bn)] = Copied(@, bn, off, n, v),
                       !.log = @ \cup {Block(bmap(M, f, bn))}]
      first == off \div BSIZE
      last == (off + n - 1) \div BSIZE
      W == FoldLeft(Write, [D EXCEPT !.log = {}], [i \in 1..(last - first + 1) |-> first + i - 1])
  IN  IF W.full \/ off + n <= D.size[f] THEN W
      ELSE [W EXCEPT !.size[f] = off + n, !.log = @ \cup {Inode(f)}]

-----------------------------------------------------------------------------
DataInit ==
  /\ disk = [used |-> {}, data |-> [b \in DataBlocks |-> Zeros],
             addrs |-> [f \in Files |-> [k \in 0..NDIRECT |-> 0]],
             size |-> [f \in Files |-> 0], log |-> {}, full |-> FALSE]
  /\ ftable = [o \in OpenFiles |-> NoFile]
  /\ writers = [p \in Writers |-> NoWrite]
  /\ content = [f \in Files |-> << >>]
  /\ writes = 0

InUse(o) == \E p \in Writers : writers[p].file = o

\* Before a write through o nobody else is in one: o may have been closed, opened
\* on any file, and read from, so that it is at any offset of that file.
Opened(o, f, off) ==
  /\ ~InUse(o) /\ off <= disk.size[f]
  /\ ftable' = [ftable EXCEPT ![o] = [ip |-> f, off |-> off]]

\* sys_write of n bytes through o.  The bytes of p are all the number p.
write(p, o, n) ==
  /\ writers[p] = NoWrite
  /\ writes < MaxWrites /\ writes' = writes + 1
  /\ writers' = [writers EXCEPT ![p] = [file |-> o, left |-> n]]
  /\ UNCHANGED <<disk, content>>

\* fileread through a struct file that others are writing to: off moves on.
fileread(o, n) ==
  LET f == ftable[o] IN
  /\ InUse(o)
  /\ ftable' = [ftable EXCEPT ![o].off = @ + Len(readi(disk, f.ip, f.off, n))]
  /\ UNCHANGED <<disk, writers, content, writes>>

\* Faulty variant: the blocks at both ends of a write are not counted.
max_NoSlop == ((MAXOPBLOCKS - 1 - 1) \div 2) * BSIZE

\* filewrite's max
max == ((MAXOPBLOCKS - 1 - 1 - 2) \div 2) * BSIZE

\* The bytes s, with v in place of the n from off on.
Overwritten(s, off, n, v) ==
  [i \in 1..(IF Len(s) < off + n THEN off + n ELSE Len(s)) |->
     IF i - 1 \in off..(off + n - 1) THEN v ELSE s[i]]

\* The struct files T, without those that no write of ws goes through.
InWrites(T, ws) ==
  [o \in OpenFiles |-> IF \E p \in Writers : ws[p].file = o THEN T[o] ELSE NoFile]

\* One round of filewrite's loop, at the offset that f->off has by now; a writei
\* that returns -1 ends it.
filewrite(p) ==
  LET o == writers[p].file
      f == ftable[o]
      n1 == Smaller(writers[p].left, max)
      D == writei(disk, f.ip, f.off, n1, p)
  IN
  /\ writers[p] # NoWrite
  /\ IF InRange(disk, f.ip, f.off, n1)
     THEN /\ disk' = D
          /\ content' = IF D.full THEN content
                        ELSE [content EXCEPT ![f.ip] = Overwritten(@, f.off, n1, p)]
          /\ writers' = [writers EXCEPT ![p] =
               IF writers[p].left = n1 THEN NoWrite ELSE [@ EXCEPT !.left = @ - n1]]
          /\ ftable' = InWrites([ftable EXCEPT ![o].off = @ + n1], writers')
     ELSE /\ writers' = [writers EXCEPT ![p] = NoWrite]
          /\ ftable' = InWrites(ftable, writers')
          /\ UNCHANGED <<disk, content>>
  /\ UNCHANGED writes

\* The last iput of a file without links.
remove(f) ==
  /\ \A o \in OpenFiles : ftable[o].ip # f
  /\ disk.size[f] > 0
  /\ disk' = itrunc(disk, f)
  /\ content' = [content EXCEPT ![f] = << >>]
  /\ UNCHANGED <<ftable, writers, writes>>

DataNext ==
  /\ ~disk.full
  /\ \/ \E p \in Writers : filewrite(p)
     \/ \E p \in Writers, o \in OpenFiles, n \in Lengths :
          /\ write(p, o, n)
          /\ \/ InUse(o) /\ UNCHANGED ftable
             \/ \E f \in Files, off \in 0..(MAXFILE * BSIZE) : Opened(o, f, off)
     \/ \E o \in OpenFiles, n \in Lengths : fileread(o, n)
     \/ \E f \in Files : remove(f)

-----------------------------------------------------------------------------
\* A file reads back as it was written, at every offset and length, when writes of
\* several transactions interleave, through one offset or two, end inside a block,
\* run over the direct blocks or into the end of the largest file, and when blocks
\* of removed files are reused.
ReadsWhatWasWritten ==
  ~disk.full =>
  \A f \in Files :
    /\ disk.size[f] = Len(content[f])
    /\ \A off \in 0..Len(content[f]), n \in 0..(BSIZE + 1) :
         readi(disk, f, off, n) = SubSeq(content[f], off + 1, Smaller(off + n, Len(content[f])))

\* The blocks that a file reads and writes through bmap, with its indirect block.
BlocksOf(f) ==
  ({bmap(disk, f, bn) : bn \in 0..(MAXFILE - 1)} \cup {disk.addrs[f][NDIRECT]}) \ {0}

\* The bitmap marks the blocks of the files, and no block belongs to two: nothing is
\* lost or freed while in use, through truncation and reuse ("freeing free block").
BlocksAccounted ==
  ~disk.full =>
  /\ disk.used = UNION {BlocksOf(f) : f \in Files}
  /\ \A f, g \in Files : f # g => BlocksOf(f) \cap BlocksOf(g) = {}

\* No transaction of filewrite writes more blocks than begin_op has reserved for it,
\* even if every block had a bitmap block of its own.
WriteFitsLog == Cardinality(disk.log) <= MAXOPBLOCKS
=============================================================================
