--------------------------------- MODULE Fs ---------------------------------
(***************************************************************************)
(* Inodes, directories and path names (fs.c), the file table (file.c) and  *)
(* the system calls on them (sysfile.c).                                   *)
(*                                                                         *)
(* A call is a list of things still to do.  A step waits for the sleep     *)
(* lock of one inode and goes on to where the code waits for the next; the *)
(* locks that a call keeps meanwhile are in `lock'.  The in-memory copy of *)
(* an inode is written through by iupdate, so the model has one; `valid'   *)
(* says if it was read.                                                    *)
(*                                                                         *)
(* Log.tla shows that a crash goes back to a moment when no call was in    *)
(* progress; here the crash is at that moment.                             *)
(***************************************************************************)
EXTENDS Naturals, Sequences, FiniteSets, FiniteSetsExt

CONSTANTS
  Procs,
  ninodes,       \* superblock
  NINODE,        \* param.h: entries of the inode cache
  Names,         \* file names other than "." and ".."
  NFILE, NOFILE, \* param.h
  Calls,         \* the system calls on a path that processes make
  MaxCrashes, MaxCalls

Inums == 1..(ninodes - 1)
ROOTINO == 1
Files == 1..NFILE
Fds == 1..NOFILE
None == 0

ASSUME FsAssumption ==
  /\ None \notin Procs /\ IsFiniteSet(Procs)
  /\ ninodes \in Nat /\ ninodes > 1 /\ NINODE \in Nat \ {0} /\ NFILE \in Nat /\ NOFILE \in Nat
  /\ MaxCrashes \in Nat /\ MaxCalls \in Nat

VARIABLES
  dinode,     \* the inodes: type, nlink, a directory's entries and ".."
  ref, valid, \* the inode cache
  lock,       \* per inode: the process that has ip->lock
  file,       \* ftable: ref and ip
  ofile,      \* per process and descriptor
  cwd,        \* per process; None when there is no such process
  call,       \* per process: the call in progress, and the path left to walk
  ip,         \* per process: an inode that the call keeps aside
  todo,       \* per process: the rest of the call, <<operation, inode>>
  panicked,
  crashes, calls \* how many there have been

vars == <<dinode, ref, valid, lock, file, ofile, cwd, call, ip, todo,
          panicked, crashes, calls>>

NoCall == [sys |-> "none", path |-> << >>]
FreeInode == [type |-> "free", nlink |-> 0, ents |-> << >>, parent |-> None]
NoEntries == [n \in Names |-> None]

\* What is in memory after boot: the processes start in the root directory
\* (userinit, fork).
Booted(refs, vals, locks, files, fds, dirs, frames, aside, list, msg) ==
  /\ refs = [i \in Inums |-> IF i = ROOTINO THEN Cardinality(Procs) ELSE 0]
  /\ vals = [i \in Inums |-> FALSE] /\ locks = [i \in Inums |-> None]
  /\ files = [f \in Files |-> [ref |-> 0, ip |-> None]]
  /\ fds = [p \in Procs |-> [fd \in Fds |-> None]]
  /\ dirs = [p \in Procs |-> ROOTINO]
  /\ frames = [p \in Procs |-> NoCall] /\ aside = [p \in Procs |-> None]
  /\ list = [p \in Procs |-> << >>] /\ msg = ""

\* A new file system has a root directory (mkfs.c).
Init ==
  /\ dinode = [i \in Inums |->
       IF i = ROOTINO THEN [type |-> "dir", nlink |-> 1, ents |-> NoEntries,
                            parent |-> ROOTINO]
       ELSE FreeInode]
  /\ crashes = 0 /\ calls = 0
  /\ Booted(ref, valid, lock, file, ofile, cwd, call, ip, todo, panicked)

-----------------------------------------------------------------------------
(* fs.c                                                                    *)

\* The call of p goes on with list l; with the empty one it returns.
GoOn(p, l, elems) ==
  /\ todo' = [todo EXCEPT ![p] = l]
  /\ call' = [call EXCEPT ![p] = IF l = << >> THEN NoCall ELSE [@ EXCEPT !.path = elems]]

Do(p, l) == GoOn(p, l, call[p].path)
Rest(p) == Tail(todo[p])
Iput(i) == <<<<"iput", i>>>>
Name(p) == call[p].path[1]

IsDir(i) == dinode[i].type = "dir"

\* dirlookup before its iget: the entry's inode, or None.
Lookup(d, n) ==
  CASE n = "."  -> d
    [] n = ".." -> dinode[d].parent
    [] OTHER    -> dinode[d].ents[n]

\* Faulty variant: a lookup does not take a reference.
iget_Borrows(i) == ref

\* iget and idup: one more pointer to i.
iget(i) == [ref EXCEPT ![i] = @ + 1]

Unlocked(i) == lock[i] = None

\* The panics of ilock and of iget; an inode that is in the cache needs no entry.
ilockPanic(i) ==
  CASE ref[i] < 1 -> "ilock"
    [] dinode[i].type = "free" -> "ilock: no type"
    [] OTHER -> panicked

CacheFull(i) == ref[i] = 0 /\ Cardinality({j \in Inums : ref[j] > 0}) >= NINODE

igetPanic(i) == IF CacheFull(i) THEN "iget: no inodes" ELSE panicked

\* ilock, which reads the inode.
ilock(i) ==
  /\ Unlocked(i)
  /\ valid' = [valid EXCEPT ![i] = TRUE]
  /\ panicked' = ilockPanic(i)

\* ilock(i), and iget(j) with i locked.
ilock_iget(i, j) ==
  /\ Unlocked(i)
  /\ valid' = [valid EXCEPT ![i] = TRUE]
  /\ ref' = iget(j)
  /\ panicked' = IF ilockPanic(i) # panicked THEN ilockPanic(i) ELSE igetPanic(j)

\* The error return of a walk: sys_link undoes its nlink++, and sys_copy closes
\* src_file, whose inode it has locked.
Fail(p) ==
  CASE call[p].sys = "link" /\ ip[p] # None -> <<<<"bad", None>>>>
    [] call[p].sys = "copy" /\ ip[p] # None -> <<<<"relock", None>>>>
    [] OTHER -> << >>

\* namex at inode i: one path element.  "walkp" is nameiparent, which stops one
\* level early and leaves the last element in the path.
namex(p, op, i) ==
  LET elems == call[p].path
      last == Len(elems) = 1
      found == <<<<Head(Rest(p))[1], i>>>>
      next == Lookup(i, elems[1])
  IN
  /\ IF elems = << >>
     THEN /\ Do(p, IF op = "walk" THEN found ELSE Iput(i) \o Fail(p))
          /\ UNCHANGED <<ref, valid, panicked>>
     ELSE IF ~IsDir(i) \/ (next = None /\ ~(last /\ op = "walkp"))
     THEN ilock(i) /\ Do(p, Iput(i) \o Fail(p)) /\ UNCHANGED ref
     ELSE IF last /\ op = "walkp"
     THEN ilock(i) /\ Do(p, found) /\ UNCHANGED ref
     ELSE /\ ilock_iget(i, next)
          /\ GoOn(p, Iput(i) \o (IF last THEN <<<<Head(Rest(p))[1], next>>>>
                               ELSE <<<<op, next>>>> \o Rest(p)), Tail(elems))
  /\ UNCHANGED <<dinode, lock, file, ofile, cwd, ip, crashes>>

\* Faulty variant: the other references are not looked at.
LastUse_Shared(i) == valid[i] /\ dinode[i].nlink = 0

\* "inode has no links and no other references"
LastUse(i) == valid[i] /\ dinode[i].nlink = 0 /\ ref[i] = 1

\* iput up to releasesleep; itrunc frees the content.
iput(p, i) ==
  /\ Unlocked(i)
  /\ dinode' = IF LastUse(i) THEN [dinode EXCEPT ![i] = FreeInode] ELSE dinode
  /\ valid' = [valid EXCEPT ![i] = @ /\ ~LastUse(i)]
  /\ Do(p, <<<<"unref", i>>>> \o Rest(p))
  /\ UNCHANGED <<ref, lock, file, ofile, cwd, ip, panicked, crashes>>

\* The rest of iput; an entry without references is not valid for the next iget.
unref(p, i) ==
  /\ ref' = [ref EXCEPT ![i] = @ - 1]
  /\ valid' = [valid EXCEPT ![i] = @ /\ ref[i] > 1]
  /\ Do(p, Rest(p))
  /\ UNCHANGED <<dinode, lock, file, ofile, cwd, ip, panicked, crashes>>

-----------------------------------------------------------------------------
(* sysfile.c: open, mkdir, mknod                                           *)

FreeFiles == {f \in Files : file[f].ref = 0}
FreeFds(p) == {fd \in Fds : ofile[p][fd] = None}

\* filealloc, for inode i.
Opened(i) == [file EXCEPT ![Min(FreeFiles)] = [ref |-> 1, ip |-> i]]

\* The end of sys_open with i locked: the descriptor and iunlock, or
\* iunlockput.
OpenFile(p, i) ==
  IF FreeFiles # {} /\ FreeFds(p) # {}
  THEN /\ file' = Opened(i)
       /\ ofile' = [ofile EXCEPT ![p][Min(FreeFds(p))] = Min(FreeFiles)]
       /\ Do(p, << >>)
  ELSE Do(p, Iput(i)) /\ UNCHANGED <<file, ofile>>

\* sys_open of an existing file.
sys_open(p, i) ==
  /\ ilock(i)
  /\ IF IsDir(i) /\ call[p].write
     THEN Do(p, Iput(i)) /\ UNCHANGED <<file, ofile>>
     ELSE OpenFile(p, i)
  /\ UNCHANGED <<dinode, ref, lock, cwd, ip, crashes>>

CreateType(p) ==
  CASE call[p].sys = "mkdir" -> "dir"
    [] call[p].sys = "mknod" -> "dev"
    [] OTHER -> "file"

\* What create() writes for a new inode.
NewInode(d, type) ==
  IF type = "dir" THEN [type |-> type, nlink |-> 1, ents |-> NoEntries, parent |-> d]
  ELSE [FreeInode EXCEPT !.type = type, !.nlink = 1]

FreeInodes == {i \in Inums : dinode[i].type = "free"}

\* dp->nlink++ "for '..'"
Grown(d, type) == dinode[d].nlink + IF type = "dir" THEN 1 ELSE 0

\* create() in directory d: it finds the name, or makes a new inode, which it
\* has locked during iunlockput(dp).
create(p, d) ==
  LET next == Lookup(d, Name(p))
      new == Min(FreeInodes)
      type == CreateType(p)
  IN
  /\ Unlocked(d)
  /\ IF next # None
     THEN /\ ilock_iget(d, next)
          /\ Do(p, Iput(d) \o <<<<"existing", next>>>>)
          /\ UNCHANGED <<dinode, lock>>
     ELSE IF FreeInodes = {}
     THEN panicked' = "ialloc: no inodes" /\ UNCHANGED <<dinode, ref, valid, lock, call, todo>>
     ELSE /\ dinode' = [dinode EXCEPT ![d].nlink = Grown(d, type),
                                      ![d].ents[Name(p)] = new,
                                      ![new] = NewInode(d, type)]
          /\ ref' = iget(new)
          /\ valid' = [valid EXCEPT ![d] = TRUE, ![new] = TRUE]
          /\ lock' = [lock EXCEPT ![new] = p]
          /\ panicked' = igetPanic(new)
          /\ Do(p, Iput(d) \o <<<<"created", new>>>>)
  /\ UNCHANGED <<file, ofile, cwd, ip, crashes>>

iunlock(i) == [lock EXCEPT ![i] = None]

\* What the callers of create() do with the locked inode it returns.
Use(p, i) ==
  CASE call[p].sys = "open" ->
         OpenFile(p, i) /\ lock' = iunlock(i)
    [] call[p].sys = "copy" ->
         /\ IF FreeFiles # {}
            THEN file' = Opened(i) /\ Do(p, <<<<"relock", None>>>>)
            ELSE Do(p, <<<<"relock", i>>>>) /\ UNCHANGED file
         /\ lock' = [lock EXCEPT ![i] = p]
         /\ UNCHANGED ofile
    [] OTHER ->
         Do(p, Iput(i)) /\ lock' = iunlock(i) /\ UNCHANGED <<file, ofile>>

created(p, i) ==
  /\ Use(p, i)
  /\ UNCHANGED <<dinode, ref, valid, cwd, ip, panicked, crashes>>

\* create() of a name that exists.
existing(p, i) ==
  /\ ilock(i)
  /\ IF CreateType(p) = "file" /\ dinode[i].type = "file"
     THEN Use(p, i)
     ELSE Do(p, Iput(i) \o Fail(p)) /\ UNCHANGED <<lock, file, ofile>>
  /\ UNCHANGED <<dinode, ref, cwd, ip, crashes>>

-----------------------------------------------------------------------------
(* link, unlink, chdir, copy                                               *)

\* Where a path starts: "/" or the current directory.
Start(p, absolute) == IF absolute THEN ROOTINO ELSE cwd[p]

\* A call locks inode i, keeps it aside and looks up its second path.
SecondPath(p, i, op) ==
  LET s == Start(p, call[p].absolute) IN
  /\ ilock_iget(i, s)
  /\ ip' = [ip EXCEPT ![p] = i]
  /\ GoOn(p, <<<<"walkp", s>>, <<op, None>>>>, call[p].new)

\* Faulty variant: the new link is not counted.
Linked_Not(i) == dinode

\* ip->nlink++, before the link exists.
Linked(i) == [dinode EXCEPT ![i].nlink = @ + 1]

\* Faulty variant: the old inode stays locked.
LinkLock_Kept(p, i) == [lock EXCEPT ![i] = p]

\* iunlock(ip) before nameiparent(new, name)
LinkLock(p, i) == lock

\* sys_link with the old inode.
sys_link(p, i) ==
  /\ IF IsDir(i)
     THEN ilock(i) /\ Do(p, Iput(i)) /\ UNCHANGED <<dinode, ref, lock, ip>>
     ELSE dinode' = Linked(i) /\ lock' = LinkLock(p, i) /\ SecondPath(p, i, "dirlink")
  /\ UNCHANGED <<file, ofile, cwd, crashes>>

\* sys_link in the new directory d.  dirlink of a name that exists calls iput
\* on its inode while d is locked.
dirlink(p, d) ==
  LET next == Lookup(d, Name(p)) IN
  /\ IF next # None
     THEN /\ ilock_iget(d, next)
          /\ lock' = [lock EXCEPT ![d] = p]
          /\ Do(p, Iput(next) \o <<<<"unlockput", d>>, <<"bad", None>>>>)
          /\ UNCHANGED <<dinode, ip>>
     ELSE /\ ilock(d)
          /\ dinode' = [dinode EXCEPT ![d].ents[Name(p)] = ip[p]]
          /\ ip' = [ip EXCEPT ![p] = None]
          /\ Do(p, Iput(d) \o Iput(ip[p]))
          /\ UNCHANGED <<ref, lock>>
  /\ UNCHANGED <<file, ofile, cwd, crashes>>

\* sys_link's label bad.
bad(p) ==
  /\ ilock(ip[p])
  /\ dinode' = [dinode EXCEPT ![ip[p]].nlink = @ - 1]
  /\ ip' = [ip EXCEPT ![p] = None]
  /\ Do(p, Iput(ip[p]))
  /\ UNCHANGED <<ref, lock, file, ofile, cwd, crashes>>

\* iunlockput of an inode that p has kept locked.
unlockput(p, i) ==
  /\ lock' = iunlock(i)
  /\ Do(p, Iput(i) \o Rest(p))
  /\ UNCHANGED <<dinode, ref, valid, file, ofile, cwd, ip, panicked, crashes>>

\* sys_unlink in directory d, up to ilock(ip).
sys_unlink(p, d) ==
  LET next == Lookup(d, Name(p)) IN
  /\ IF Name(p) \in {".", ".."} \/ next = None
     THEN ilock(d) /\ Do(p, Iput(d)) /\ UNCHANGED <<ref, lock, ip>>
     ELSE /\ ilock_iget(d, next)
          /\ lock' = [lock EXCEPT ![d] = p]
          /\ ip' = [ip EXCEPT ![p] = d]
          /\ Do(p, <<<<"unlink", next>>>>)
  /\ UNCHANGED <<dinode, file, ofile, cwd, crashes>>

\* dp->nlink-- if ip is a directory
Shrunk(d, i) == dinode[d].nlink - IF IsDir(i) THEN 1 ELSE 0

\* "unlink: nlink < 1"
Nameless(i) == dinode[i].nlink < 1

\* ip->type != T_DIR || isdirempty(ip)
MayRemove(i) == IsDir(i) => \A n \in Names : dinode[i].ents[n] = None

\* The middle of sys_unlink, with d locked, up to iunlockput(dp).
unlink(p, i) ==
  LET d == ip[p] IN
  /\ Unlocked(i)
  /\ valid' = [valid EXCEPT ![i] = TRUE]
  /\ panicked' = CASE ilockPanic(i) # panicked -> ilockPanic(i)
                   [] Nameless(i) -> "unlink: nlink < 1"
                   [] OTHER -> panicked
  /\ ip' = [ip EXCEPT ![p] = None]
  /\ IF MayRemove(i)
     THEN /\ dinode' = [dinode EXCEPT ![d].ents[Name(p)] = None,
                                      ![d].nlink = Shrunk(d, i)]
          /\ lock' = [lock EXCEPT ![d] = None, ![i] = p]
          /\ Do(p, Iput(d) \o <<<<"unlinked", i>>>>)
     ELSE Do(p, Iput(i) \o <<<<"unlockput", d>>>>) /\ UNCHANGED <<dinode, lock>>
  /\ UNCHANGED <<ref, file, ofile, cwd, crashes>>

\* The end of sys_unlink: nlink-- and iunlockput(ip).
unlinked(p, i) ==
  /\ dinode' = [dinode EXCEPT ![i].nlink = @ - 1]
  /\ lock' = iunlock(i)
  /\ Do(p, Iput(i))
  /\ UNCHANGED <<ref, valid, file, ofile, cwd, ip, panicked, crashes>>

sys_chdir(p, i) ==
  /\ ilock(i)
  /\ cwd' = IF IsDir(i) THEN [cwd EXCEPT ![p] = i] ELSE cwd
  /\ Do(p, Iput(IF IsDir(i) THEN cwd[p] ELSE i))
  /\ UNCHANGED <<dinode, ref, lock, file, ofile, ip, crashes>>

\* sys_copy with the source inode, which it keeps locked when it calls
\* create().  What follows is "relock": fileread, or fileclose after an error,
\* takes the lock again, and no step follows.
sys_copy(p, i) ==
  /\ IF FreeFiles = {}
     THEN ilock(i) /\ Do(p, Iput(i)) /\ UNCHANGED <<ref, lock, file, ip>>
     ELSE /\ lock' = [lock EXCEPT ![i] = p]
          /\ file' = Opened(i)
          /\ SecondPath(p, i, "create")
  /\ UNCHANGED <<dinode, ofile, cwd, crashes>>

-----------------------------------------------------------------------------
(* file.c, and the calls on descriptors                                    *)

\* if(--f->ref > 0) return
LastClose(f) == file[f].ref = 1

\* fileclose.
fileclose(p, f) ==
  /\ file' = [file EXCEPT ![f] = IF LastClose(f) THEN [ref |-> 0, ip |-> None]
                                 ELSE [@ EXCEPT !.ref = @ - 1]]
  /\ Do(p, (IF LastClose(f) THEN Iput(file[f].ip) ELSE << >>) \o Rest(p))
  /\ UNCHANGED <<dinode, ref, valid, lock, ofile, cwd, ip, panicked, crashes>>

Idle(p) == cwd[p] # None /\ todo[p] = << >>

\* A process enters a system call on a path.
Call(p, c) ==
  LET s == Start(p, c.absolute) IN
  /\ Idle(p)
  /\ call' = [call EXCEPT ![p] = c]
  /\ ref' = iget(s)
  /\ panicked' = igetPanic(s)
  /\ todo' = [todo EXCEPT ![p] = <<<<c.walk, s>>, <<c.first, None>>>>]
  /\ UNCHANGED <<dinode, valid, lock, file, ofile, cwd, ip, crashes>>

\* sys_close, or exit() for all descriptors and the current directory.
sys_close(p, fd) ==
  /\ Idle(p) /\ ofile[p][fd] # None
  /\ ofile' = [ofile EXCEPT ![p][fd] = None]
  /\ todo' = [todo EXCEPT ![p] = <<<<"close", ofile[p][fd]>>>>]
  /\ UNCHANGED <<dinode, ref, valid, lock, file, cwd, call, ip, panicked, crashes>>

exit(p) ==
  /\ Idle(p)
  /\ ofile' = [ofile EXCEPT ![p] = [fd \in Fds |-> None]]
  /\ cwd' = [cwd EXCEPT ![p] = None]
  /\ todo' = [todo EXCEPT ![p] =
       SelectSeq([fd \in Fds |-> <<"close", ofile[p][fd]>>], LAMBDA x : x[2] # None)
         \o Iput(cwd[p])]
  /\ UNCHANGED <<dinode, ref, valid, lock, file, call, ip, panicked, crashes>>

\* filedup, n times.
filedup(f, n) == [file EXCEPT ![f].ref = @ + n]

sys_dup(p, fd) ==
  /\ Idle(p) /\ ofile[p][fd] # None /\ FreeFds(p) # {}
  /\ ofile' = [ofile EXCEPT ![p][Min(FreeFds(p))] = ofile[p][fd]]
  /\ file' = filedup(ofile[p][fd], 1)
  /\ UNCHANGED <<dinode, ref, valid, lock, cwd, call, ip, todo, panicked, crashes>>

\* What fork() does with files: a filedup for each descriptor, idup(cwd).
fork(p, q) ==
  /\ Idle(p) /\ cwd[q] = None /\ todo[q] = << >>
  /\ ofile' = [ofile EXCEPT ![q] = ofile[p]]
  /\ file' = [f \in Files |->
                [file[f] EXCEPT !.ref = @ + Cardinality({fd \in Fds : ofile[p][fd] = f})]]
  /\ cwd' = [cwd EXCEPT ![q] = cwd[p]]
  /\ ref' = iget(cwd[p])
  /\ UNCHANGED <<dinode, valid, lock, call, ip, todo, panicked, crashes>>

\* fileread, filewrite, filestat: the inode is locked, used and unlocked.
file_io(p, fd) ==
  /\ Idle(p) /\ ofile[p][fd] # None
  /\ ilock(file[ofile[p][fd]].ip)
  /\ UNCHANGED <<dinode, ref, lock, file, ofile, cwd, call, ip, todo, crashes>>

\* The machine stops when no call is in progress, and boots again.
Crash ==
  /\ crashes < MaxCrashes /\ crashes' = crashes + 1
  /\ \A p \in Procs : todo[p] = << >>
  /\ Booted(ref', valid', lock', file', ofile', cwd', call', ip', todo', panicked')
  /\ UNCHANGED <<dinode, calls>>

-----------------------------------------------------------------------------
Step(p) ==
  /\ todo[p] # << >> /\ UNCHANGED calls
  /\ LET op == todo[p][1][1]
         i == todo[p][1][2]
     IN  \/ op \in {"walk", "walkp"} /\ namex(p, op, i)
         \/ op = "iput" /\ iput(p, i)
         \/ op = "unref" /\ unref(p, i)
         \/ op = "open" /\ sys_open(p, i)
         \/ op = "create" /\ create(p, i)
         \/ op = "created" /\ created(p, i)
         \/ op = "existing" /\ existing(p, i)
         \/ op = "link" /\ sys_link(p, i)
         \/ op = "dirlink" /\ dirlink(p, i)
         \/ op = "bad" /\ bad(p)
         \/ op = "unlockput" /\ unlockput(p, i)
         \/ op = "lookup" /\ sys_unlink(p, i)
         \/ op = "unlink" /\ unlink(p, i)
         \/ op = "unlinked" /\ unlinked(p, i)
         \/ op = "chdir" /\ sys_chdir(p, i)
         \/ op = "copy" /\ sys_copy(p, i)
         \/ op = "close" /\ fileclose(p, i)

UserStep(p) ==
  /\ calls < MaxCalls /\ calls' = calls + 1
  /\ \/ \E c \in Calls : Call(p, c)
     \/ \E fd \in Fds : sys_close(p, fd) \/ sys_dup(p, fd)
     \/ \E q \in Procs : fork(p, q)
     \/ exit(p)

Next ==
  /\ panicked = ""
  /\ \/ Crash
     \/ \E p \in Procs : Step(p) \/ UserStep(p)
     \/ \E p \in Procs, fd \in Fds : file_io(p, fd) /\ UNCHANGED calls

Spec == Init /\ [][Next]_vars

-----------------------------------------------------------------------------
\* Pointers to inode i: open files, current directories and calls.
FilesOn(i) == {f \in Files : file[f].ref > 0 /\ file[f].ip = i}
CwdsOn(i) == {p \in Procs : cwd[p] = i}
CallsOn(i) ==
  {<<p, k>> \in Procs \X (1..5) :
     k \in 1..Len(todo[p]) /\ todo[p][k][2] = i /\ todo[p][k][1] # "close"}
AsideOn(i) == {p \in Procs : ip[p] = i /\ call[p].sys # "copy"}

\* Pointers to file f: descriptors, and closes in progress.
FdsOn(f) == {<<p, fd>> \in Procs \X Fds : ofile[p][fd] = f}
ClosesOn(f) ==
  {<<p, k>> \in Procs \X (1..(NOFILE + 1)) :
     k \in 1..Len(todo[p]) /\ todo[p][k] = <<"close", f>>}

\* "ip->ref tracks the number of in-memory pointers to the entry" (fs.c:123), and
\* so does f->ref: on every path through the calls, failures included, each iget
\* and idup has its iput, and open, dup, fork, close and exit neither leak a file
\* nor free one in use.  Only a sys_copy has files without descriptors.
RefsCounted ==
  /\ \A i \in Inums :
       ref[i] = Cardinality(FilesOn(i)) + Cardinality(CwdsOn(i))
                  + Cardinality(CallsOn(i)) + Cardinality(AsideOn(i))
  /\ \A f \in Files :
       LET n == Cardinality(FdsOn(f)) + Cardinality(ClosesOn(f))
       IN  \/ file[f].ref = n
           \/ file[f].ref = 1 /\ n = 0 /\ \E p \in Procs : call[p].sys = "copy"

\* The entries that name i in directories that are in use themselves, with the
\* ".." of subdirectories.
Named(i) ==
  i = ROOTINO \/ \E d \in Inums, n \in Names : IsDir(d) /\ dinode[d].ents[n] = i
Entries(i) ==
  {<<d, n>> \in Inums \X Names : IsDir(d) /\ dinode[d].ents[n] = i}
    \cup {<<d, "..">> : d \in {c \in Inums \ {ROOTINO} :
                                 IsDir(c) /\ Named(c) /\ dinode[c].parent = i}}

\* An inode never has more names than nlink says, at any point of link, unlink,
\* mkdir and their races, before and after a crash: so none is freed too early.
LinksCover == \A i \in Inums : Cardinality(Entries(i)) <= dinode[i].nlink

\* The kernel panics only for want of an inode, on the disk or in the cache,
\* and never because a pointer that a call, a descriptor or a current directory
\* keeps has gone stale: none leads to an entry without references, to a freed
\* inode, or from a directory to an inode without names.
NoPanic == panicked \in {"", "ialloc: no inodes", "iget: no inodes"}

\* The inode whose lock p waits for.
WaitsOn(p) ==
  IF todo[p] = << >> THEN None
  ELSE LET op == todo[p][1][1] IN
       CASE op \in {"unref", "created", "unlinked", "unlockput", "close"} -> None
         [] op \in {"walk", "walkp"} /\ call[p].path = << >> -> None
         [] op \in {"bad", "relock"} -> ip[p]
         [] OTHER -> todo[p][1][2]

Waits(p) == WaitsOn(p) # None /\ lock[WaitsOn(p)] # None

\* Nobody waits for ever: the inodes that a call has locked are unlocked when it
\* returns, and processes wait for each other in a circle only if one of them is in
\* sys_copy or in an iput, whose acquiresleep comes while create, unlink or dirlink
\* still has another inode locked.  The order directory before entry is kept
\* everywhere else.
WaitsEnd ==
  /\ \A i \in Inums : lock[i] # None => todo[lock[i]] # << >>
  /\ \A S \in SUBSET Procs \ {{}} :
       (\A p \in S : Waits(p) /\ lock[WaitsOn(p)] \in S) =>
         \E p \in S : call[p].sys = "copy" \/ todo[p][1][1] = "iput"

\* "iput() frees if the reference and link counts have fallen to zero"
\* (fs.c:119): with no crash, an inode without names and without references is
\* free.
NoLeak ==
  \A i \in Inums : dinode[i].type # "free" /\ dinode[i].nlink = 0 => ref[i] > 0

=============================================================================
