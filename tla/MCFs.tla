-------------------------------- MODULE MCFs --------------------------------
EXTENDS Fs, TLC

\* sys_open with and without O_CREATE, and the calls that work like it.
Path(sys, walk, first, elems) ==
  [sys |-> sys, walk |-> walk, first |-> first, path |-> elems,
   absolute |-> TRUE, write |-> TRUE, new |-> << >>]

OpenCall(e) == Path("open", "walk", "open", e)
CreateCall(e) == Path("open", "walkp", "create", e)
MkdirCall(e) == Path("mkdir", "walkp", "create", e)
MknodCall(e) == Path("mknod", "walkp", "create", e)
UnlinkCall(e) == Path("unlink", "walkp", "lookup", e)
ChdirCall(e) == Path("chdir", "walk", "chdir", e)
LinkCall(e, n) == [Path("link", "walk", "link", e) EXCEPT !.new = n]
CopyCall(e, n) == [Path("copy", "walk", "copy", e) EXCEPT !.new = n]
Relative(c) == [c EXCEPT !.absolute = FALSE]

a == "a"
b == "b"

AllCalls ==
  {CreateCall(<<a>>), UnlinkCall(<<a>>), UnlinkCall(<<b>>), LinkCall(<<a>>, <<b>>),
   MkdirCall(<<a>>), Relative(CreateCall(<<b>>)), ChdirCall(<<a>>),
   CopyCall(<<a>>, <<b>>), OpenCall(<<a>>), MknodCall(<<a, b>>), MkdirCall(<<a, a>>)}

Symmetry == Permutations(Procs)

=============================================================================
