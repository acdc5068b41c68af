SPECIFICATION Spec
CONSTANTS
  Procs = {p1, p2}
  Blocks = {b1, b2, b3}
  Values = {0, 1}
  Zero = 0
  MAXOPBLOCKS = 3
  OpBlocks = 2
  LOGSIZE = 6
  nlog = 6
INVARIANTS
  QuietIsStable
PROPERTY CrashAtomicity
SYMMETRY Symmetry
