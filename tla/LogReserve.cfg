SPECIFICATION FairSpec
CONSTANTS
  Procs = {p1, p2, p3}
  Blocks = {b1, b2, b3}
  Values = {0}
  Zero = 0
  MAXOPBLOCKS = 2
  OpBlocks = 1
  LOGSIZE = 4
  nlog = 4
INVARIANT NoPanic
PROPERTY SleeperWakes
