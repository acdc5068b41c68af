SPECIFICATION Spec
CONSTANTS
  Procs = {p1, p2}
  Blocks = {k1, k2, k3, k4}
  NoBlock = k0
  Values = {0, 1}
  Zero = 0
  NBUF = 3
  MaxPinned = 1
  ReadSucceeds = {TRUE}
INVARIANTS
  SleeperHasHolder QueueIsWaiters
PROPERTIES
  ImplementsBlockStore
SYMMETRY Symmetry
