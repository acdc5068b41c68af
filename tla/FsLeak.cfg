SPECIFICATION Spec
CONSTANTS
  Procs = {p1, p2}
  ninodes = 5
  NINODE = 3
  Names = {"a", "b"}
  NFILE = 2
  NOFILE = 2
  Calls <- AllCalls
  MaxCrashes = 0
  MaxCalls = 4
INVARIANT NoLeak
CHECK_DEADLOCK FALSE
SYMMETRY Symmetry
