SPECIFICATION Spec
CONSTANTS
  Procs = {p1, p2}
  ninodes = 5
  NINODE = 3
  Names = {"a", "b"}
  NFILE = 2
  NOFILE = 2
  Calls <- AllCalls
  MaxCrashes = 1
  MaxCalls = 4
INVARIANTS
  RefsCounted LinksCover NoPanic WaitsEnd
CHECK_DEADLOCK FALSE
SYMMETRY Symmetry
