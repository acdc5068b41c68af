SPECIFICATION Spec
CONSTANTS
  NPROC = 3
  NCPU = 2
  MaxPid = 3
  Signals = {2}
  KillArgs = {2}
INVARIANTS
  OneCPUPerProcess StacksInUse WaiterHasReason SignalsStayInTrap
