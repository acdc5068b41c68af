SPECIFICATION FairSpec
CONSTANTS
  NPROC = 3
  NCPU = 1
  MaxPid = 3
  Signals = {}
  KillArgs = {2}
PROPERTIES
  RunnableRuns KilledExits OrphansReaped
