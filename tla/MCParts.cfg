SPECIFICATION Spec
CONSTANTS
  MAXARGS = 3
  Keys = {"a", " ", "|", ">", "(", ")"}
  MaxLine = 5
  Trees <- SmallTrees
  ReChars = {"a", ".", "*", "^", "$"}
  MaxRe = 3
  TextChars = {"a", "b"}
  MaxText = 3
  CORE = 4
  Limit = 12
  Requests = {2, 3, 5}
  Files = {1, 2}
  Writers = {1, 2}
  OpenFiles = {o1, o2}
  DataBlocks = {1, 2, 3, 4, 5}
  BSIZE = 2
  NDIRECT = 1
  MAXOPBLOCKS = 6
  Lengths = {1, 5}
  MaxWrites = 3
  Users = {1, 2, 3}
  initproc = 1
  NPAGES = 18
  PGSIZE = 2
  NPTENTRIES = 2
  KERNBASE = 10
  UINT = 16
  Programs <- TwoPrograms
  Increments <- SomeIncrements
  Periodic <- TaskSets
  Lotteries <- TicketSets
  total_time = 14
  CPUs = {c1, c2}
  Threads = {t1, t2}
  Locks = {ptable, other}
  ptable_lock = ptable
  NoCPU = NoCPU
  MaxHeld = 2
  MaxDepth = 3
SYMMETRY Symmetry
INVARIANTS
  WordsKept PipesEnd ReadsBack
  MatchIsRight
  HeapPartitioned
  ReadsWhatWasWritten BlocksAccounted WriteFitsLog
  PagesAccounted SizeIsMapped
  DeadlinesMet LotteryCompletes
  LocksExclude InterruptsKept
CHECK_DEADLOCK FALSE
