SPECIFICATION FairSpec
CONSTANTS
  Procs = {p1, p2}
  Killable = {p1}
  Bytes = {"a", "b"}
  Strings <- TwoStrings
  Sizes = {1, 2}
  PIPESIZE = 2
  Word = 4
INVARIANT NoUseAfterFree
PROPERTIES
  ImplementsByteStream CallsReturn
CHECK_DEADLOCK FALSE
