SPECIFICATION Spec
CONSTANTS
  Procs = {p1, p2}
  INPUT_BUF = 3
  Word = 6
  Letters = {"x"}
  Sizes = {0, 1, 4}
  Outputs <- Lines
  COLS = 2
  ROWS = 3
INVARIANTS
  CursorOnScreen SleeperHasNothing
PROPERTIES
  EofIsSeen ImplementsLineDiscipline
SYMMETRY Symmetry
CHECK_DEADLOCK FALSE
