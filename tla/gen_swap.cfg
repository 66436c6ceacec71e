SPECIFICATION Spec
CONSTANTS
  Graphs <- MCSwap
  Fresh = {r, s}
  Junk = Junk
INVARIANTS
  EdgeMovesParallel
CHECK_DEADLOCK FALSE
