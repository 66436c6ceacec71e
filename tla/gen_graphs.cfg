SPECIFICATION Spec
CONSTANTS
  Graphs <- MCGraphs
  Fresh = {r, s}
  Junk = Junk
INVARIANTS
  TypeOK
  NoDummyRegister
  MovedOnce
  EdgeMovesParallel
  DefinedBeforeUse
PROPERTIES
  Implements
CHECK_DEADLOCK FALSE
