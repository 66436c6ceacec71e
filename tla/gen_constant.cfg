SPECIFICATION Spec
CONSTANTS
  Graphs <- MCSiblings
  Fresh = {r, s}
  Junk = Junk
INVARIANTS
  DefinedBeforeUse
CHECK_DEADLOCK FALSE
