SPECIFICATION Spec
CONSTANTS
  ArgRegs <- MCArgRegs
  NumRegs = 2
  Values <- MCValues
  Junk = Junk
  this = this
  x = x
  y = y
  r = r
  Fresh = {r}
  Immediates = {}
  Generals = 1
  NParams = 3
  Passed <- MCPassed
  MaxCallArgs = 3
  RetAddr = RetAddr
  CallerBP = 7
  Uncounted = {}
  Crossing = FALSE
INVARIANTS
  IInv
  ReturnsToCaller
  OwnArgumentsPreserved
PROPERTIES
  FrameUntouched
  Implements
CHECK_DEADLOCK FALSE
