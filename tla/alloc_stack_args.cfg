SPECIFICATION Spec
CONSTANTS
  ArgRegs <- MCArgRegs1
  NumRegs = 1
  Values <- MCValues
  Junk = Junk
  this = this
  x = x
  y = y
  r = r
  Fresh = {r}
  Immediates = {}
  Generals = 1
  NParams = 2
  Passed <- MCPassed1
  MaxCallArgs = 4
  RetAddr = RetAddr
  CallerBP = 7
  Uncounted = {}
  Crossing = FALSE
INVARIANTS
  ArgumentsDelivered
  AlignedUnlessOdd
CHECK_DEADLOCK FALSE
