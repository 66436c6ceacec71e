SPECIFICATION Spec
CONSTANTS
  Setups <- MCAliased
  MaxCalls = 1
INVARIANTS
  InputStaysLoaded
CHECK_DEADLOCK FALSE
