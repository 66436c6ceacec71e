SPECIFICATION Spec
CONSTANTS
  Setups <- MCSetups
  MaxCalls = 2
INVARIANTS
  TypeOK
  SuccessMeansDone
  LinkerSeesCompleteFiles
  NoTemporaryLeft
  OptimizedAsRequested
PROPERTIES
  DefaultOutputKept
  ReportsTruly
  CallEnds
CHECK_DEADLOCK FALSE
