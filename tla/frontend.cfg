SPECIFICATION Spec
CONSTANTS
  Names <- Order
  Digits <- LiteralDigits
  IntBits = 4
  Input <- ReadInput
  Steps = 6
  Symbols = {"x", "y"}
  Decls = {d1, d2}
  Unknown <- nullptr
  MaxScopes = 3
  d1 = d1
  d2 = d2
  Slots = {1, 2}
  Texts <- PoolTexts
  Anchors = {1, 2, 3, 4, 5}
  Cells = 4
  Cell = 3
  Offset = 2
  MaxSymbols = 2
  MaxDepth = 2
  Requests <- OptimizerRequests
  Inputs <- ValueGraphs
  Results <- Yields
  WalkOrder <- irg_walk_topological
  Sets = {"expressions", "composed", "conditions", "scopes", "control", "main", "classes"}
INVARIANTS
  NamesAreLexical
  AcceptedProgramsRun
  GraphsDoWhatTheTreeSays
  ConstantsAreValues
  HidesOnlyWhatMayBeHidden
  EqualIffSameText
  ValidSymbolsReadTheirText
  OptimizedProgramsBehaveTheSame
  GraphsAreWellFormed
  LinkedValuesHold
PROPERTIES
  ImplementsScoping
  ReportedChangesShrink
  KeepsMeaning
CHECK_DEADLOCK FALSE
