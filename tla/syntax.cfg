SPECIFICATION Spec
CONSTANTS
  Letters = {"a"}
  Digits = {"1"}
  Spaces <- MCSpaces
  Length = 4
  Names <- MCNames
  Contexts <- MCContexts
INVARIANTS
  TokensAreLongest
  PositionsCount
  ErrorAtFirstImpossibleToken
  ExpectedTokensPossible
  PrintedTextParses
  OperatorsNest
CHECK_DEADLOCK FALSE
