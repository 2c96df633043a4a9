CONSTANTS
  NULL = NULL
  NoQuery = NoQuery
  Types <- T
  Kids <- K
  Unsupported = {"uuid"}
  Enums = {"enum"}
  Decodable <- Good
  NoEnum <- Plain
  Cells = {"a", "b"}
  Queries <- Answers
  MaxCalls = 2
SPECIFICATION FairSpec
INVARIANT TypeOK
INVARIANT Ledger
INVARIANT SuccessFreesAll
INVARIANT OneTypePerColumn
INVARIANT ReadSoFar
PROPERTY Implements
PROPERTY CallerOwnsType
PROPERTY CallReturns
CHECK_DEADLOCK FALSE
