CONSTANTS
  NULL = NULL
  NoQuery = NoQuery
  Types <- T
  Kids <- K
  Unsupported = {"uuid"}
  Enums = {"enum"}
  Decodable <- Good
  NoEnum <- Plain
  Cells = {"a", "b"}
  Queries <- Answers
  MaxCalls = 2
SPECIFICATION Spec
INVARIANT ValuesKept
CHECK_DEADLOCK FALSE
