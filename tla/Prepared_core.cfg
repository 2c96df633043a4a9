CONSTANTS
  Unbound = Unbound
  NoParams = NoParams
  Statements <- Some
  Params <- Mixed
  Nearest <- Near
  Typed <- OneTyped
  MaxCalls = 5
SPECIFICATION Spec
INVARIANT TypeOK
INVARIANT RunsAsAsked
INVARIANT StatementsFreed
CHECK_DEADLOCK FALSE
