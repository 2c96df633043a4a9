CONSTANTS
  Results <- Some
  Faults <- Any
  MaxCalls = 2
SPECIFICATION Spec
INVARIANT TypeOK
INVARIANT SuccessIsWhole
INVARIANT RowsReported
INVARIANT EosMeansWhole
INVARIANT NothingGivenBackTwice
INVARIANT LittleIsLeft
CHECK_DEADLOCK FALSE
