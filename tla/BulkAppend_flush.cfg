CONSTANTS
  NULL = NULL
  NoFrame = NoFrame
  FILL = FILL
  ZERO = ZERO
  JUNK = JUNK
  Types <- T
  Items <- Cells
  Fits <- Fit
  Copied = {"int", "ts", "time"}
  Text = {"text"}
  Narrow = {"time"}
  Stamps = {"ts"}
  STANDARD_VECTOR_SIZE = 2
  MaxCalls = 2
  Frames <- Writable
  TableTypes <- Three
  Faults = {"flush"}
SPECIFICATION Spec
INVARIANT SuccessMeansLanded
CHECK_DEADLOCK FALSE
