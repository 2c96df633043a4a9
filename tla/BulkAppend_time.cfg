CONSTANTS
  NULL = NULL
  NoFrame = NoFrame
  FILL = FILL
  ZERO = ZERO
  JUNK = JUNK
  Types <- T
  Items <- Cells
  Fits <- Fit
  Copied = {"int", "ts", "time"}
  Text = {"text"}
  Narrow = {"time"}
  Stamps = {"ts"}
  STANDARD_VECTOR_SIZE = 2
  MaxCalls = 2
  Frames <- Times
  TableTypes <- OneTime
  Faults = {}
SPECIFICATION Spec
INVARIANT LandedAsGiven
CHECK_DEADLOCK FALSE
