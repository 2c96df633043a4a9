CONSTANTS
  NULL = NULL
  NoFrame = NoFrame
  FILL = FILL
  ZERO = ZERO
  JUNK = JUNK
  Types <- T
  Items <- Cells
  Fits <- Fit
  Copied = {"int", "ts", "time"}
  Text = {"text"}
  Narrow = {"time"}
  Stamps = {"ts"}
  STANDARD_VECTOR_SIZE = 2
  MaxCalls = 2
  Frames <- All
  TableTypes <- Three
  Faults = {"describe", "append", "flush"}
SPECIFICATION FairSpec
INVARIANT TypeOK
INVARIANT MaskOfBatch
INVARIANT InOrder
INVARIANT NothingLeft
PROPERTY Implements
PROPERTY CallReturns
CHECK_DEADLOCK FALSE
