CONSTANTS
  MICROS = 10
  Raised = Raised
  Years <- Decades
  Times <- Tuples
  Ticks <- Numbers
  Dates <- DateTuples
  Days <- DayNumbers
  BITS = 2
  INLINE = 2
  FRACTION = 2
  Vectors <- Memory
  NoMask = NoMask
  NULL = NULL
SPECIFICATION ReadSpec
INVARIANT AnswerShaped
INVARIANT TimeKept
INVARIANT TicksKept
INVARIANT DateCounted
INVARIANT ReadsValues
PROPERTY TimesInOrder
