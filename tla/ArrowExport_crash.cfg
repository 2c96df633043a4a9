CONSTANTS
  Results <- Some
  Faults <- Any
  MaxCalls = 2
SPECIFICATION Spec
INVARIANT ErrorReceived
CHECK_DEADLOCK FALSE
