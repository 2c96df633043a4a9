CONSTANTS
  threads2 = threads2
  threads4 = threads4
  bad = bad
  Malformed = Malformed
  Unset = Unset
  Pairs <- AllPairs
  Refused <- BadPairs
  PairLists <- Lists
  Flags = 2
  MaxObjects = 3
  MaxHeld = 3
  MaxSettings = 2
SPECIFICATION Spec
INVARIANT TypeOK
INVARIANT OpenedAsAsked
INVARIANT NothingForgotten
INVARIANT NothingUndefined
INVARIANT HeldIsAlive
