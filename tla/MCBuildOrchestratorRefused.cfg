SPECIFICATION Spec
CONSTANTS
  Intrinsics = {"int"}
  MinIndex = 4
  Headroom = 3
  IntBits = 2
  LongBits = 3
  NoState = NoState
  Absent = Absent
  Sources = {1, 2}
  SourceFacts <- MCSourceFacts
  MaxUpdates = 3
INVARIANT
  SparseUpdateFailsClosed
CHECK_DEADLOCK FALSE
