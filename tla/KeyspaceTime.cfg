SPECIFICATION Spec
CONSTANTS
  None = None
  k1 = k1
  k2 = k2
  str = str
  empty = empty
  full = full
  Keys = {k1, k2}
  Values = {str, empty}
  Collections = {empty}
  Empty = empty
  Compared = {str}
  Size <- Sizes
  Wrap = 4
  MaxMemory = None
  DefaultBuckets = 2
  LoadNumerator = 1
  LoadDenominator = 3
  Batch = 1
  Slots = 2
  Resolution = 2
  Deadlines = {1, 5}
  Delays = {}
  MaxNow = 6
VIEW View
SYMMETRY Symmetry
CHECK_DEADLOCK FALSE
INVARIANTS OneTable WheelWindow DeadlineHasTimer
PROPERTIES ImplementsMap
