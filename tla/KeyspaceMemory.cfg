SPECIFICATION Spec
CONSTANTS
  None = None
  k1 = k1
  k2 = k2
  str = str
  empty = empty
  full = full
  Keys = {k1, k2}
  Values = {str, empty, full}
  Collections = {empty, full}
  Empty = empty
  Compared = {str}
  Size <- Sizes
  Wrap = 8
  MaxMemory = 3
  DefaultBuckets = 2
  LoadNumerator = 1
  LoadDenominator = 3
  Batch = 1
  Slots = 2
  Resolution = 2
  Deadlines = {}
  Delays = {1}
  MaxNow = 1
VIEW View
SYMMETRY Symmetry
CHECK_DEADLOCK FALSE
INVARIANTS TypeOK MemoryExact
PROPERTIES ImplementsMap
