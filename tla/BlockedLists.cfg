SPECIFICATION FairSpec
CONSTANTS
  None = None
  k1 = k1
  k2 = k2
  c1 = c1
  c2 = c2
  Keys <- MCKeys
  Conns = {c1, c2}
  Elems = {1, 2}
  Requests <- ListRequests
  Commands = {"push", "move", "pop"}
  Timeouts = {0, 1}
  MaxNow = 1
  MaxBlocks = 2
CHECK_DEADLOCK FALSE
INVARIANTS TypeOK RegisteredIsQueued NoLostWakeup ElementsConserved
PROPERTIES DrainTerminates
