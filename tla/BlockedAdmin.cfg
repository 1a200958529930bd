SPECIFICATION Spec
CONSTANTS
  None = None
  k1 = k1
  k2 = k2
  c1 = c1
  c2 = c2
  Keys <- MCKeys
  Conns = {c1, c2}
  Elems = {1}
  Requests <- PopRequests
  Commands = {"push", "move", "del", "rename", "flush", "unblock", "kill"}
  Timeouts = {0, 1}
  MaxNow = 1
  MaxBlocks = 2

SYMMETRY MCSymmetry
CHECK_DEADLOCK FALSE
INVARIANTS RegistryMatchesTasks RegisteredIsQueued NoLostWakeup
PROPERTIES ResponseStable
