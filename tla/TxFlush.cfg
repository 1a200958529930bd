SPECIFICATION Spec
CONSTANTS
  None = None
  Bus = Bus
  c1 = c1
  c2 = c2
  k1 = k1
  k2 = k2
  s1 = s1
  s2 = s2
  Conns = {c1, c2}
  Keys = {k1}
  Shards = {s1}
  Home <- OneShardHome
  Owner <- OneShardOwner
  Ops = {"write", "flush"}
  MaxIssued = 2
  MaxQueue = 1
CHECK_DEADLOCK FALSE
INVARIANTS UnwatchedExecRuns
