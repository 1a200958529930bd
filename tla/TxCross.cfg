SPECIFICATION Spec
CONSTANTS
  None = None
  Bus = Bus
  c1 = c1
  c2 = c2
  k1 = k1
  k2 = k2
  s1 = s1
  s2 = s2
  Conns = {c1, c2}
  Keys = {k1, k2}
  Shards = {s1, s2}
  Home <- TwoShardHome
  Owner <- TwoShardOwner
  Ops = {"write"}
  MaxIssued = 3
  MaxQueue = 1
CHECK_DEADLOCK FALSE
PROPERTIES ExecSeesWrites
