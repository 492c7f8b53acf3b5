SPECIFICATION HubFairSpec
CONSTANTS
  Sites = {d1}
  Streams = {s1, s2}
  s1 = s1
  s2 = s2
  d1 = d1
  BufCap = 2
  ChanCap = 2
  MaxOps = 3
  MaxEvents = 3
INVARIANTS HubTypeOK InOrder NothingMissed
PROPERTY BufferLifetime
CHECK_DEADLOCK FALSE
