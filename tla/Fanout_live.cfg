SPECIFICATION FairSpec
CONSTANTS
  a = a
  b = b
  c = c
  k1 = k1
  k2 = k2
  Replicas = {a, b}
  Writers = {a}
  Readers = {b}
  Keys = {k1}
  Resync = Resync
  Heartbeat = Heartbeat
  None = None
  QueueLimit = 1
  TrackLimit = 64
  MaxWrites = 2
  MaxFaults = 2
  MaxEnds = 1
  MaxWire = 2
PROPERTIES StaleKeysGo
CHECK_DEADLOCK FALSE
