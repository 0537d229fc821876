SPECIFICATION Spec
CONSTANTS
  a = a
  b = b
  c = c
  k1 = k1
  k2 = k2
  Replicas = {a, b, c}
  Writers = {a, c}
  Readers = {b}
  Keys = {k1, k2}
  Resync = Resync
  Heartbeat = Heartbeat
  None = None
  QueueLimit = 1
  TrackLimit = 1
  MaxWrites = 2
  MaxFaults = 1
  MaxEnds = 1
  MaxWire = 1
SYMMETRY Symmetry
INVARIANTS TypeOK LostIsNoticed
CHECK_DEADLOCK FALSE
