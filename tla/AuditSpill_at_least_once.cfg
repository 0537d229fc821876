SPECIFICATION Spec
CONSTANTS
  Replicas = {r1, r2}
  Events = {e1, e2, e3}
  QueueSize = 2
  FlushSize = 1
  SpillMax = 1
  MaxFaults = 2
  RenameCost = 2
  Survivor = r1
  Watched = {e1}
  None = None
INVARIANTS AtLeastOnce
CHECK_DEADLOCK FALSE
