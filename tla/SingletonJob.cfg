SPECIFICATION FairSpec
CONSTANTS
  Replicas = {r1, r2}
  None = None
  MaxFaults = 2
INVARIANTS TypeOK OneRunPerLock LockIsOwned StopIsFinal
PROPERTIES LostRunsAreCancelled JobKeepsRunning StopReturns
CHECK_DEADLOCK FALSE
