SPECIFICATION FairSpec
CONSTANTS
  None = None
  TTL = 3
  StaleAfter = 2
  Budgets <- MCBudgets
INVARIANTS TypeOK OneTerminalEvent CardsTellTruth StopIsTrue
PROPERTIES ApplyIsWhole StoppedEnds
CHECK_DEADLOCK FALSE
