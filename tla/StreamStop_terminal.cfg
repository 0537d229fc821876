SPECIFICATION Spec
CONSTANTS
  None = None
  TTL = 3
  StaleAfter = 2
  Budgets <- MCBudgets
INVARIANTS BegunStreamsHear
CHECK_DEADLOCK FALSE
