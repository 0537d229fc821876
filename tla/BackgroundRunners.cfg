SPECIFICATION FairSpec
CONSTANTS
  events = events
  alerts = alerts
  emails = emails
  Runners = {events, alerts, emails}
  Order <- BuildOrder
  HandsTo <- Chain
  Limit = 1
  Tasks = {t1, t2, t3}
  None = None
INVARIANTS TypeOK QuietStaysQuiet HandOffsAreKept
PROPERTIES DrainEnds
CHECK_DEADLOCK FALSE
