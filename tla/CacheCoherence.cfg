SPECIFICATION FairSpec
CONSTANTS
  r1 = r1
  r2 = r2
  k1 = k1
  k2 = k2
  s1 = s1
  Reqs = {r1, r2}
  Keys = {k1, k2}
  AllKeys = AllKeys
  Stripes = {s1}
  StripeOf <- OneStripe
  None = None
  MaxOps = 3
  MaxFlightAttempts = 1
INVARIANTS TypeOK Coherent NoUncommittedEntry FlightsAreLed
PROPERTIES CallsReturn StaleEntriesGo
CHECK_DEADLOCK FALSE
