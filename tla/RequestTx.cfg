SPECIFICATION FairSpec
CONSTANTS
  first = first
  other = other
  key = key
  p1 = p1
  p2 = p2
  Requests = {first, other}
  Keys = {key}
  NoKey = NoKey
  Read = Read
  Prints = {p1, p2}
  Mixes <- MCMixes
  MaxFaults = 2
  MaxExpiries = 1
  Omitted = Omitted
  Data = Data
  Nothing = Nothing
  None = None
INVARIANTS TypeOK OneCreatePerKey RecordWithRow HooksFollowCommit
PROPERTIES RetriesEnd ImplementsKeyedCreate
CHECK_DEADLOCK FALSE
