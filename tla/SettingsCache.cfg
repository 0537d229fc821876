SPECIFICATION FairSpec
CONSTANTS
  Getters = {g1, g2}
  Writers = {w1, w2}
  MaxVersion = 2
  MaxGen = 2
  None = None
INVARIANTS TypeOK GetIsCurrent
PROPERTIES GetsReturn
