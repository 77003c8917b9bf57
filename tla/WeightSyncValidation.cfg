SPECIFICATION Spec
CONSTANTS
  Standalone = {s1}
  Hybrid = {h1}
  Requests = {r1}
  MaxVersion = 4
  TestFreq = 2
  PartialRollout = TRUE
  None = None
CHECK_DEADLOCK FALSE
INVARIANTS TypeOK OneVersionPerCall StampsCover
PROPERTIES NeverBackwards TurnReturns
