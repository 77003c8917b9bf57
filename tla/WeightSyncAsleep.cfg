SPECIFICATION Spec
CONSTANTS
  Standalone = {s1}
  Hybrid = {h1}
  Requests = {r1}
  MaxVersion = 1
  TestFreq = 1
  PartialRollout = TRUE
  None = None
CHECK_DEADLOCK FALSE
INVARIANTS InterruptionInvisible
