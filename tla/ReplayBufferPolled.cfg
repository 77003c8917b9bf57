SPECIFICATION Spec
CONSTANTS
  BatchSize = 1
  N = 2
  LastStep = 2
  TestFreq = 2
  ValBefore = TRUE
INVARIANTS BatchComplete
PROPERTIES Trained
CHECK_DEADLOCK FALSE
