SPECIFICATION Spec
CONSTANTS
  RequiredSamples = 1
  TriggerSyncStep = 1
  StalenessPercent = 100
  ReplicaCapacity = 1
  TotalRolloutSteps = 5
  PendingMax = 2
  TestFreq = 2
  Faulty = {}
  None = None
INVARIANTS RolloutNumBound
