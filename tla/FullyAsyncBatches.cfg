SPECIFICATION Spec
CONSTANTS
  RequiredSamples = 2
  TriggerSyncStep = 2
  StalenessPercent = 25
  ReplicaCapacity = 2
  TotalRolloutSteps = 6
  PendingMax = 2
  TestFreq = 2
  Faulty = {1}
  None = None
INVARIANTS NothingAfterEndSignal NoSampleLost
PROPERTIES ImplementsTrainingStream RunEnds
