SPECIFICATION Spec
CONSTANTS
  RequiredSamples = 2
  TriggerSyncStep = 1
  StalenessPercent = 50
  ReplicaCapacity = 2
  TotalRolloutSteps = 4
  PendingMax = 2
  TestFreq = 2
  Faulty = {}
  None = None
PROPERTIES TrainerContinues
