SPECIFICATION Spec
CONSTANTS
  RequiredSamples = 1
  TriggerSyncStep = 1
  StalenessPercent = 100
  ReplicaCapacity = 2
  TotalRolloutSteps = 5
  PendingMax = 2
  TestFreq = 2
  Faulty = {2}
  None = None
INVARIANTS TypeOK CounterUndercountsByOne ParkedWhilePaused OutstandingBound
PROPERTIES EndSignalNotDropped
