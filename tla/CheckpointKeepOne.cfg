SPECIFICATION Spec
CONSTANTS
  RequiredSamples = 1
  TriggerSyncStep = 2
  MaxVersion = 2
  EpochSamples = 2
  Epochs = 2
  SaveFreq = 1
  MaxKeep = 1
  MaxInFlight = 2
  MaxCrashes = 2
INVARIANTS KeptUntilSaved
CHECK_DEADLOCK FALSE
