SPECIFICATION Spec
CONSTANTS
  RequiredSamples = 1
  TriggerSyncStep = 2
  MaxVersion = 3
  EpochSamples = 3
  Epochs = 2
  SaveFreq = 2
  MaxKeep = 2
  MaxInFlight = 2
  MaxCrashes = 2
INVARIANTS TypeOK TrackedComplete NoSampleTwice
PROPERTIES ImplementsSnapshot Finishes
CHECK_DEADLOCK FALSE
