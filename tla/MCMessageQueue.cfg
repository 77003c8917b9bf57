SPECIFICATION Spec
CONSTANTS
  MaxQueueSize = 2
  Consumers = {c1, c2}
  MaxConcurrency = 3
  MaxPuts = 5
  MaxClears = 1
  MaxValidates = 1
  Closed = Closed
INVARIANTS TypeOK QueueHoldsNewest Accounting NoLostWakeup
PROPERTIES DeliveryOrder Served ShutdownReleases
CHECK_DEADLOCK FALSE
