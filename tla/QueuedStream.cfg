SPECIFICATION FairSpec
CONSTANTS
  MaxQueueSize = 2
  MaxQueueBytes = 3
  Sizes = {1, 2, 4}
  MaxBodies = 4
INVARIANTS WithinLimits Acked WakesExactly
PROPERTIES ImplementsFifo CallsReturn
CHECK_DEADLOCK FALSE
