SPECIFICATION Spec
CONSTANTS
  Streams = {"s1", "s2"}
  Sizes = {1, 2}
  HighWater = 2
  MaxFrame = 1
  MaxBatch = 2
  MaxWindow = 1
  MaxShrinks = 1
  Worlds <- Shared
INVARIANTS ReadyIsScheduled EndIsTaken DeliveredWhole
CHECK_DEADLOCK FALSE
