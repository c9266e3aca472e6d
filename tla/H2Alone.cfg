SPECIFICATION FairSpec
CONSTANTS
  Streams = {"s1"}
  Sizes = {1, 2}
  HighWater = 2
  MaxFrame = 1
  MaxBatch = 2
  MaxWindow = 1
  MaxShrinks = 1
  Worlds <- Alone
INVARIANTS BufferBounded
PROPERTIES SendsReturn
CHECK_DEADLOCK FALSE
