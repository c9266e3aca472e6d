SPECIFICATION ServerFairSpec
CONSTANTS
  Callers = {"reader", "app1", "app2"}
  Free = {"reader", "app1"}
  Sizes = {1, 2, 3}
  HighWater = 2
  MaxSends = 4
  Chunk = 3
  MaxTimers = 3
INVARIANTS HighWaterKept Delivered ClosedInTurn
PROPERTIES Ends
CHECK_DEADLOCK FALSE
