SPECIFICATION FairSpec
CONSTANTS
  Streams = {s1, s2}
  Sizes = {1, 3}
  MaxPendingSends = 2
  MaxPendingBytes = 2
  MaxBatchedSends = 2
  MaxSends = 3
INVARIANTS WindowKept HandedInOrder EndIsFlushed
PROPERTIES SendsReturn
CHECK_DEADLOCK FALSE
