SPECIFICATION FairSpec
CONSTANTS
  MaxRequests = 2
  MaxData = 1
  MaxChunks = 1
  MaxQueue = 1
  KeepAliveLimits = {1, 1000}
  FaultSets = {{"timeout", "eof"}}
INVARIANTS ServedInTurn TimedExactly
PROPERTIES Ends
CHECK_DEADLOCK FALSE
