SPECIFICATION Spec
CONSTANTS
  MaxRequests = 2
  MaxData = 1
  MaxChunks = 1
  MaxQueue = 1
  KeepAliveLimits = {1000}
  FaultSets = {{"lost", "bad"}, {"timeout", "terminate", "abandon", "unread", "badhost"}, {"backpressure", "lost"}, {"backpressure", "timeout"}}
INVARIANTS DisconnectedOnce Orderly
CHECK_DEADLOCK FALSE
