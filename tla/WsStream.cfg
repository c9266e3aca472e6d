SPECIFICATION FairSpec
CONSTANTS
  MaxFrames = 3
  MaxSize = 2
  MaxQueue = 2
  MaxSends = 1
  MaxChunks = 2
  MaxPings = 1
  FaultSets = {{"early"}, {"lost", "leaves"}, {"reject", "leaves"}, {"backpressure", "reject"}, {"badrequest", "badsubprotocol", "leaves"}, {"backpressure", "pings"}}
INVARIANTS WireInOrder GivenInOrder
PROPERTIES Ends
CHECK_DEADLOCK FALSE
