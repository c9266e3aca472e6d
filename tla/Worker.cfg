SPECIFICATION FairSpec
CONSTANTS
  c1 = c1
  c2 = c2
  Conns = {c1, c2}
  MaxQueue = 2
  MaxRequests = 1
  RequestBound = 2
  Worlds <- Served
CHECK_DEADLOCK FALSE
INVARIANTS ServesBetween OutcomeTold
PROPERTIES Settles
