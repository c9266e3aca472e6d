SPECIFICATION FairSpec
CONSTANTS
  Workers = 2
  MaxReloads = 2
  MaxQuits = 2
  MaxFails = 1
  Signals = {{"TERM"}, {"HUP"}, {"TERM", "HUP"}}
CHECK_DEADLOCK FALSE
INVARIANT Capacity
PROPERTIES Replenished Ends
