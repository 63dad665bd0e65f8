\* Two streams at once, three copies, a mishap and so perhaps a second agent.
SPECIFICATION FairSpec
CONSTANTS
  Contents <- Offers
  Threshold = 2
  MaxSize = 3
  MaxStreams = 2
  MaxChanges = 3
  MaxFaults = 1
INVARIANTS HandedOnWhole HandedOnInOrder
PROPERTY WaitsEnd
CHECK_DEADLOCK FALSE
