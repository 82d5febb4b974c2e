CONSTANTS
  Feed <- MixedFeed
  MaxArrivals = 4
  Capacity = 2
SPECIFICATION BothSpec
INVARIANT LosslessIfQuiet
CHECK_DEADLOCK FALSE
