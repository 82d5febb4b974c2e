CONSTANTS
  Feed <- MixedFeed
  MaxArrivals = 4
  Capacity = 2
SPECIFICATION BothSpec
PROPERTY CutsCounted
CHECK_DEADLOCK FALSE
