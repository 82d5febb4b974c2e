CONSTANTS
  Feed <- MixedFeed
  MaxArrivals = 4
  Capacity = 2
SPECIFICATION BothSpec
INVARIANTS TypeOK OnlyUpdates EveryMessageCounted UnflaggedMeansArrived FlagsNeedGaps GapCountExact SameCounts ContiguousIfQuiet
PROPERTIES NeverWaits
CHECK_DEADLOCK FALSE
