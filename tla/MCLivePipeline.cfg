CONSTANTS
  Feed <- ThreeSegments
  Files <- ThreeFiles
  Payload <- FiveUpdates
  Wanted <- AllOrOne
  MaxArrivals = 3
  BufferLen = 104
  Capacity = 2
  MaxSymbols = 2
  MaxLevels = 2
SPECIFICATION PipelinesSpec
INVARIANTS SlotIntact LinesFollowReference DamageConfined DrainedAtExit SameAsOffline OfflineDropsNone
PROPERTIES JoinReturns
