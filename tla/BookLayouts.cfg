CONSTANTS
  Symbols = {s1}
  Prices = {1, 2, 3, 4}
  Sizes = {1, 2}
  MaxLevels = 3
  MaxApplied = 5
SPECIFICATION LayoutSpec
INVARIANTS TypeOK SortedFromBest MissingOnlyByOverflow Mirrored
PROPERTIES DropKeepsBest PriceBookSpec
CHECK_DEADLOCK FALSE
