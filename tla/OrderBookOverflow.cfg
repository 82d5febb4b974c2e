CONSTANTS
  Symbols = {s1}
  Prices = {1, 2, 3}
  Sizes = {1}
  MaxLevels = 2
  MaxApplied = 5
SPECIFICATION Spec
INVARIANT OverflowHarmless
CHECK_DEADLOCK FALSE
