CONSTANTS
  Keys = {k1, k2, k3, k4}
  Slots = 4
  MaxSymbols = 3
  MaxDrops = 2
  Empty = Empty
  Invalid = Invalid
SPECIFICATION Spec
INVARIANTS TypeOK ProbeEnds OneSlotPerSymbol
PROPERTIES NamesSpec
