CONSTANTS
  Cap = 2
  Stride = 5
  NumItems = 35
  Torn = Torn
SPECIFICATION Spec
INVARIANTS InFlightIntact ReadInOrder
