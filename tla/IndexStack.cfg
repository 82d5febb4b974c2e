CONSTANTS
  Cores = {c1, c2}
  Capacity = 3
SPECIFICATION Spec
INVARIANTS OnePlace
PROPERTIES PoolSpec
