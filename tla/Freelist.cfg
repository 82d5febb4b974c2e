CONSTANTS
  Capacity = 3
  Allocators = {t1}
  Freers = {t1, t2, t3}
  NIL = NIL
SPECIFICATION Spec
INVARIANTS TypeOK OnePlace
PROPERTIES PoolSpec
