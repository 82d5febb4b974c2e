CONSTANTS
  Capacity = 3
  Allocators = {t1, t2}
  Freers = {t1, t2}
  NIL = NIL
SPECIFICATION Spec
INVARIANTS NeverTwoHolders
