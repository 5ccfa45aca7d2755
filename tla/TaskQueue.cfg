SPECIFICATION Spec
CONSTANTS
  Producers = {t1, t2}
  Chunks = {c1, c2, c3}
  NIL = NIL
  N = 3
  MaxItems = 4
INVARIANTS
  OwnCells
PROPERTIES
  PushReturns
  ImplementsFifo
CHECK_DEADLOCK FALSE
