SPECIFICATION Spec
CONSTANTS
  Fibers = {f1, f2}
  Answerers = {a1, a2}
  Slots = {s1, s2}
  NIL = NIL
  MaxIds = 2
INVARIANTS
  OneWakeup OneTaker
PROPERTY Resumed
CHECK_DEADLOCK FALSE
