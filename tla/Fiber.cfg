SPECIFICATION Spec
CONSTANTS
  Workers = {t1, t2}
  SoloFibers = 2
  MultiFibers = 1
  Watchers = {w1, w2}
  Entry = {e1, e2}
  NIL = NIL
  SoloIds = 4
  MultiIds = 3
  MaxCmds = 2
  MaxTasks = 1
SYMMETRY Alike
INVARIANTS WakesItsWait HoldsItsWatcher BoundHears
PROPERTY RemovesOwn
