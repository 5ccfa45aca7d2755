SPECIFICATION Spec
CONSTANTS
  N = 3
  MaxTasks = 1
  Callees = {2}
INVARIANTS HeldLives Drained PoolsOutlive
PROPERTY Stops
CHECK_DEADLOCK FALSE
