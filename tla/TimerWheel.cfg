SPECIFICATION Spec
CONSTANTS
  Task = {t1, t2}
  Threads = {h1, h2}
  Size = 3
  Starts = {0, 1, 2, 3}
  Intervals = {2, 6}
  MAX_COUNT = 99
  MaxBehind = 2
  MaxTicks = 7
SYMMETRY WheelSymmetry
INVARIANTS
  InOneList
  OnTime
CHECK_DEADLOCK FALSE
