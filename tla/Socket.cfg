SPECIFICATION Spec
CONSTANTS
  Workers = {w1, w2}
  First = w1
  Fds = {1, 2}
  MaxOpens = 3
  MaxCloses = 2
  MaxQueue = 2
INVARIANTS
  Owned
  Served
PROPERTY Closes
CHECK_DEADLOCK FALSE
