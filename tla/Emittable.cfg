SPECIFICATION Spec
CONSTANTS
  Threads = {t1, t2, t3}
  NULL = NULL
  MaxCommands = 4
INVARIANTS
  OneProcessor
  NotStranded
  InOrder
  References
PROPERTIES
  NoResurrection
  ImplementsStream
CHECK_DEADLOCK FALSE
