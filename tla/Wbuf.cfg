SPECIFICATION Spec
CONSTANTS
  Workers = {w1, w2}
  Senders = {s1, s2}
  Opener = w1
  Sizes = {1, 2}
  MaxUnits = 4
  KernelFull = TRUE
  PeerLeaves = TRUE
INVARIANTS
  InOrder
PROPERTY Flushed
