SPECIFICATION Spec
CONSTANTS
  Workers = {w1}
  Senders = {s1}
  Opener = w1
  Sizes = {1, 2}
  MaxUnits = 3
  KernelFull = TRUE
  PeerLeaves = FALSE
PROPERTY FlushedAfterAll
