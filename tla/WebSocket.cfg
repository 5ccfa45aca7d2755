SPECIFICATION Spec
CONSTANTS
  Lens = {3, 12, 13}
  MaxFrames = 2
  Ext16 = 12
  Ext64 = 13
  Wrap = 1000
  HsLen = 2
  READSIZE = 24
  Buf = 22
  MaxCuts = 2
INVARIANTS
  InOrder
PROPERTY Arrives
CHECK_DEADLOCK FALSE
