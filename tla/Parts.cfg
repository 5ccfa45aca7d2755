SPECIFICATION Spec
CONSTANTS
  Callers = {c1, c2, c3}
  Half = 16
  MSGID_START = 3
  Pending = 6
  MaxBody = 4
  CHUNK_SIZE = 3
  Frame = 1
  Heading = 2
  MAX_HEADER = 4
  MaxMemory = 32
  MaxSent = 2
  MaxCuts = 1
  Buffers = 4
  WriteRoom = 16
  Grow = 4
  MINIMUM_FREE_PBUF = 8
  INITIAL_BUFFER_SIZE = 8
  UNPACK_STACK_DEPTH = 5
  Keys = {1, 3, 5}
  Slots = 2
  Own = 1
  Entry = {e1, e2, e3, e4}
  NIL = NIL
  OneResult = {"STOP", "KEEP"}
  Threads = {t1, t2}
  MaxLive = 4
  Workers = {w1, w2}
  First = w1
  Conns = {n1, n2}
  MaxFailures = 1
  Fibers = {f1, f2}
  Events = {"tick", "tock"}
  Together = {{"tick", "tock"}, {"close"}}
  Callbacks = {k1, k2}
  MaxObjects = 2
  MaxCalls = 3
  MaxWalks = 1
  MaxReceivers = 4
  MaxOpens = 2
  MaxFd = 8
  MaxData = 2
  Addresses = {a1, a2}
  MaxSends = 3
  MaxEntries = 2
  MaxCount = 2
  Signos = {1, 2}
  PipeSize = 2
  MaxRaised = 2
  MaxHooks = 2
  Fds = {3, 4}
  MaxName = 3
  NameRoom = 2
  MaxValues = 3
  Base = 8
  MaxOption = 3
  Functions = {g1, g2}
  Tables = {h1, h2}
  MaxChanges = 3
  IntBits = 8
  BigBits = 12
  MaxDigits = 3
  MaxText = 3
  MaxPrime = 60
  MaxLinks = 2
  MaxRetries = 2
  Storage = {s1, s2}
  MaxBegun = 3
  Arity = {0, 2}
  MaxYields = 2
  Octet = {77, 255}
  MaxPlain = 7
  CHARS_PER_LINE = 8
  MaxBlocks = 3
INVARIANTS
  Texts
  ReadAsSent
  RoundTrip
  HeldIntact
  WalkVisits
  HoldsTheLive
  PoolWhole
  Kept
  Notified
PROPERTIES
  FreshIds
  ImplementsMap
CHECK_DEADLOCK FALSE
