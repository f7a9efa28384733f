SPECIFICATION BackendsSpec
CONSTANTS
  Guests <- SmallGuests
  ChunkLen = 2
  BufCap = 2
  MaxAddr = 9
  CThreads = {c1, c2}
  Backends = {b1, b2}
  Caps <- MCCaps
  MaxCalls = 3
  MaxDepth = 2
  MaxItems = 3
INVARIANTS ReadIsExact OkIsComplete RemapFaithful OwnLastError DroppedOnce BuffersRight
CHECK_DEADLOCK FALSE
