SPECIFICATION Spec
CONSTANTS
  Fanout = 2
  PageSize = 3
  Levels <- ThreeLevels
  PhysSize = 13
  IoTables <- MCIoTables
  IoCells = {7}
  Root = 0
  Needle = 2
  BufLen = 4
  KernelBase = 4
  MaxWrites = 1
  RootEntries <- AnyRoot
  MaxHits = 1
INVARIANT
  NothingMissed
PROPERTY
  FoundRight
CHECK_DEADLOCK FALSE
