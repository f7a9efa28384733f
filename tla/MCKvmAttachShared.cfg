SPECIFICATION Spec
CONSTANTS
  i1 = i1
  i2 = i2
  v1 = v1
  v2 = v2
  NoInst = NoInst
  Insts = {i1, i2}
  Vms = {v1}
  Target <- SharedTarget
  VcpuCount <- OneSmallGuest
  MaxSignals = 1
  MaxCrashes = 1
  MaxDeaths = 0
  MaxEintr = 0
INVARIANTS
  LibraryLoaded
  OwnRegisters
CHECK_DEADLOCK FALSE
