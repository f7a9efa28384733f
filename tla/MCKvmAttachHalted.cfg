SPECIFICATION Spec
CONSTANTS
  i1 = i1
  i2 = i2
  v1 = v1
  v2 = v2
  NoInst = NoInst
  Insts = {i1}
  Vms = {v1}
  Target <- OneTarget
  VcpuCount <- OneGuest
  MaxSignals = 1
  MaxCrashes = 0
  MaxDeaths = 0
  MaxEintr = 0
INVARIANT
  NeverHalted
CHECK_DEADLOCK FALSE
