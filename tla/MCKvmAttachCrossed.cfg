SPECIFICATION Spec
CONSTANTS
  i1 = i1
  i2 = i2
  v1 = v1
  v2 = v2
  NoInst = NoInst
  Insts = {i1, i2}
  Vms = {v1, v2}
  Target <- OwnTarget
  VcpuCount <- SmallGuests
  MaxSignals = 0
  MaxCrashes = 0
  MaxDeaths = 0
  MaxEintr = 0
INVARIANT
  OwnRegisters
CHECK_DEADLOCK FALSE
