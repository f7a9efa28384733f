SPECIFICATION FairSpec
CONSTANTS
  i1 = i1
  i2 = i2
  v1 = v1
  v2 = v2
  NoInst = NoInst
  Insts = {i1}
  Vms = {v1}
  Target <- OneTarget
  VcpuCount <- OneGuest
  MaxSignals = 2
  MaxCrashes = 1
  MaxDeaths = 1
  MaxEintr = 1
INVARIANTS
  Restored
  Released
  CallsOnPatchedText
PROPERTIES
  ImplementsLease
  Terminates
CHECK_DEADLOCK FALSE
