SPECIFICATION Spec
CONSTANTS
  Tasks = {t1, t2, k1}
  KThreads = {k1}
  InitTask = InitTask
  Mms = {m1, m2}
  Null = Null
  Kpgd = Kpgd
  Queries = {"collect", "id", "current"}
  MaxForks = 3
  MaxSwitches = 1
  MaxTaskFaults = 1
  Vmas = {v1, v2, v3}
  Files = {f1, f2}
  NoFile = NoFile
  NoVma = NoVma
  Pages = 4
  MaxVmas = 3
  MaxWrites = 2
  Reuse = FALSE
  f2 = f2
  libc = libc
  asm = asm
  NoModule = NoModule
  NoBase = NoBase
  Archs <- MCArchs
  Code <- MCCode
  Entries <- MCEntries
  Boot <- MCBoot
  ModuleOf <- MCModuleOf
  Rules <- MCRules
  Shape <- MCShape
  Exec <- MCExec
  Kernel <- MCKernel
  Top = 5
  MaxUnwindFaults = 1
  MaxRun = 2
  MaxFrames = 7
INVARIANTS NoneMissed EachOnce FoundMatches LookupsRight CallStackTrue
PROPERTIES WalkEnds
CHECK_DEADLOCK FALSE
