SPECIFICATION Spec
CONSTANTS
  Eprocs = {e1, e2, e3, e4}
  PsHead = PsHead
  Pids = {4, 8, 12, 16}
  NoProc = NoProc
  MaxCreates = 2
  Vads <- MCVads
  Eras = {"old", "new", "none"}
  LowPart = 4
  Pages = {1, 2, 5, 6, 7, 11, 12}
  MaxChanges = 1
  Frames = {1, 2, 3}
  InvBit = 8
  MaxMoves = 3
  PageCells = 5
  Carry = 2
  RecCells = 3
  Images <- MCImages
  MaxImages = 2
  NoRecord = NoRecord
  Program <- MCProgram
  Callable = {20, 30, 40, 70}
  Handler = 60
  Starting = 10
  ModuleSpans <- MCSpans
  JitCode = {70, 71}
  Functions <- MCFunctions
  Unwinds <- MCUnwinds
  StackTop = 16
  Absent = Absent
  MaxCalls = 2
  MaxSteps = 1
INVARIANTS FamilyRight VmaLookupRight VmasInOrder SoftPagesRight KernelFound WinCallStackTrue
PROPERTIES FamilyEnds
CHECK_DEADLOCK FALSE
