SPECIFICATION Spec
CONSTANTS
  p1 = p1
  p2 = p2
  t1 = t1
  t2 = t2
  t3 = t3
  m1 = m1
  m2 = m2
  m3 = m3
  i1 = i1
  i2 = i2
  NoId = NoId
  NoFile = NoFile
  Absent = Absent
  NoThread = NoThread
  NoSymbols = NoSymbols
  Failed = Failed
  Panicked = Panicked
  NoModule = NoModule
  m4 = m4
  Procs = {p1, p2}
  Threads = {t1, t2, t3}
  Modules = {m1, m2, m3, m4}
  ProcOf <- MCProcOf
  NameOf <- MCNameOf
  IdOf <- MCIdOf
  Preloaded = {"u"}
  NPieces = 3
  MaxAsks = 3
  MaxCrashes = 1
  MaxFaults = 1
  Offsets = {0, 1, 3}
  SymNames = {1, 2}
  Spans <- MCSpans
  Starts = {2}
  Addresses = {0, 2, 3, 4, 5, 6}
  Nothing = Nothing
  MaxSymbols = 3
  Dies <- MCDies
  Missing = Missing
  Wrong = Wrong
  Records <- MCRecords
  NoFields = NoFields
  NoType = NoType
  NoValue = NoValue
  Pointers <- MCPointers
INVARIANTS
  WholeUnlessSpoiled
  RightPdb
  LookupsFaithful
  TextDenotesAddress
  StructsRight
  FieldsWhereSymbolsSay
PROPERTIES
  KeptForEver
  Answered
CHECK_DEADLOCK FALSE
