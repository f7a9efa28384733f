SPECIFICATION LinuxTasksSpec
CONSTANTS
  Tasks = {t1, t2, k1}
  KThreads = {k1}
  InitTask = InitTask
  Mms = {m1, m2}
  Null = Null
  Kpgd = Kpgd
  Queries = {"collect", "id", "current"}
  MaxForks = 3
  MaxSwitches = 0
  MaxTaskFaults = 0
INVARIANT
  FindsCurrent
CHECK_DEADLOCK FALSE
