CONSTANTS
  t1 = t1  t2 = t2  t3 = t3
  c1 = c1  c2 = c2  c3 = c3  c4 = c4  c5 = c5
  Threads = {t1, t2}
  Clients = {c1, c2, c3, c4, c5}
  MinPoolSize = 1
  MaxPoolSize = 2
  MaxCalls = 3
  Outside = {"time_passes", "monitor_runs"}
  NoThread = NoThread
  NoClient = NoClient
SPECIFICATION Spec
CHECK_DEADLOCK FALSE
PROPERTY ClosesOnlyInactive
