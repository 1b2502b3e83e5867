CONSTANTS
  t1 = t1  t2 = t2  t3 = t3
  c1 = c1  c2 = c2  c3 = c3  c4 = c4  c5 = c5
  Threads = {t1, t2, t3}
  Clients = {c1, c2}
  MinPoolSize = 2
  MaxPoolSize = 2
  MaxCalls = 3
  Outside = {"connect_fails", "query_throws", "time_passes", "monitor_runs"}
  NoThread = NoThread
  NoClient = NoClient
SPECIFICATION FairSpec
CHECK_DEADLOCK FALSE
INVARIANT RefusedOnlyWhenFull
PROPERTIES KeepsPromise EveryCallAnswered
