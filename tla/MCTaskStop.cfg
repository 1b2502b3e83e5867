CONSTANTS
  Executors = {e1, e2}
  Tasks <- MCTasks
  Timed = {2, 3}
  Stopper = 3
  InterVall <- MCInterVall
  LifeTime <- MCLifeTime
  MaxMSTime = 1000
  Nobody = Nobody
SPECIFICATION Spec
CHECK_DEADLOCK FALSE
INVARIANT StopWalksTheMap
