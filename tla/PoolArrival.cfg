SPECIFICATION SpecArrival
CONSTANTS
  Tasks = {t1, t2, t3}
  Workers = {w1}
  Sub = sub
  Sweep = sweep
  NoTask = none
  Depth = 1
  FullWait = TRUE
  Reserve = 1
  MinBudget = 1
  Deadlines = {3}
  PendingLimit = 3
  MaxAge = 3
CHECK_DEADLOCK FALSE
PROPERTIES TakenInTime
