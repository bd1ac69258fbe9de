SPECIFICATION Spec
CONSTANTS
  Tasks = {t1, t2, t3}
  Workers = {w1, w2}
  Sub = sub
  Sweep = sweep
  NoTask = none
  Depth = 1
  FullWait = TRUE
  Reserve = 1
  MinBudget = 1
  Deadlines = {1, 3}
  PendingLimit = 2
  MaxAge = 2
SYMMETRY Symmetry
CHECK_DEADLOCK FALSE
INVARIANTS TypeOK AtMostOneReply NothingForgotten NoLostWakeup SleepsForAReason QueueBounded DrainedOnClose
