SPECIFICATION SFairSpec
CONSTANTS
  Tasks = {t1, t2}
  Workers = {w1}
  Sub = sub
  Sweep = sweep
  NoTask = none
  Depth = 1
  FullWait = FALSE
  Reserve = 1
  MinBudget = 1
  Deadlines = {1, 3}
  PendingLimit = 1
  MaxAge = 2
  MaxItems = 2
  MaxSize = 9
  MaxPending = 2
CHECK_DEADLOCK FALSE
INVARIANTS AnswersAreAudited CountersMatchReplies
PROPERTIES SignalEnds
