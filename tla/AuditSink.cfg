SPECIFICATION MCSpec
CONSTANTS
  Events <- MCEvents
  Large = 2
  Small = 3
  Adders = {a1, a2}
  SubjectOf <- MCSubjectOf
  Size <- MCSize
  MaxItems = 2
  MaxSize = 3
  MaxPending = 3
CHECK_DEADLOCK FALSE
INVARIANTS TypeOK FullIsFlushed KeepsNewest NoneLeftBehind
PROPERTIES KeepsTrail EventsLeave
