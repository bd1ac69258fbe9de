SPECIFICATION Spec
CONSTANTS
  MatchBudget = 6
  SuffixOf <- MCSuffixOf
  Lit <- MCLit
  r1 = r1
  r2 = r2
  Snapshots <- MCSnapshots
  Requests = {r1}
  Messages <- MCMessages
  Key <- OwnKeys
INVARIANTS
  TypeOK
  NoneSkipped
  AllOrNothing
  CopyOfCaptured
  CopyAsReported
  ObserveChangesNothing
  GroupsAsAsked
  BudgetKept
  AuditTellsTruth
  OnlySelected
  ProbePasses
