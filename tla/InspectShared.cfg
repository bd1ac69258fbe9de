SPECIFICATION Spec
CONSTANTS
  MatchBudget = 6
  SuffixOf <- MCSuffixOf
  Lit <- MCLit
  r1 = r1
  r2 = r2
  Snapshots <- MCSnapshots
  Requests = {r1, r2}
  Messages <- FewMessages
  Key <- SharedKey
INVARIANT CopyAsReported
