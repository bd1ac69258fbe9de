SPECIFICATION FairSpec
CONSTANTS
  g1 = g1
  g2 = g2
  bad = bad
  nil = nil
  junk = junk
  Gens = {g1, g2, bad, nil, junk}
  Image = image
  None = none
  Malformed = {junk}
  Has <- MCHas
  Bad <- MCBad
  Panicking <- MCPanicking
  LevelOf <- MCLevelOf
  StartLevel = "info"
  Reloading = FALSE
  Faults = {"stage", "park", "promote", "restore"}
  MaxPublish = 3
  MaxCrashes = 2
CHECK_DEADLOCK FALSE
INVARIANTS TypeOK ServedAsReported DiskAsReported
PROPERTIES LatestServed
