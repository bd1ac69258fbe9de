SPECIFICATION Spec
CONSTANTS
  g1 = g1
  g2 = g2
  bad = bad
  nil = nil
  junk = junk
  Gens = {g1, g2, bad, nil, junk}
  Image = image
  None = none
  Malformed = {junk}
  Has <- MCHas
  Bad <- MCBad
  Panicking <- MCPanicking
  LevelOf <- MCLevelOf
  StartLevel = "info"
  Reloading = TRUE
  Faults = {"promote", "restore"}
  MaxPublish = 3
  MaxCrashes = 1
CHECK_DEADLOCK FALSE
INVARIANTS ServedIsValid
