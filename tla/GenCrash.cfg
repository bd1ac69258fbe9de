SPECIFICATION Spec
CONSTANTS
  g1 = g1
  g2 = g2
  bad = bad
  nil = nil
  junk = junk
  Gens = {g1, g2, bad, junk}
  Image = image
  None = none
  Malformed = {junk}
  Has <- MCHas
  Bad <- MCBad
  Panicking <- MCPanicking
  LevelOf <- MCLevelOf
  StartLevel = "info"
  Reloading = FALSE
  Faults = {}
  MaxPublish = 2
  MaxCrashes = 1
CHECK_DEADLOCK FALSE
PROPERTIES RestoredWasApplied
