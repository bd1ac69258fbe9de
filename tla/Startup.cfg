SPECIFICATION Spec
CONSTANTS
  Atoi <- MCAtoi
  ParseDuration <- MCParseDuration
  splitList <- MCsplitList
  Levels = {"debug", "info"}
  isRedisURL <- MCRedisURLs
  GOMAXPROCS = 2
  Null = Null
  GoodNames = {"mask", "other", "third"}
  Patterns = {"a", "aa", "^"}
  HeaderKey <- MCHeaderKey
  Breaking = {"crlf"}
  MaxGroups = 2
  MaxOpsPerGroup = 2
  MaxMatchesPerOp = 4
  DefaultMaxMatch = 3
  MatchBudget = 4
  SuffixOf <- MCSuffixOf
  Lit <- MCLit
  Worlds <- MCWorlds
INVARIANTS
  ServesAsConfigured
  ServesAsWritten
CHECK_DEADLOCK FALSE
