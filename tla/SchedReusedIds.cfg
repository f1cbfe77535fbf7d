SPECIFICATION Spec
CONSTANTS
  MaxConfig = 3
  MaxRun = 3
  MaxWaiting = 0
  MaxRestarts = 0
  ForceQueue = TRUE
  TokenExpires = FALSE
  ReuseIds = TRUE
  DbErrors = FALSE
CHECK_DEADLOCK FALSE
INVARIANT RunExecutesItsConfig
