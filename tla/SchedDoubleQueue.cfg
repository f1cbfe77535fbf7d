SPECIFICATION Spec
CONSTANTS
  MaxConfig = 1
  MaxRun = 2
  MaxWaiting = 1
  MaxRestarts = 0
  ForceQueue = TRUE
  TokenExpires = TRUE
  ReuseIds = FALSE
  DbErrors = FALSE
CHECK_DEADLOCK FALSE
INVARIANT OneActiveRunPerConfig
