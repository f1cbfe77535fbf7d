SPECIFICATION Spec
CONSTANTS
  MaxConfig = 2
  MaxRun = 3
  MaxWaiting = 0
  MaxRestarts = 1
  ForceQueue = FALSE
  TokenExpires = TRUE
  ReuseIds = FALSE
  DbErrors = FALSE
CHECK_DEADLOCK FALSE
INVARIANT OneActiveRunPerConfig
