SPECIFICATION Spec
CONSTANTS
  MaxConfig = 2
  MaxRun = 3
  MaxWaiting = 0
  MaxRestarts = 1
  ForceQueue = TRUE
  TokenExpires = FALSE
  ReuseIds = TRUE
  DbErrors = TRUE
CHECK_DEADLOCK FALSE
INVARIANTS FlagsBacked SerialExecution
