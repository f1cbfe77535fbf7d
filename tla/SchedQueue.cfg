SPECIFICATION Spec
CONSTANTS
  MaxConfig = 2
  MaxRun = 3
  MaxWaiting = 0
  MaxRestarts = 1
  ForceQueue = TRUE
  TokenExpires = TRUE
  ReuseIds = FALSE
  DbErrors = FALSE
CHECK_DEADLOCK FALSE
INVARIANTS TypeOK ActiveRunIsOwned QueuePositionHonest
PROPERTIES CancelledIsNotDispatched FinishedIsNotRevived SubmissionOrder
