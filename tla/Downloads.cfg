CONSTANTS
  Threads = {t1, t2, t3}
  NoThread = none
  Capacity = 2
  Interval = 2
  MaxClock = 2
  MaxGrants = 4
  MaxAttempts = 2
  MaxPolls = 2
  MaxTasks = 3
  Files = {f1, f2}
  FlushInterval = 2
  Syncs <- SomeSyncs
  MaxEvents = 1
  MaxCommands = 2
  MaxFaults = 1
  Pages = {"A", "B", "C", "D"}
  Tree = {"A", "B"}
  Cites <- SomeCites
  MaxDepth = 2
  MaxTrips = 2
  MaxMishaps = 2
  BlockCount = 4
SPECIFICATION DownloadsSpec
CHECK_DEADLOCK FALSE
INVARIANTS
  DownloadsTypeOK
  RateIsLimited KnownIsLatest
  SkippedIsCurrent LossIsBounded
  FetchedOnce LinksLead
  TextComesThrough
PROPERTIES LockIsReleased ExportEnds
