SPECIFICATION Spec
CONSTANTS
  root = root
  sub = sub
  link = link
  Docs = {d1, d2}
  Folders <- TwoFolders
  Below <- TheTree
  None = none
  ForceOnMissing = TRUE
  Root = root
  Parent <- TheParent
  Gone = gone
  Links = {link}
  Target <- LinkTarget
  Place <- LinkPlace
  Modes <- SomeModes
  LiveMoves = FALSE
  MaxChanges = 2
  MaxRuns = 2
CONSTRAINT BeforeTheEnd
CHECK_DEADLOCK FALSE
INVARIANTS TypeOK SkippedIsCurrent PlannedOnce
PROPERTIES DeletedIsGone MirrorsAtEnd SettledAtEnd
