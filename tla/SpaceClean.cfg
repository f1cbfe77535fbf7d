SPECIFICATION Spec
CONSTANTS
  root = root
  sub = sub
  link = link
  Docs = {d1, d2}
  Folders <- TwoFolders
  Below <- TheTree
  None = none
  ForceOnMissing = TRUE
  Root = root
  Parent <- TheParent
  Gone = gone
  Links = {}
  Target <- LinkTarget
  Place <- LinkPlace
  Modes <- CleaningModes
  LiveMoves = FALSE
  MaxChanges = 2
  MaxRuns = 2
CONSTRAINT BeforeTheEnd
CHECK_DEADLOCK FALSE
PROPERTY CleansOnlyDeleted
