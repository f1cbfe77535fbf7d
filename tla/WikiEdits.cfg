SPECIFICATION Spec
CONSTANTS
  branch = branch
  Docs = {branch, leaf}
  Branches = {branch}
  Links = {}
  Origin <- AllToBranch
  Folders <- FolderPaths
  Below <- OnlyItself
  None = none
  ForceOnMissing = TRUE
  Top = top
  Gone = gone
  Modes <- IncrementalModes
  MaxChanges = 2
  MaxRuns = 2
CONSTRAINT BeforeTheEnd
CHECK_DEADLOCK FALSE
PROPERTY EditsAreSeen
