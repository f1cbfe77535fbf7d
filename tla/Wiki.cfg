SPECIFICATION Spec
CONSTANTS
  branch = branch
  Docs = {branch, leaf, link}
  Branches = {branch}
  Links = {link}
  Origin <- AllToBranch
  Folders <- FolderPaths
  Below <- OnlyItself
  None = none
  ForceOnMissing = TRUE
  Top = top
  Gone = gone
  Modes <- SomeModes
  MaxChanges = 2
  MaxRuns = 2
CONSTRAINT BeforeTheEnd
CHECK_DEADLOCK FALSE
INVARIANTS HandledOnce RecordIsNotAhead TypeOK
PROPERTY LeavesMirroredAtEnd
