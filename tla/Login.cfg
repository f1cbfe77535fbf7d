CONSTANTS
  Callers = {"trigger", "runner", "job", "route", "login", "thread", "w1", "w2", "p1", "p2", "t1", "t2"}
  Nobody = nobody
  MaxGrants = 3
  MaxLosses = 1
  Workers = {"w1", "w2"}
  Allowed = TRUE
  MaxRuns = 1
  MaxOpen = 1
  CliCallers = {"p1", "p2"}
  Commands = {"p1", "p2"}
  CommandOf <- OneEach
  Sessions = {"s1"}
  Tabs = {"t1", "t2"}
  NoSession = "none"
SPECIFICATION LoginSpec
CHECK_DEADLOCK FALSE
INVARIANTS
  LoginTypeOK RefusalHasCause
  RefreshTokenKept TokensArePaired CachedTokenKept
  SuccessIsKept TerminalAgreesWithPage
PROPERTIES StaleIsRenewed TokenRequestEnds
