SPECIFICATION FairSpec
CONSTANTS
  Names = {n1}
  Commands = {"start", "stop"}
  Clients = {c1}
  Handler = handler
  Pids = {p1, p2}
  MaxRestarts = 2
  Policies <- MCPolicies
  MaxForks = 2
  PanicAborts = FALSE
  IOErrors = TRUE
  Nil = nil
CONSTRAINT FirstPid
INVARIANTS
  RegisteredIsWatched
PROPERTIES
  PidHitsTarget
  ExitHandled
  MetricsEnds
  NoOtherOrphan
  KeepsChains
CHECK_DEADLOCK FALSE
