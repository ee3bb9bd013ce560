SPECIFICATION Spec
SYMMETRY Symmetry
CONSTANTS
  Names = {n1}
  Commands = {"start", "stop"}
  Clients = {c1, c2}
  Handler = handler
  Pids = {p1, p2}
  MaxRestarts = 2
  Policies <- MCPolicies
  MaxForks = 3
  PanicAborts = TRUE
  IOErrors = FALSE
  Nil = nil
INVARIANTS
  TypeOK
  RestartBudget
  OneOwner
  RegisteredIsWatched
  MetricsNeverRefused
PROPERTIES
  PidHitsTarget
  NoOtherOrphan
CHECK_DEADLOCK FALSE
