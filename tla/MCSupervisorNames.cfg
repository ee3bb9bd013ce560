SPECIFICATION Spec
SYMMETRY Symmetry
CONSTANTS
  Names = {n1, n2}
  Commands = {"start", "stop", "shutdown"}
  Clients = {c1}
  Handler = handler
  Pids = {p1, p2}
  MaxRestarts = 2
  Policies <- MCPolicies
  MaxForks = 3
  PanicAborts = FALSE
  IOErrors = FALSE
  Nil = nil
INVARIANTS
  OneOwner
  RegisteredIsWatched
PROPERTIES
  PidHitsTarget
  NoOtherOrphan
CHECK_DEADLOCK FALSE
