SPECIFICATION Spec
SYMMETRY Symmetry
CONSTANTS
  Names = {n1}
  Commands = {"start", "shutdown"}
  Clients = {c1, c2}
  Handler = handler
  Pids = {p1, p2}
  MaxRestarts = 2
  Policies <- MCPolicies
  MaxForks = 2
  PanicAborts = FALSE
  IOErrors = FALSE
  Nil = nil
INVARIANT ShutdownTerminatesAll
CHECK_DEADLOCK FALSE
