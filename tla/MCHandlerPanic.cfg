SPECIFICATION Spec
SYMMETRY Symmetry
CONSTANTS
  Names = {n1}
  Commands = {"start", "stop"}
  Clients = {c1}
  Handler = handler
  Pids = {p1, p2}
  MaxRestarts = 2
  Policies <- MCPolicies
  MaxForks = 2
  PanicAborts = FALSE
  IOErrors = FALSE
  Nil = nil
INVARIANT RequestFindsEntry
CHECK_DEADLOCK FALSE
