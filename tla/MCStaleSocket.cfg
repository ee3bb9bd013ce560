SPECIFICATION Spec
CONSTANTS
  c1 = c1
  c2 = c2
  c3 = c3
  Clients = {c1, c2, c3}
  Daemons = {d1, d2}
  CommandLines <- MCCommandLines
  AcceptErrors = FALSE
  IOErrors = FALSE
  PanicAborts = FALSE
  NoDaemon = none
PROPERTIES
  RunningAtThisStage
CHECK_DEADLOCK FALSE
