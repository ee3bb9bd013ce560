SPECIFICATION FairSpec
CONSTANTS
  c1 = c1
  c2 = c2
  Clients = {c1, c2}
  Daemon = daemonProcess
  Requests <- MCRequests
  PanicAborts = TRUE
  IOErrors = TRUE
  IsRoot = FALSE
  NotGiven = notGiven
  Garbage = garbage
INVARIANTS
  TypeOK
  Confined
  SameEitherWay
  AnswerIsTrue
PROPERTIES
  NoStray
  AnswerEnds
  ReadersEnd
CHECK_DEADLOCK FALSE
