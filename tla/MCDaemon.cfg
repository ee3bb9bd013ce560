SPECIFICATION FairSpec
CONSTANTS
  c1 = c1
  c2 = c2
  c3 = c3
  Clients = {c1, c2, c3}
  Daemons = {d1, d2}
  CommandLines <- MCCommandLines
  AcceptErrors = TRUE
  IOErrors = TRUE
  PanicAborts = TRUE
  NoDaemon = none
INVARIANTS
  TypeOK
  ReachableUnlessTold
  RanOnce
PROPERTIES
  ClientEnds
  ToldExits
CHECK_DEADLOCK FALSE
