SPECIFICATION FairSpec
CONSTANTS
  Tasks <- MCTasks
  Role <- MCRole
  Pid <- MCPid
  Workers = 3
  Free = free
INVARIANTS
  TypeOK
  OnlyCrossing
PROPERTIES
  TasksEnd
CHECK_DEADLOCK FALSE
