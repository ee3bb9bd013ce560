SPECIFICATION FairSpec
CONSTANTS
  Streams = {s1, s2}
  Files = {f1}
  theFile = f1
  FileOf <- MCFileOf
  Lengths = {3}
  MaxLen = 4
  RingSize = 2
  long = s1
  LongLines = 2
  MaxLines <- MCMaxLines
  MaxLogs = 1
  PanicAborts = FALSE
  IOErrors = TRUE
  Nil = nil
INVARIANTS
  TypeOK
  FileCapped
  NothingTwice
  InOrder
  RingLatest
PROPERTIES
  PipeDrained
CHECK_DEADLOCK FALSE
