SPECIFICATION Spec
CONSTANTS
  Streams = {s1}
  Files = {f1}
  theFile = f1
  FileOf <- MCFileOf
  Lengths = {3}
  MaxLen = 4
  RingSize = 3
  long = s1
  LongLines = 3
  MaxLines <- MCMaxLines
  MaxLogs = 0
  PanicAborts = FALSE
  IOErrors = FALSE
  Nil = nil
INVARIANTS
  LastLineInFile
CHECK_DEADLOCK FALSE
