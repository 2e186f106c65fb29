\* A descendant of the child keeps the pipes open.
SPECIFICATION FairSpec
CONSTANTS
  stdout = stdout  stderr = stderr
  Streams = {stdout, stderr}
  First = stdout
  PipeSize = 1
  ReadSize = 2
  MaxWritten = 1
  Workload = 0
  Cancellable = TRUE
  MayExpire = TRUE
  MayInherit = TRUE
  Hasty = TRUE

PROPERTIES CancellationIsBounded
CHECK_DEADLOCK FALSE
