\* A child that writes more than its pipes hold before it exits.
SPECIFICATION WorkingSpec
CONSTANTS
  stdout = stdout  stderr = stderr
  Streams = {stdout, stderr}
  First = stdout
  PipeSize = 1
  ReadSize = 2
  MaxWritten = 3
  Workload = 3
  Cancellable = FALSE
  MayExpire = FALSE
  MayInherit = FALSE
  Hasty = FALSE

PROPERTIES DrainsEverything
CHECK_DEADLOCK FALSE
