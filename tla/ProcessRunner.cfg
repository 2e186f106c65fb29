\* A child that may do anything with its output, its signals and its exit, and may leave a descendant.
SPECIFICATION FairSpec
CONSTANTS
  stdout = stdout  stderr = stderr
  Streams = {stdout, stderr}
  First = stdout
  PipeSize = 1
  ReadSize = 2
  MaxWritten = 2
  Workload = 0
  Cancellable = TRUE
  MayExpire = TRUE
  MayInherit = TRUE
  Hasty = TRUE
INVARIANTS TypeOK CompletedIsWhole ChildIsReaped
PROPERTIES Returns
CHECK_DEADLOCK FALSE
