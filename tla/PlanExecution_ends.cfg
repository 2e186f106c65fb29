\* One execution with every failure, while others create and remove files or write the source.
SPECIFICATION FairSpec
CONSTANTS
  e1 = e1  e2 = e2  c1 = c1  c2 = c2
  Execs = {e1}
  Cands = {c1, c2}
  Inodes = {i1, i2, i3, i4}
  PlanOf <- OnePlan
  Sidecar <- WithSidecar
  Admissible <- IsAdmissible
  Faults = {"preflight", "render", "link", "stat", "hash"}
  Foreign = {"create", "remove"}
  MaxWrites = 2
  NoInode = NoInode
  Outsider = Outsider
  Nobody = Nobody
INVARIANTS SuccessIsFromThePlannedSource
PROPERTIES EveryExecutionEnds ConflictPublishesNothing
CHECK_DEADLOCK FALSE
CONSTRAINT OneHazard
