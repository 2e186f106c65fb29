\* Hashing the clip fails after the sidecar was recorded.
SPECIFICATION Spec
CONSTANTS
  e1 = e1  e2 = e2  c1 = c1  c2 = c2
  Execs = {e1}
  Cands = {c1, c2}
  Inodes = {i1, i2, i3, i4, i5}
  PlanOf <- OnePlan
  Sidecar <- WithSidecar
  Admissible <- IsAdmissible
  Faults = {"preflight", "render", "link", "hash"}
  Foreign = {}
  MaxWrites = 0
  NoInode = NoInode
  Outsider = Outsider
  Nobody = Nobody
SYMMETRY InodeSymmetry
INVARIANT RecordTruthful
CHECK_DEADLOCK FALSE
