\* As crossing, but hashing a published file does not fail: the record is the ledger's.
SPECIFICATION Spec
CONSTANTS
  e1 = e1  e2 = e2  c1 = c1  c2 = c2
  Execs = {e1, e2}
  Cands = {c1, c2}
  Inodes = {i1, i2, i3, i4, i5}
  PlanOf <- CrossingPlans
  Sidecar <- OneSidecar
  Admissible <- BothAdmissible
  Faults = {"preflight", "render", "link"}
  Foreign = {"create"}
  MaxWrites = 0
  NoInode = NoInode
  Outsider = Outsider
  Nobody = Nobody
SYMMETRY InodeSymmetry
INVARIANTS RecordTruthful StatusTruthful
PROPERTIES KeepsLedger
CHECK_DEADLOCK FALSE
