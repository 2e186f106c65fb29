\* Commands that run at the same time, with every failure.
SPECIFICATION Spec
CONSTANTS
  k1 = k1  k2 = k2
  c1 = c1  c2 = c2  c3 = c3
  Commands = {c1, c2, c3}
  Plan <- MCPlan
  Faults = {"execute", "write"}
  Nobody = Nobody
INVARIANT ExitZeroIsComplete
SYMMETRY Symmetry
CHECK_DEADLOCK FALSE
