SPECIFICATION Spec
CONSTANTS
  Procs = {p1, p2, p3}
  Refs = {r1, r2}
  Nobody = Nobody
  MaxOps = 3
  MaxCrashes = 2
PROPERTIES Atomic CommandEnds
CHECK_DEADLOCK FALSE
