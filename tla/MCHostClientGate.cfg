SPECIFICATION Spec
CONSTANTS
  Calls = {c1, c2}
  Parallelism = 2
  Roots = {r1, r2}
  HostAPIRoot = r1
  None = None
INVARIANT HostDecides
CHECK_DEADLOCK FALSE
