SPECIFICATION Spec
CONSTANTS
  Calls = {c1, c2, c3}
  Parallelism = 2
  Roots = {r1, r2}
  HostAPIRoot = r1
  None = None
INVARIANT OnlyDiscoverInterferes
PROPERTY EveryCallEnds
CHECK_DEADLOCK FALSE
