CONSTANTS
  Procs = {p1, p2}
  Updates = {a, b, c}
  MaxHistory = 2
  None = None
SPECIFICATION Spec
INVARIANTS AckedIsDurable SeenIsDurable
PROPERTIES DamagedIsNeverWritten ImplementsRegister
CHECK_DEADLOCK FALSE
