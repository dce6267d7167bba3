SPECIFICATION Spec
CONSTANTS
  Hosts = {h1}
  Names = {n1}
  UIDs = {u1, u2}
  Forms = {f1}
  Payloads = {p1, p2}
  OperationIDs = {o1, o2, o3}
  Keys = {k1, k2, k3}
  None = None
  MaxGeneration = 4
  MaxRecords = 3
  Workers = {w1}
  FormOf <- MCOneForm
  Slot <- MCSlot
  Private = {p1}
  Sends = 2
SYMMETRY MCSymmetry
INVARIANTS SettledAgreesWithHost StateHasCustody RefreshedRecovers PreAckIsHalted
PROPERTY ClearedOnlyWhenGone
CHECK_DEADLOCK FALSE
