SPECIFICATION FairSpec
CONSTANTS
  Hosts = {h1}
  Names = {n1}
  UIDs = {u1, u2}
  Forms = {f1}
  Payloads = {p1}
  OperationIDs = {o1, o2}
  Keys = {k1, k2}
  None = None
  MaxGeneration = 3
  MaxRecords = 2
  Workers = {w1}
  FormOf <- MCOneForm
  Slot <- MCSlot
  Private = {p1}
  Sends = 2
PROPERTY EveryCallReturns
CHECK_DEADLOCK FALSE
