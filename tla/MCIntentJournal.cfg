SPECIFICATION Spec
CONSTANTS
  Hosts = {h1, h2}
  Names = {n1, n2}
  UIDs = {u1, u2}
  Forms = {f1}
  Payloads = {p1, p2}
  OperationIDs = {o1}
  Keys = {k1, k2, k3}
  None = None
  MaxGeneration = 3
  MaxRecords = 3
  AckKinds <- MCAckKinds
SYMMETRY MCSymmetry
CHECK_DEADLOCK FALSE
INVARIANTS
  TypeOK
  EveryWriteDecodes
  UnresolvedIsLatest
  CustodyLine
  UnresolvedIsReplayed
PROPERTY
  HistoryIsKept
