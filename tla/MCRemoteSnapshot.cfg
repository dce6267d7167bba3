CONSTANTS
  Clients = {c1, c2}
  Hosts = {h1, h2}
  Updates = {a, b}
  Opens = {o1, o2}
  MaxVersion = 2
  None = None
SPECIFICATION Spec
INVARIANT OpenedIsBound
PROPERTIES ImplementsRegister EveryCallReturns
CHECK_DEADLOCK FALSE
