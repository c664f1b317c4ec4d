SPECIFICATION Spec
CONSTANTS
  None = None
  n1 = n1
  Nodes = {n1}
  Conns = {c1, c2}
  Calls = {k1, k2}
  ActionIDs = {a1, a2}
  TargetNode <- OneTarget
  PairedNodes = {n1}
  SecretConfigured = TRUE
  SendCap = 1
  InboxCap = 1
  MaxInFlight = 1
SYMMETRY Symmetry
INVARIANTS TypeOK RegisteredOpen PendingInFlight ReaderNotStuck
PROPERTIES RemoteSpec
CHECK_DEADLOCK FALSE
