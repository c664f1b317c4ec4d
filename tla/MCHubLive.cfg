SPECIFICATION FairSpec
CONSTANTS
  None = None
  n1 = n1
  Nodes = {n1}
  Conns = {c1, c2}
  Calls = {k1}
  ActionIDs = {a1}
  TargetNode <- OneTarget
  PairedNodes = {n1}
  SecretConfigured = TRUE
  SendCap = 1
  InboxCap = 1
  MaxInFlight = 1
PROPERTIES Reconverges CallsReturn PumpsEnd
CHECK_DEADLOCK FALSE
