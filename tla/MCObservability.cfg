SPECIFICATION FairSpec
CONSTANTS
  None = None
  Containers = {web, db}
  First = web
  Nodes = {local, nas, cam}
  Local = local
  Reporting = {local, nas}
  Calls = {k1, k2}
  Refresh = 1
  TailPeriod = 2
  Timers = {t1, t2}
  MaxChoices = 4
INVARIANTS ViewTypeOK OneTailTimer SpinnersEnd
PROPERTY ViewsSettle
CHECK_DEADLOCK FALSE
