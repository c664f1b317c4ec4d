SPECIFICATION FairSpec
CONSTANTS
  None = None
  i1 = i1
  i2 = i2
  t1 = t1
  t2 = t2
  Incidents = {i1, i2}
  Ops = {p1, p2}
  Containers = {t1, t2}
  TargetID <- TwoTargets
  RemoteIncidents = {i1}
  AutoIncidents = {i2}
  MaxPerHour = 1
INVARIANTS TypeOK ApprovedAudited
PROPERTIES ReopenedOnlyByRCA RequestsEnd
CHECK_DEADLOCK FALSE
