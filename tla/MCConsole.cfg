SPECIFICATION Spec
CONSTANTS
  Incidents = {i1, i2}
  Fetches = {f1, f2}
  Requests = {r1, r2}
  Order <- MCShortOrder
  Last = 2
  MaxFaults = 2
  MaxQueue = 1
  None = None
SYMMETRY MCSymmetry
INVARIANTS TypeOK SpinnerHonest ActingInFlight DuplicateNeedsDetour
PROPERTY LagSpec
CHECK_DEADLOCK FALSE
