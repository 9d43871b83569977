SPECIFICATION Spec
CONSTANTS
  Recorders = {r1, r2}
  Cap = 2
  PortIds = {80}
  GivenTimes = {}
  MaxTime = 2
INVARIANT QueryIsChronological
