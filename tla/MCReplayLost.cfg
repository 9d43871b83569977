SPECIFICATION Spec
CONSTANTS
  p1 = p1
  p2 = p2
  Replayers <- MCReplayers
  PolicyMaxEvents = 2
  PolicyMaxAge = 1
  MaxRecords = 3
  MaxTime = 2
INVARIANT RecordedIsKept
