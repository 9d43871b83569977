SPECIFICATION Spec
CONSTANTS
  Callers = {c1, c2}
  DedupWindow = 2
  QuietTimes = {1}
  MaxTime = 4
INVARIANT SuppressionHolds
