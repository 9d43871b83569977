SPECIFICATION MCSpec
CONSTANTS
  GateKeys <- MCKeys
  Cooldown = 2
  DedupWindow = 1
  MaxBurst = 2
  BurstWindow = 2
  PolicySize = 3
  PolicyMaxEvents = 2
  BaseInterval = 1
  Multiplier = 2
  MaxInterval = 2
  Width = 16
  Threshold = 2
  MinDuration = 1
  WindowDuration = 1
  MinEvents = 2
  Day = 4
  Policies <- MCPolicies
  GatesMaxTime = 5
  MaxLog = 4
  Callers = {c1, c2}
  Keys = {k1}
  TTL = 1
  Shared = shared
  QuietTimes = {1}
  MaxTime = 3
INVARIANT GatesTypeOK
INVARIANT GatesAsConfigured
INVARIANT BackoffExact
INVARIANT EscalationJustified
INVARIANT CorrelatedOnce
PROPERTY NilMeansDelivered
INVARIANT SharedMapUntouched
INVARIANT OncePerPeriod
