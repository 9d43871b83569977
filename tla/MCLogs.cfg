SPECIFICATION MCSpec
SYMMETRY Symmetry
CONSTANTS
  Goroutines = {r1, r2}
  Recorders <- MCRecorders
  Cap = 3
  PortIds = {80, 81}
  GivenTimes = {1}
  MaxTime = 2
  Keys = {"80:open"}
  TapPolicyCap = 1
  AuditCap = 2
  DeadPolicyCap = 2
  CheckpointAge = 1
  MaxSends = 3
  PolicyMaxEvents = 2
  PolicyMaxAge = 1
  MaxRecords = 3
  OtherMaxTime = 2
INVARIANT LogsTypeOK
INVARIANT QueryAnswers
INVARIANT SummaryNeverStale
PROPERTY ImplementsLog
INVARIANT OutcomesAgree
INVARIANT CheckpointsAreDeliveries
INVARIANT ReplayAccounted
