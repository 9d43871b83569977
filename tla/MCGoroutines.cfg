SPECIFICATION MCSpec
CONSTANTS
  Ports <- ThreeEntries
  Interval = 1
  Second = 100
  Width = 17
  Senders = {c1, c2, c3}
  FailureThreshold = 3
  SuccessThreshold = 0
  OpenDuration = 3
  Callers = {g1, g2, g3, g4, g5}
  MaxInFlight = 3
  MaxConcurrent = 2
INVARIANT TypeOK
INVARIANT ResultsAligned
INVARIANT NoGoroutineLeft
INVARIANT ActionsOfTheTarget
PROPERTY ReportsAreChanges
PROPERTY CancelStops
INVARIANT GuardsTypeOK
INVARIANT ClosedBelowThreshold
INVARIANT HalfOpenAfterDuration
INVARIANT RefusalsFollowFailure
PROPERTY Transitions
PROPERTY RecoversForGood
INVARIANT CountersAccounted
PROPERTY RefusesOnlyWhenFull
PROPERTY ShedsOnlyWhenReached
PROPERTY ImplementGates
