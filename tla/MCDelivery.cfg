SPECIFICATION MCSpec
CONSTANTS
  Kinds = {"hedge", "quorum", "fanout", "fallback", "pipeline", "router", "mux", "jitter", "filter", "retry"}
  PolicyMaxHedges = 2
  Required = 2
  PolicyMaxSize = 2
  MaxAdds = 5
  Drainers = {d1, d2}
  PolicyCapacity = 3
  GivenPriorities = {1, 2, 4}
  MaxEnqueues = 4
  Keys = {k1, k2}
  Flushers = {f1, f2}
  MaxEvents = 2
  LogDivergence = TRUE
  MaxSends = 3
INVARIANT DeliveryTypeOK
INVARIANT AnswerJustified
INVARIANT OneAtATime
PROPERTY AnswersDespiteHanging
PROPERTY AttemptsEnd
INVARIANT HandedOnOnce
PROPERTY HandedOnInTheEnd
PROPERTY HighestFirst
INVARIANT DivergencesAreReal
\* A Send ends, and the drain of a hedge can wait for ever; what buffers
\* has nothing to do when nothing more is added.
CHECK_DEADLOCK FALSE
