----------------------------- MODULE GuardsProofs -----------------------------
(* The guards around a downstream dispatcher, for any number of senders or *)
(* callers and any policies: the circuit breaker; the bulkhead; the load   *)
(* shedder; and the shedder around the bulkhead, where what each limiter   *)
(* guarantees alone it also guarantees, and the shedder's counter covers   *)
(* the bulkhead's.                                                         *)
EXTENDS MCGoroutines, FiniteSetTheorems, TLAPS

(* 1. The circuit breaker.                                                 *)
(* The counters follow the runs of results where the code relies on them:  *)
(* failures while closed, successes while half-open.  The opening an       *)
(* open circuit remembers is no older than the last one (a straggler's     *)
(* failure may have moved it), and no younger than the last failure.       *)
CircuitInv ==
  /\ CircuitTypeOK
  /\ ClosedBelowThreshold
  /\ HalfOpenAfterDuration
  /\ state = "half" => successes = okRun /\ successes < ST
  /\ state = "open" => openedAge <= tripAge /\ failAge <= openedAge
  /\ RefusalsFollowFailure

(* The normalised policy is positive.                                      *)
LEMMA ThresholdFacts == FT \in Nat \ {0} /\ ST \in Nat \ {0} /\ OD \in Nat \ {0}
BY CircuitAssumption DEF FT, ST, OD

(* A new breaker satisfies the invariant.                                  *)
LEMMA CircuitInitHolds == CircuitInit => CircuitInv
BY ThresholdFacts DEF CircuitInit, CircuitInv, CircuitTypeOK, ClosedBelowThreshold,
   HalfOpenAfterDuration, RefusalsFollowFailure

(* Every critical section and every tick of the clock keeps it.            *)
LEMMA CircuitStepHolds == CircuitInv /\ [CircuitNext]_circuitVars => CircuitInv'
<1>. SUFFICES ASSUME CircuitInv, [CircuitNext]_circuitVars PROVE CircuitInv'
  OBVIOUS
<1>. USE ThresholdFacts
<1>1. CASE Tick
  BY <1>1 DEF Tick, Older, CircuitInv, CircuitTypeOK, ClosedBelowThreshold, HalfOpenAfterDuration, RefusalsFollowFailure
<1>2. CASE Recover
  BY <1>2 DEF Recover, breaker, CircuitInv, CircuitTypeOK, ClosedBelowThreshold, HalfOpenAfterDuration, RefusalsFollowFailure
<1>3. ASSUME NEW c \in Senders, AllowTrue(c) PROVE CircuitInv'
  BY <1>3 DEF AllowTrue, Elapsed, Probe, CircuitInv, CircuitTypeOK, ClosedBelowThreshold,
     HalfOpenAfterDuration, RefusalsFollowFailure
<1>4. ASSUME NEW c \in Senders, AllowFalse(c) PROVE CircuitInv'
  BY <1>4 DEF AllowFalse, Elapsed, breaker, CircuitInv, CircuitTypeOK, ClosedBelowThreshold,
     HalfOpenAfterDuration, RefusalsFollowFailure
<1>5. ASSUME NEW c \in Senders, RecordSuccess(c) PROVE CircuitInv'
  <2>1. sender' \in [Senders -> {"idle", "sending"}]
    BY <1>5 DEF RecordSuccess, CircuitInv, CircuitTypeOK
  <2>2. CASE state = "half"
    BY <1>5, <2>1, <2>2 DEF RecordSuccess, ClearFailures, Count, CircuitInv, CircuitTypeOK,
       ClosedBelowThreshold, HalfOpenAfterDuration, RefusalsFollowFailure
  <2>3. CASE state # "half"
    BY <1>5, <2>1, <2>3 DEF RecordSuccess, ClearFailures, Count, CircuitInv, CircuitTypeOK,
       ClosedBelowThreshold, HalfOpenAfterDuration, RefusalsFollowFailure
  <2>. QED
    BY <2>2, <2>3
<1>6. ASSUME NEW c \in Senders, RecordFailure(c) PROVE CircuitInv'
  <2>1. sender' \in [Senders -> {"idle", "sending"}]
    BY <1>6 DEF RecordFailure, CircuitInv, CircuitTypeOK
  <2>2. CASE state = "half" \/ ReachesThreshold(failures + 1)
    BY <1>6, <2>1, <2>2 DEF RecordFailure, ReachesThreshold, ClearSuccesses, Reopen, Count, CircuitInv, CircuitTypeOK,
       ClosedBelowThreshold, HalfOpenAfterDuration, RefusalsFollowFailure
  <2>3. CASE ~(state = "half" \/ ReachesThreshold(failures + 1))
    BY <1>6, <2>1, <2>3 DEF RecordFailure, ReachesThreshold, ClearSuccesses, Reopen, Count, CircuitInv, CircuitTypeOK,
       ClosedBelowThreshold, HalfOpenAfterDuration, RefusalsFollowFailure
  <2>. QED
    BY <2>2, <2>3
<1>7. CASE UNCHANGED circuitVars
  BY <1>7 DEF circuitVars, breaker, CircuitInv, CircuitTypeOK, ClosedBelowThreshold,
     HalfOpenAfterDuration, RefusalsFollowFailure
<1>. QED
  BY <1>1, <1>2, <1>3, <1>4, <1>5, <1>6, <1>7 DEF CircuitNext

(* The strengthened invariant holds in every reachable state.              *)
THEOREM CircuitInductive == CircuitSpec => []CircuitInv
BY CircuitInitHolds, CircuitStepHolds, PTL DEF CircuitSpec

(* The breaker's counters and ages stay in their ranges.                   *)
THEOREM CircuitTypeCorrect == CircuitSpec => []CircuitTypeOK
BY CircuitInductive, PTL DEF CircuitInv

(* A breaker that is closed has seen fewer than FailureThreshold failures  *)
(* in a row, and its counter is exactly that run.                          *)
THEOREM OpensInTime == CircuitSpec => []ClosedBelowThreshold
BY CircuitInductive, PTL DEF CircuitInv

(* OpenDuration passes between opening and the first probe.                *)
THEOREM StaysOpenLongEnough == CircuitSpec => []HalfOpenAfterDuration
BY CircuitInductive, PTL DEF CircuitInv

(* Open periods end: a refusal has a failed call at most OpenDuration ago. *)
THEOREM RefusalsJustified == CircuitSpec => []RefusalsFollowFailure
BY CircuitInductive, PTL DEF CircuitInv

(* The breaker changes state only on the runs of results its policy names. *)
THEOREM TransitionsHold == CircuitSpec => Transitions
<1>. DEFINE A ==
       /\ state = "closed" /\ state' # "closed" => state' = "open" /\ failRun' = FT
       /\ state = "half" /\ state' = "closed" => okRun' = ST
       /\ state = "open" => state' # "closed"
<1>1. ASSUME CircuitInv, [CircuitNext]_circuitVars PROVE [A]_circuitVars
  <2>. SUFFICES ASSUME CircuitNext PROVE A
    BY <1>1
  <2>1. CASE state' = state
    BY <2>1
  <2>2. ASSUME NEW c \in Senders, AllowTrue(c) PROVE A
    BY <2>2 DEF AllowTrue, Probe
  <2>3. ASSUME NEW c \in Senders, RecordSuccess(c) PROVE A
    BY <1>1, <2>3, ThresholdFacts DEF RecordSuccess, Count, CircuitInv, CircuitTypeOK
  <2>4. ASSUME NEW c \in Senders, RecordFailure(c) PROVE A
    BY <1>1, <2>4, ThresholdFacts DEF RecordFailure, ReachesThreshold, Count, CircuitInv, CircuitTypeOK,
       ClosedBelowThreshold
  <2>. QED
    BY <2>1, <2>2, <2>3, <2>4 DEF CircuitNext, Tick, Recover, AllowFalse, breaker
<1>2. CircuitInv /\ [CircuitNext]_circuitVars => [A]_circuitVars
  BY <1>1
<1>. QED
  BY CircuitInductive, <1>2, PTL DEF CircuitSpec, Transitions

(* 2. It closes again.  The provers do not know ENABLED, so fairness says  *)
(* what weak fairness means for these steps: a sender that can take one    *)
(* for ever, by the guard that the code has, takes it.  Of the clock it    *)
(* is enough that OpenDuration passes once no failure renews the opening.  *)
Healthy == downstream = "healthy"
TimePasses == [](Healthy => <>Elapsed)

MayCall(c) == sender[c] = "idle" /\ (state # "open" \/ Elapsed)
KeepsCalling(c) == []([]MayCall(c) => <><<AllowTrue(c)>>_circuitVars)

CallReturns(c) ==
  []([](sender[c] = "sending") => <><<RecordSuccess(c) \/ RecordFailure(c)>>_circuitVars)

(* The stages of a recovery, each of which lasts until the next.           *)
Waited  == Healthy /\ Elapsed
Probing == Waited /\ state # "open"
Proved  == Probing /\ (state = "half" => successes >= 1)
Closed  == Proved /\ state = "closed"

(* With a healthy downstream no step of anybody goes back a stage.         *)
LEMMA NoStageBack ==
  ASSUME CircuitInv, [CircuitNext]_circuitVars
  PROVE  /\ Healthy => Healthy'
         /\ Waited => Waited'
         /\ Probing => Probing'
         /\ Proved => Proved'
         /\ Closed => Closed'
<1>. DEFINE Forward == /\ Healthy => Healthy'
                       /\ Waited => Waited'
                       /\ Probing => Probing'
                       /\ Proved => Proved'
                       /\ Closed => Closed'
<1>. USE ThresholdFacts DEF Healthy, Waited, Probing, Proved, Closed, Elapsed, CircuitInv, CircuitTypeOK
<1>1. CASE Tick
  BY <1>1 DEF Tick, Older
<1>2. CASE Recover
  BY <1>2 DEF Recover, breaker
<1>3. ASSUME NEW c \in Senders, AllowTrue(c) PROVE Forward
  BY <1>3 DEF AllowTrue
<1>4. ASSUME NEW c \in Senders, AllowFalse(c) PROVE Forward
  BY <1>4 DEF AllowFalse, breaker
<1>5. ASSUME NEW c \in Senders, RecordSuccess(c) PROVE Forward
  BY <1>5 DEF RecordSuccess
<1>6. ASSUME NEW c \in Senders, RecordFailure(c) PROVE Forward
  BY <1>6 DEF RecordFailure
<1>7. CASE UNCHANGED circuitVars
  BY <1>7 DEF circuitVars, breaker
<1>. QED
  BY <1>1, <1>2, <1>3, <1>4, <1>5, <1>6, <1>7 DEF CircuitNext

(* A sender leaves "idle" by AllowTrue and "sending" by a Record call.     *)
LEMMA SenderMoves ==
  ASSUME CircuitInv, [CircuitNext]_circuitVars, NEW c \in Senders
  PROVE  /\ sender[c] = "idle" => sender'[c] = "idle" \/ AllowTrue(c)
         /\ sender[c] = "sending" =>
              sender'[c] = "sending" \/ RecordSuccess(c) \/ RecordFailure(c)
<1>. DEFINE Moves == /\ sender[c] = "idle" => sender'[c] = "idle" \/ AllowTrue(c)
                     /\ sender[c] = "sending" =>
                          sender'[c] = "sending" \/ RecordSuccess(c) \/ RecordFailure(c)
<1>. USE DEF CircuitInv, CircuitTypeOK
<1>1. CASE sender' = sender
  BY <1>1
<1>2. ASSUME NEW b \in Senders, AllowTrue(b) PROVE Moves
  <2>1. CASE b = c
    BY <1>2, <2>1 DEF AllowTrue
  <2>2. CASE b # c
    BY <1>2, <2>2 DEF AllowTrue
  <2>. QED
    BY <2>1, <2>2
<1>3. ASSUME NEW b \in Senders, RecordSuccess(b) PROVE Moves
  <2>1. CASE b = c
    BY <1>3, <2>1 DEF RecordSuccess
  <2>2. CASE b # c
    BY <1>3, <2>2 DEF RecordSuccess
  <2>. QED
    BY <2>1, <2>2
<1>4. ASSUME NEW b \in Senders, RecordFailure(b) PROVE Moves
  <2>1. CASE b = c
    BY <1>4, <2>1 DEF RecordFailure
  <2>2. CASE b # c
    BY <1>4, <2>2 DEF RecordFailure
  <2>. QED
    BY <2>1, <2>2
<1>. QED
  BY <1>1, <1>2, <1>3, <1>4
     DEF CircuitNext, Tick, Recover, AllowFalse, circuitVars

(* The calls of one sender carry the recovery: admitted after the wait it  *)
(* makes the circuit half-open if nobody has, one success counts, and the  *)
(* next closes it if two are enough.                                       *)
LEMMA CallsAdvance ==
  ASSUME CircuitInv, NEW c \in Senders
  PROVE  /\ Waited /\ AllowTrue(c) => Probing' /\ sender'[c] = "sending"
         /\ Probing /\ RecordSuccess(c) => Proved'
         /\ ST <= 2 /\ Proved /\ RecordSuccess(c) => Closed'
         /\ Healthy => ~RecordFailure(c)
<1>. USE ThresholdFacts DEF Healthy, Waited, Probing, Proved, Closed, Elapsed, CircuitInv, CircuitTypeOK
<1>1. Waited /\ AllowTrue(c) => Probing' /\ sender'[c] = "sending"
  BY DEF AllowTrue, Probe
<1>2. Probing /\ RecordSuccess(c) => Proved'
  BY DEF RecordSuccess
<1>3. ST <= 2 /\ Proved /\ RecordSuccess(c) => Closed'
  BY DEF RecordSuccess
<1>4. Healthy => ~RecordFailure(c)
  BY DEF RecordFailure
<1>. QED
  BY <1>1, <1>2, <1>3, <1>4

(* With the policy's default of two probes, or one, a single sender that   *)
(* keeps sending closes the circuit for good once its calls succeed:       *)
(* whatever the others do, whose stragglers may still be under way, and    *)
(* whatever the threshold and the duration.                                *)
THEOREM ClosesForGood ==
  ASSUME ST <= 2, NEW c \in Senders
  PROVE  CircuitSpec /\ TimePasses /\ KeepsCalling(c) /\ CallReturns(c) => RecoversForGood
<1>. DEFINE Idle == sender[c] = "idle"
            Busy == sender[c] = "sending"
            Step == CircuitInv /\ [CircuitNext]_circuitVars
            Answer == RecordSuccess(c) \/ RecordFailure(c)
<1>1. CircuitInv => Idle \/ Busy
  BY DEF CircuitInv, CircuitTypeOK
<1>2. /\ Step /\ Healthy => Healthy'
      /\ Step /\ Waited => Waited'
      /\ Step /\ Probing => Probing'
      /\ Step /\ Proved => Proved'
      /\ Step /\ Closed => Closed'
  BY NoStageBack
<1>3. (Closed => Proved) /\ (Proved => Probing) /\ (Probing => Waited)
      /\ (Waited <=> Healthy /\ Elapsed) /\ (Closed => state = "closed")
  BY DEF Closed, Proved, Probing, Waited
<1>4. (Waited /\ Idle => MayCall(c))
  BY DEF Waited, MayCall
<1>5. /\ Step /\ Idle => Idle' \/ AllowTrue(c)
      /\ Step /\ Busy => Busy' \/ Answer
  BY SenderMoves
<1>6. /\ Step /\ Waited /\ AllowTrue(c) => Probing' /\ Busy'
      /\ Step /\ Probing /\ RecordSuccess(c) => Proved'
      /\ Step /\ Proved /\ RecordSuccess(c) => Closed'
      /\ Step /\ Healthy /\ Answer => RecordSuccess(c) /\ Idle'
  <2>1. RecordSuccess(c) /\ CircuitInv => Idle'
    BY DEF RecordSuccess, CircuitInv, CircuitTypeOK
  <2>. QED
    BY <2>1, CallsAdvance
<1>. HIDE DEF Idle, Busy, Answer
<1>7. CircuitSpec /\ TimePasses => (Healthy ~> Waited)
  BY CircuitInductive, <1>2, <1>3, PTL DEF CircuitSpec, TimePasses
<1>8. CircuitSpec /\ CallReturns(c) => (Waited /\ Busy ~> Waited /\ Idle)
  BY CircuitInductive, <1>1, <1>2, <1>3, <1>5, <1>6, PTL DEF CircuitSpec, CallReturns, Busy, Answer
<1>9. CircuitSpec /\ KeepsCalling(c) => (Waited /\ Idle ~> Probing /\ Busy)
  BY CircuitInductive, <1>2, <1>3, <1>4, <1>5, <1>6, PTL DEF CircuitSpec, KeepsCalling
<1>10. CircuitSpec /\ CallReturns(c) => (Probing /\ Busy ~> Proved /\ Idle)
  BY CircuitInductive, <1>2, <1>3, <1>5, <1>6, PTL DEF CircuitSpec, CallReturns, Busy, Answer
<1>11. CircuitSpec /\ KeepsCalling(c) => (Proved /\ Idle ~> Proved /\ Busy)
  BY CircuitInductive, <1>2, <1>3, <1>4, <1>5, <1>6, PTL DEF CircuitSpec, KeepsCalling
<1>12. CircuitSpec /\ CallReturns(c) => (Proved /\ Busy ~> Closed)
  BY CircuitInductive, <1>2, <1>3, <1>5, <1>6, PTL DEF CircuitSpec, CallReturns, Busy, Answer
<1>13. CircuitSpec => (Closed ~> [](state = "closed"))
  BY CircuitInductive, <1>2, <1>3, PTL DEF CircuitSpec
<1>. QED
  BY CircuitInductive, <1>1, <1>3, <1>7, <1>8, <1>9, <1>10, <1>11, <1>12, <1>13, PTL
     DEF CircuitSpec, RecoversForGood, Healthy

-----------------------------------------------------------------------------
(* 3. The bulkhead.                                                        *)
BulkheadInv == BulkheadTypeOK /\ SlotsAccounted

(* The normalised capacity is positive.                                    *)
LEMMA PolicyFacts == Capacity \in Nat \ {0}
BY PolicyAssumption DEF Capacity

(* A set of callers is finite and no larger than all of them.              *)
LEMMA AtFinite ==
  ASSUME NEW W
  PROVE  /\ IsFiniteSet(At(W))
         /\ Cardinality(At(W)) \in Nat
         /\ Cardinality(At(W)) <= Cardinality(Callers)
<1>1. At(W) \in SUBSET Callers
  BY DEF At
<1>2. IsFiniteSet(At(W)) /\ Cardinality(At(W)) <= Cardinality(Callers)
  BY <1>1, FS_Subset, CallersAssumption
<1>. QED
  BY <1>2, FS_CardinalityType

(* A caller's move changes the number of callers at W by what it leaves    *)
(* and what it enters.                                                     *)
LEMMA MoveCounts ==
  ASSUME BulkheadTypeOK, NEW c \in Callers, NEW from, NEW to, NEW W, Move(c, from, to)
  PROVE  /\ from \in W /\ to \in W => At(W)' = At(W)
         /\ from \notin W /\ to \notin W => At(W)' = At(W)
         /\ from \notin W /\ to \in W =>
              Cardinality(At(W)') = Cardinality(At(W)) + 1
         /\ from \in W /\ to \notin W =>
              /\ Cardinality(At(W)') = Cardinality(At(W)) - 1
              /\ Cardinality(At(W)) > 0
<1>1. \A d \in Callers : caller'[d] = IF d = c THEN to ELSE caller[d]
  BY DEF Move, BulkheadTypeOK
<1>2. caller[c] = from
  BY DEF Move
<1>3. IsFiniteSet(At(W)) /\ Cardinality(At(W)) \in Nat
  BY AtFinite
<1>4. CASE (from \in W) = (to \in W)
  BY <1>1, <1>2, <1>4 DEF At
<1>5. CASE from \notin W /\ to \in W
  <2>1. At(W)' = At(W) \cup {c} /\ c \notin At(W)
    BY <1>1, <1>2, <1>5 DEF At
  <2>. QED
    BY <1>3, <1>5, <2>1, FS_AddElement
<1>6. CASE from \in W /\ to \notin W
  <2>1. At(W)' = At(W) \ {c} /\ c \in At(W)
    BY <1>1, <1>2, <1>6 DEF At
  <2>2. Cardinality(At(W)) # 0
    BY <1>3, <2>1, FS_EmptySet
  <2>3. Cardinality(At(W)') = Cardinality(At(W)) - 1
    BY <1>3, <2>1, FS_RemoveElement
  <2>. QED
    BY <1>3, <1>6, <2>2, <2>3
<1>. QED
  BY <1>4, <1>5, <1>6

(* An unused bulkhead satisfies the invariant.                             *)
LEMMA BulkheadInitHolds == BulkheadInit => BulkheadInv
<1>. SUFFICES ASSUME BulkheadInit PROVE BulkheadInv
  OBVIOUS
<1>1. Inside = {} /\ At({"sending", "releasing"}) = {}
  BY DEF BulkheadInit, Inside, At
<1>2. Cardinality(Callers) \in Nat
  BY CallersAssumption, FS_CardinalityType
<1>. QED
  BY <1>1, <1>2, FS_EmptySet, PolicyFacts DEF BulkheadInit, BulkheadInv, BulkheadTypeOK, SlotsAccounted

(* Every step of Acquire and Release keeps the two counts exact.           *)
LEMMA BulkheadStepHolds == BulkheadInv /\ [BulkheadNext]_bulkheadVars => BulkheadInv'
<1>. SUFFICES ASSUME BulkheadInv, [BulkheadNext]_bulkheadVars PROVE BulkheadInv'
  OBVIOUS
<1>. USE PolicyFacts
<1>. DEFINE In == {"acquired", "sending"}
            Counted == {"sending", "releasing"}
<1>m. /\ "idle" \notin In /\ "refused" \notin In /\ "releasing" \notin In
      /\ "acquired" \in In /\ "sending" \in In
      /\ "idle" \notin Counted /\ "refused" \notin Counted /\ "acquired" \notin Counted
      /\ "releasing" \in Counted /\ "sending" \in Counted
  OBVIOUS
<1>d. Inside = At(In) /\ Inside' = At(In)'
  BY DEF Inside
<1>c. SlotsAccounted <=> sem = Cardinality(At(In)) /\ active = Cardinality(At(Counted))
  BY DEF SlotsAccounted, Inside
<1>c2. SlotsAccounted' <=> sem' = Cardinality(At(In)') /\ active' = Cardinality(At(Counted)')
  BY DEF SlotsAccounted, Inside
<1>. HIDE DEF In, Counted
<1>0. /\ BulkheadTypeOK
      /\ sem = Cardinality(At(In)) /\ active = Cardinality(At(Counted))
      /\ Cardinality(At(In)) \in Nat
      /\ Cardinality(At(Counted)) \in Nat
      /\ Cardinality(Callers) \in Nat
  BY <1>c, AtFinite, CallersAssumption, FS_CardinalityType DEF BulkheadInv
<1>1. ASSUME NEW c \in Callers, AcquireSlot(c) PROVE BulkheadInv'
  <2>1. Cardinality(At(In)') = Cardinality(At(In)) + 1 /\ At(Counted)' = At(Counted)
    BY <1>0, <1>m, <1>1, MoveCounts DEF AcquireSlot
  <2>. QED
    BY <1>0, <1>c2, <1>1, <2>1 DEF AcquireSlot, HasRoom, Move, BulkheadInv, BulkheadTypeOK
<1>2. ASSUME NEW c \in Callers, AcquireCount(c) PROVE BulkheadInv'
  <2>1. At(In)' = At(In) /\ Cardinality(At(Counted)') = Cardinality(At(Counted)) + 1
    BY <1>0, <1>m, <1>2, MoveCounts DEF AcquireCount
  <2>2. Cardinality(At(Counted)') <= Cardinality(Callers)
    <3>1. At(Counted)' \in SUBSET Callers
      BY DEF At
    <3>. QED
      BY <3>1, FS_Subset, CallersAssumption
  <2>. QED
    BY <1>0, <1>c2, <1>2, <2>1, <2>2 DEF AcquireCount, Move, BulkheadInv, BulkheadTypeOK
<1>3. ASSUME NEW c \in Callers, AcquireFull(c) PROVE BulkheadInv'
  <2>1. At(In)' = At(In) /\ At(Counted)' = At(Counted)
    BY <1>0, <1>m, <1>3, MoveCounts DEF AcquireFull
  <2>. QED
    BY <1>0, <1>c2, <1>3, <2>1 DEF AcquireFull, Move, BulkheadInv, BulkheadTypeOK
<1>4. ASSUME NEW c \in Callers, ReturnFull(c) PROVE BulkheadInv'
  <2>1. At(In)' = At(In) /\ At(Counted)' = At(Counted)
    BY <1>0, <1>m, <1>4, MoveCounts DEF ReturnFull
  <2>. QED
    BY <1>0, <1>c2, <1>4, <2>1 DEF ReturnFull, Move, BulkheadInv, BulkheadTypeOK
<1>5. ASSUME NEW c \in Callers, ReleaseSlot(c) PROVE BulkheadInv'
  <2>1. Cardinality(At(In)') = Cardinality(At(In)) - 1 /\ At(Counted)' = At(Counted)
    BY <1>0, <1>m, <1>5, MoveCounts DEF ReleaseSlot
  <2>. QED
    BY <1>0, <1>c2, <1>5, <2>1 DEF ReleaseSlot, Move, BulkheadInv, BulkheadTypeOK
<1>6. ASSUME NEW c \in Callers, ReleaseCount(c) PROVE BulkheadInv'
  <2>1. /\ At(In)' = At(In)
        /\ Cardinality(At(Counted)') = Cardinality(At(Counted)) - 1
        /\ Cardinality(At(Counted)) > 0
    BY <1>0, <1>m, <1>6, MoveCounts DEF ReleaseCount
  <2>. QED
    BY <1>0, <1>c2, <1>6, <2>1 DEF ReleaseCount, Decrement, Move, BulkheadInv, BulkheadTypeOK
<1>7. CASE UNCHANGED bulkheadVars
  BY <1>7 DEF bulkheadVars, BulkheadInv, BulkheadTypeOK, SlotsAccounted, Inside, At
<1>. QED
  BY <1>1, <1>2, <1>3, <1>4, <1>5, <1>6, <1>7 DEF BulkheadNext

(* The strengthened invariant holds in every reachable state.              *)
THEOREM BulkheadInductive == BulkheadSpec => []BulkheadInv
BY BulkheadInitHolds, BulkheadStepHolds, PTL DEF BulkheadSpec

(* The counts stay in their ranges: sem never exceeds the capacity.        *)
THEOREM BulkheadTypeCorrect == BulkheadSpec => []BulkheadTypeOK
BY BulkheadInductive, PTL DEF BulkheadInv

(* Acquire and Release lose no slot and free none twice.                   *)
THEOREM NoSlotLost == BulkheadSpec => []SlotsAccounted
BY BulkheadInductive, PTL DEF BulkheadInv

(* ErrBulkheadFull is returned only when every slot is really taken.       *)
THEOREM RefusalJustified == BulkheadSpec => RefusesOnlyWhenFull
<1>. DEFINE A == \A c \in Callers : caller[c] = "idle" /\ caller'[c] = "refused"
                   => Cardinality(Inside) = Capacity
<1>1. ASSUME BulkheadInv, [BulkheadNext]_bulkheadVars PROVE [A]_bulkheadVars
  <2>. SUFFICES ASSUME BulkheadNext, NEW c \in Callers, caller[c] = "idle", caller'[c] = "refused"
                PROVE Cardinality(Inside) = Capacity
    BY <1>1
  <2>1. PICK d \in Callers : AcquireSlot(d) \/ AcquireCount(d) \/ AcquireFull(d)
                              \/ ReturnFull(d) \/ ReleaseSlot(d) \/ ReleaseCount(d)
    BY DEF BulkheadNext
  <2>2. AcquireFull(d)
    BY <1>1, <2>1 DEF AcquireSlot, AcquireCount, ReturnFull, ReleaseSlot, ReleaseCount,
       Move, BulkheadInv, BulkheadTypeOK
  <2>. QED
    BY <1>1, <2>2, PolicyFacts DEF AcquireFull, HasRoom, BulkheadInv, BulkheadTypeOK, SlotsAccounted
<1>2. BulkheadInv /\ [BulkheadNext]_bulkheadVars => [A]_bulkheadVars
  BY <1>1
<1>. QED
  BY BulkheadInductive, <1>2, PTL DEF BulkheadSpec, RefusesOnlyWhenFull

(* Every behaviour of the bulkhead is one of the gate: the downstream      *)
(* dispatcher never has more than MaxConcurrent callers.                   *)
THEOREM BulkheadRefinement == BulkheadSpec => ImplementsGate
<1>1. BulkheadInit => Gate!Init
  BY DEF BulkheadInit, Gate!Init, Inside, At
<1>2. ASSUME BulkheadInv, [BulkheadNext]_bulkheadVars PROVE [Gate!Next]_Inside
  <2>1. ASSUME NEW c \in Callers, AcquireSlot(c) PROVE Gate!Next
    <3>1. Inside' = Inside \cup {c} /\ c \notin Inside
      BY <1>2, <2>1 DEF AcquireSlot, Move, Inside, At, BulkheadInv, BulkheadTypeOK
    <3>2. Cardinality(Inside) < Capacity
      BY <1>2, <2>1 DEF AcquireSlot, HasRoom, BulkheadInv, SlotsAccounted
    <3>3. Gate!Cardinality(Inside) = Cardinality(Inside)
      BY DEF Gate!Cardinality, Cardinality
    <3>4. Gate!Admit(c)
      BY <3>1, <3>2, <3>3 DEF Gate!Admit
    <3>. QED
      BY <3>4 DEF Gate!Next
  <2>2. ASSUME NEW c \in Callers, ReleaseSlot(c) PROVE Gate!Next
    <3>1. Inside' = Inside \ {c} /\ c \in Inside
      BY <1>2, <2>2 DEF ReleaseSlot, Move, Inside, At, BulkheadInv, BulkheadTypeOK
    <3>. QED
      BY <3>1 DEF Gate!Next, Gate!Leave
  <2>3. ASSUME NEW c \in Callers,
               AcquireCount(c) \/ AcquireFull(c) \/ ReturnFull(c) \/ ReleaseCount(c)
        PROVE  Inside' = Inside
    BY <1>2, <2>3 DEF AcquireCount, AcquireFull, ReturnFull, ReleaseCount, Move,
       Inside, At, BulkheadInv, BulkheadTypeOK
  <2>4. CASE UNCHANGED bulkheadVars
    BY <2>4 DEF bulkheadVars, Inside, At
  <2>. QED
    BY <1>2, <2>1, <2>2, <2>3, <2>4 DEF BulkheadNext
<1>3. BulkheadInv /\ [BulkheadNext]_bulkheadVars => [Gate!Next]_Inside
  BY <1>2
<1>. QED
  BY BulkheadInductive, <1>1, <1>3, PTL DEF BulkheadSpec, ImplementsGate, Gate!Spec

-----------------------------------------------------------------------------
(* 4. The load shedder, alone and around the bulkhead.                     *)
Admitted == Shed!At("sending")
Added == Admitted \cup Shed!At("undo")

(* The shedder's part: its counter is that of the callers that have added  *)
(* to it, and those it admitted are within the limit.                      *)
ShedInv ==
  /\ outer \in [Callers -> {"idle", "sending", "undo"}]
  /\ inflight = Cardinality(Added)
  /\ Cardinality(Admitted) <= Shed!Max

(* A goroutine is in the bulkhead's Send only while it is in the shedder's *)
(* and that Send has not seen the inner one return.                        *)
Nested == \A c \in Callers : caller[c] # "idle" => outer[c] = "sending" /\ c \notin returned

GInv == BulkheadInv /\ ShedInv /\ returned \subseteq Callers /\ Nested

(* A step of the composition is a step of the bulkhead, or leaves it.      *)
LEMMA BulkheadStep == [GuardedNext]_allVars => [BulkheadNext]_bulkheadVars
BY DEF GuardedNext, Enter, Undo, InnerSend, InnerReturn, Leave, BulkheadNext, allVars

(* Likewise of the shedder.                                                *)
LEMMA ShedderStep == [GuardedNext]_allVars => [Shed!Next]_(Shed!vars)
BY DEF GuardedNext, Enter, Undo, InnerSend, InnerReturn, Leave, allVars, shed,
   Shed!Next, Shed!vars

(* Sets of callers are finite.                                             *)
LEMMA AddedFinite ==
  /\ Added \subseteq Callers /\ Admitted \subseteq Added
  /\ IsFiniteSet(Added) /\ Cardinality(Added) \in Nat
  /\ IsFiniteSet(Admitted) /\ Cardinality(Admitted) \in Nat
  /\ Cardinality(Admitted) <= Cardinality(Added)
  /\ Shed!Max \in Nat \ {0}
<1>1. Added \subseteq Callers /\ Admitted \subseteq Added
  BY DEF Added, Admitted, Shed!At
<1>2. IsFiniteSet(Added) /\ Cardinality(Added) \in Nat
  BY <1>1, FS_Subset, CallersAssumption, FS_CardinalityType
<1>3. IsFiniteSet(Admitted) /\ Cardinality(Admitted) <= Cardinality(Added)
  BY <1>1, <1>2, FS_Subset
<1>. QED
  BY <1>1, <1>2, <1>3, FS_CardinalityType, PolicyAssumption DEF Shed!Max

(* What a step of the shedder does to the callers it counts and to those   *)
(* it has admitted: below its limit a caller enters both sets, above it    *)
(* only the first, and takes leave of whichever it is in.                  *)
LEMMA ShedderMoves ==
  ASSUME ShedInv, [Shed!Next]_(Shed!vars)
  PROVE  \/ UNCHANGED <<inflight, outer>>
         \/ \E c \in Callers \ Added :
              /\ Added' = Added \cup {c} /\ inflight' = inflight + 1
              /\ \/ Admitted' = Admitted
                 \/ inflight < Shed!Max /\ Admitted' = Admitted \cup {c}
         \/ \E c \in Added :
              /\ Added' = Added \ {c} /\ inflight' = inflight - 1
              /\ IF c \in Admitted THEN Admitted' = Admitted \ {c} ELSE Admitted' = Admitted
<1>. USE DEF ShedInv
<1>0. Shed!Max \in Nat /\ inflight \in Nat
  BY AddedFinite
<1>1. ASSUME NEW c \in Callers, Shed!AcquireAdd(c), Shed!Over(inflight + 1)
      PROVE  /\ c \notin Added /\ Added' = Added \cup {c} /\ inflight' = inflight + 1
             /\ Admitted' = Admitted
  BY <1>1 DEF Shed!AcquireAdd, Shed!Move, Shed!At, Added, Admitted
<1>2. ASSUME NEW c \in Callers, Shed!AcquireAdd(c), ~Shed!Over(inflight + 1)
      PROVE  /\ c \notin Added /\ Added' = Added \cup {c} /\ inflight' = inflight + 1
             /\ inflight < Shed!Max /\ Admitted' = Admitted \cup {c}
  <2>1. inflight < Shed!Max
    BY <1>0, <1>2 DEF Shed!Over
  <2>. QED
    BY <1>2, <2>1 DEF Shed!AcquireAdd, Shed!Move, Shed!At, Added, Admitted
<1>3. ASSUME NEW c \in Callers, Shed!AcquireUndo(c)
      PROVE  /\ c \in Added /\ Added' = Added \ {c} /\ inflight' = inflight - 1
             /\ c \notin Admitted /\ Admitted' = Admitted
  BY <1>3 DEF Shed!AcquireUndo, Shed!TakeBack, Shed!Move, Shed!At, Added, Admitted
<1>4. ASSUME NEW c \in Callers, Shed!Release(c)
      PROVE  /\ c \in Added /\ Added' = Added \ {c} /\ inflight' = inflight - 1
             /\ c \in Admitted /\ Admitted' = Admitted \ {c}
  BY <1>4 DEF Shed!Release, Shed!Move, Shed!At, Added, Admitted
<1>5. CASE UNCHANGED Shed!vars
  BY <1>5 DEF Shed!vars
<1>. QED
  BY <1>1, <1>2, <1>3, <1>4, <1>5 DEF Shed!Next

(* No call gives back to the shedder's counter more than it added, and     *)
(* those admitted stay within the limit though the counter does not.       *)
LEMMA ShedderKeepsInv == ShedInv /\ [Shed!Next]_(Shed!vars) => ShedInv'
<1>. SUFFICES ASSUME ShedInv, [Shed!Next]_(Shed!vars) PROVE ShedInv'
  OBVIOUS
<1>1. outer' \in [Callers -> {"idle", "sending", "undo"}]
  BY DEF ShedInv, Shed!Next, Shed!vars, Shed!AcquireAdd, Shed!AcquireUndo, Shed!Release,
     Shed!Move
<1>2. inflight' = Cardinality(Added') /\ Cardinality(Admitted') <= Shed!Max
  <2>0. /\ inflight = Cardinality(Added) /\ Cardinality(Admitted) <= Shed!Max
        /\ Shed!Max \in Nat
    BY AddedFinite DEF ShedInv
  <2>1. CASE UNCHANGED <<inflight, outer>>
    BY <2>0, <2>1 DEF Added, Admitted, Shed!At
  <2>2. ASSUME NEW c \in Callers \ Added, Added' = Added \cup {c}, inflight' = inflight + 1,
               \/ Admitted' = Admitted
               \/ inflight < Shed!Max /\ Admitted' = Admitted \cup {c}
        PROVE  inflight' = Cardinality(Added') /\ Cardinality(Admitted') <= Shed!Max
    <3>1. Cardinality(Added \cup {c}) = Cardinality(Added) + 1
      BY <2>2, AddedFinite, FS_AddElement
    <3>2. Cardinality(Admitted \cup {c}) = Cardinality(Admitted) + 1
      BY <2>2, AddedFinite, FS_AddElement
    <3>. QED
      BY <2>0, <2>2, <3>1, <3>2, AddedFinite
  <2>3. ASSUME NEW c \in Added, Added' = Added \ {c}, inflight' = inflight - 1,
               IF c \in Admitted THEN Admitted' = Admitted \ {c} ELSE Admitted' = Admitted
        PROVE  inflight' = Cardinality(Added') /\ Cardinality(Admitted') <= Shed!Max
    <3>1. Cardinality(Added \ {c}) = Cardinality(Added) - 1
      BY <2>3, AddedFinite, FS_RemoveElement
    <3>2. c \in Admitted => Cardinality(Admitted \ {c}) = Cardinality(Admitted) - 1
      BY AddedFinite, FS_RemoveElement
    <3>. QED
      BY <2>0, <2>3, <3>1, <3>2, AddedFinite
  <2>. QED
    BY <2>1, <2>2, <2>3, ShedderMoves
<1>. QED
  BY <1>1, <1>2 DEF ShedInv

(* A fresh shedder satisfies it.                                           *)
LEMMA ShedderInitHolds == Shed!Init => ShedInv
<1>. SUFFICES ASSUME Shed!Init PROVE ShedInv
  OBVIOUS
<1>1. Added = {} /\ Admitted = {}
  BY DEF Shed!Init, Added, Admitted, Shed!At
<1>. QED
  BY <1>1, FS_EmptySet, AddedFinite DEF Shed!Init, ShedInv

(* The counter never leaves 0 .. number of callers: no call gives back     *)
(* twice what it added once.                                               *)
LEMMA ShedderTyped == ShedInv => Shed!TypeOK
<1>. SUFFICES ASSUME ShedInv PROVE Shed!TypeOK
  OBVIOUS
<1>1. Cardinality(Added) <= Cardinality(Callers) /\ Cardinality(Callers) \in Nat
  BY AddedFinite, CallersAssumption, FS_Subset, FS_CardinalityType
<1>2. Shed!Cardinality(Callers) = Cardinality(Callers)
  BY DEF Shed!Cardinality, Cardinality
<1>. QED
  BY <1>1, <1>2, AddedFinite DEF ShedInv, Shed!TypeOK

(* A step of the shedder is one of the gate, or leaves who is inside.      *)
LEMMA ShedderGateStep ==
  ASSUME ShedInv, [Shed!Next]_(Shed!vars)
  PROVE  [Shed!Gate!Next]_Admitted
<1>0. inflight = Cardinality(Added) /\ Cardinality(Admitted) <= Cardinality(Added)
  BY AddedFinite DEF ShedInv
<1>1. CASE UNCHANGED <<inflight, outer>>
  BY <1>1 DEF Admitted, Shed!At
<1>2. ASSUME NEW c \in Callers \ Added, inflight < Shed!Max, Admitted' = Admitted \cup {c}
      PROVE  Shed!Gate!Next
  <2>1. c \notin Admitted /\ Cardinality(Admitted) < Shed!Max
    BY <1>0, <1>2, AddedFinite
  <2>2. Shed!Gate!Cardinality(Admitted) = Cardinality(Admitted)
    BY DEF Shed!Gate!Cardinality, Cardinality
  <2>3. Shed!Gate!Admit(c)
    BY <1>2, <2>1, <2>2 DEF Shed!Gate!Admit, Admitted
  <2>. QED
    BY <2>3 DEF Shed!Gate!Next
<1>3. ASSUME NEW c \in Admitted, Admitted' = Admitted \ {c} PROVE Shed!Gate!Next
  <2>1. Shed!Gate!Leave(c) /\ c \in Callers
    BY <1>3, AddedFinite DEF Shed!Gate!Leave, Admitted
  <2>. QED
    BY <2>1 DEF Shed!Gate!Next
<1>. QED
  BY <1>1, <1>2, <1>3, ShedderMoves

(* The shedder's invariant holds in every reachable state.                 *)
THEOREM ShedderInductive == Shed!Spec => []ShedInv
BY ShedderInitHolds, ShedderKeepsInv, PTL DEF Shed!Spec

(* Every variable of the load shedder keeps its type.                      *)
THEOREM ShedderTypeCorrect == Shed!Spec => []Shed!TypeOK
BY ShedderInductive, ShedderTyped, PTL

(* A caller is shed only when the limit is reached by those who have added *)
(* to the counter and not yet taken it back.                               *)
THEOREM ShedsJustified == Shed!Spec => Shed!ShedsOnlyWhenReached
<1>. DEFINE A == \A c \in Callers : outer[c] = "idle" /\ outer'[c] = "undo"
                   => Shed!Cardinality(Callers \ Shed!At("idle")) >= Shed!Max
<1>1. ASSUME ShedInv, Shed!Next, NEW c \in Callers, outer[c] = "idle", outer'[c] = "undo"
      PROVE  Cardinality(Callers \ Shed!At("idle")) >= Shed!Max
  <2>0. outer \in [Callers -> {"idle", "sending", "undo"}] /\ inflight = Cardinality(Added)
    BY <1>1 DEF ShedInv
  <2>1. Callers \ Shed!At("idle") = Added
    BY <2>0 DEF Shed!At, Added, Admitted
  <2>2. PICK d \in Callers : Shed!AcquireAdd(d) \/ Shed!AcquireUndo(d) \/ Shed!Release(d)
    BY <1>1 DEF Shed!Next
  <2>3. Shed!AcquireAdd(d) /\ Shed!Over(inflight + 1)
    BY <1>1, <2>0, <2>2 DEF Shed!AcquireAdd, Shed!AcquireUndo, Shed!Release, Shed!Move
  <2>4. Cardinality(Added) >= Shed!Max
    BY <2>0, <2>3, AddedFinite DEF Shed!Over
  <2>. QED
    BY <2>1, <2>4
<1>2. ShedInv /\ [Shed!Next]_(Shed!vars) => [A]_(Shed!vars)
  BY <1>1 DEF Shed!Cardinality, Cardinality
<1>. QED
  BY ShedderInductive, <1>2, PTL DEF Shed!Spec, Shed!ShedsOnlyWhenReached

(* Every behaviour of the shedder is one of the gate, although its counter *)
(* overshoots the limit between the two atomic steps of a refusal.         *)
THEOREM ShedderRefinement == Shed!Spec => Shed!ImplementsGate
<1>1. Shed!Init => Shed!Gate!Init
  BY DEF Shed!Init, Shed!Gate!Init, Shed!At
<1>2. ShedInv /\ [Shed!Next]_(Shed!vars) => [Shed!Gate!Next]_Admitted
  BY ShedderGateStep
<1>. QED
  BY ShedderInductive, <1>1, <1>2, PTL DEF Shed!Spec, Shed!ImplementsGate, Shed!Gate!Spec,
     Admitted

(* Nobody inside either: the invariant holds to begin with.                *)
LEMMA InitGuarded == GuardedInit => GInv
<1>. SUFFICES ASSUME GuardedInit PROVE GInv
  OBVIOUS
<1>1. BulkheadInv
  BY BulkheadInitHolds DEF GuardedInit
<1>3. ShedInv
  BY ShedderInitHolds DEF GuardedInit
<1>. QED
  BY <1>1, <1>3 DEF GuardedInit, GInv, Nested, BulkheadInit

(* Entering, returning and leaving keep the two Sends nested.              *)
LEMMA GuardedStep == GInv /\ [GuardedNext]_allVars => GInv'
<1>. SUFFICES ASSUME GInv, [GuardedNext]_allVars PROVE GInv'
  OBVIOUS
<1>1. BulkheadInv' /\ ShedInv'
  BY BulkheadStep, BulkheadStepHolds, ShedderStep, ShedderKeepsInv DEF GInv
<1>2. /\ caller \in [Callers -> {"idle", "acquired", "sending", "refused", "releasing"}]
      /\ outer \in [Callers -> {"idle", "sending", "undo"}]
      /\ returned \subseteq Callers /\ Nested
  BY DEF GInv, BulkheadInv, BulkheadTypeOK, ShedInv
<1>. DEFINE Goal == returned' \subseteq Callers /\ Nested'
<1>3. ASSUME NEW c \in Callers, Enter(c) PROVE Goal
  BY <1>2, <1>3 DEF Enter, Shed!AcquireAdd, Shed!Move, Nested, bulkheadVars
<1>4. ASSUME NEW c \in Callers, Undo(c) PROVE Goal
  BY <1>2, <1>4 DEF Undo, Shed!AcquireUndo, Shed!Move, Nested, bulkheadVars
<1>5. ASSUME NEW c \in Callers, InnerSend(c) PROVE Goal
  BY <1>2, <1>5 DEF InnerSend, AcquireSlot, AcquireCount, AcquireFull, ReleaseSlot, Move,
     Nested, shed
<1>6. ASSUME NEW c \in Callers, InnerReturn(c) PROVE Goal
  BY <1>2, <1>6 DEF InnerReturn, ReturnFull, ReleaseCount, Move, Nested, shed
<1>7. ASSUME NEW c \in Callers, Leave(c) PROVE Goal
  BY <1>2, <1>7 DEF Leave, Shed!Release, Shed!Move, Nested, bulkheadVars
<1>8. ASSUME UNCHANGED allVars PROVE Goal
  BY <1>2, <1>8 DEF allVars, bulkheadVars, shed, Nested
<1>9. Goal
  BY <1>3, <1>4, <1>5, <1>6, <1>7, <1>8 DEF GuardedNext
<1>. QED
  BY <1>1, <1>9 DEF GInv

(* The strengthened invariant holds in every reachable state.              *)
THEOREM GuardedInductive == GuardedSpec => []GInv
BY InitGuarded, GuardedStep, PTL DEF GuardedSpec

(* Those inside the bulkhead are some of those that the shedder counts.    *)
LEMMA InvImpliesAccounted == GInv => CountersAccounted
<1>. SUFFICES ASSUME GInv PROVE CountersAccounted
  OBVIOUS
<1>1. SlotsAccounted /\ inflight = Cardinality(Added)
  BY DEF GInv, BulkheadInv, ShedInv
<1>2. Inside \subseteq Added /\ At({"sending", "releasing"}) \subseteq Added
  BY DEF GInv, Nested, Inside, At, Added, Admitted, Shed!At
<1>3. sem <= inflight /\ active <= inflight
  BY <1>1, <1>2, AddedFinite, FS_Subset DEF SlotsAccounted
<1>4. Cardinality(Added) = Cardinality(Admitted) + Cardinality(Shed!At("undo"))
  <2>. DEFINE U == Shed!At("undo")
  <2>1. IsFiniteSet(U)
    BY AddedFinite, FS_Subset DEF Added
  <2>2. Cardinality(Admitted \cap U) = 0
    <3>1. Admitted \cap U = {}
      BY DEF Admitted, Shed!At
    <3>. QED
      BY <3>1, FS_EmptySet
  <2>3. Cardinality(Admitted \cup U)
          = Cardinality(Admitted) + Cardinality(U) - Cardinality(Admitted \cap U)
    BY <2>1, AddedFinite, FS_Union
  <2>4. Cardinality(U) \in Nat /\ Cardinality(Admitted) \in Nat
    BY <2>1, AddedFinite, FS_CardinalityType
  <2>. HIDE DEF U
  <2>5. Cardinality(Admitted \cup U) = Cardinality(Admitted) + Cardinality(U)
    BY <2>2, <2>3, <2>4
  <2>. QED
    BY <2>5 DEF Added, U
<1>5. Shed!CounterAccounted
  BY <1>1, <1>4 DEF Shed!CounterAccounted, Shed!Cardinality, Cardinality, Admitted
<1>. QED
  BY <1>1, <1>3, <1>5 DEF CountersAccounted

(* On every path through either limiter its counter is exact, and the      *)
(* shedder's covers the bulkhead's.                                        *)
THEOREM CountersExact == GuardedSpec => []CountersAccounted
BY GuardedInductive, InvImpliesAccounted, PTL

(* Composed, the bulkhead behaves as on its own.                           *)
THEOREM BehavesAsBulkhead == GuardedSpec => BulkheadSpec
<1>1. GuardedInit => BulkheadInit
  BY DEF GuardedInit
<1>. QED
  BY <1>1, BulkheadStep, PTL DEF GuardedSpec, BulkheadSpec

(* So it refuses only when its slots are all taken.                        *)
THEOREM GuardedRefusals == GuardedSpec => RefusesOnlyWhenFull
BY BehavesAsBulkhead, RefusalJustified

(* So it does as the shedder.                                              *)
THEOREM BehavesAsShedder == GuardedSpec => Shed!Spec
<1>1. GuardedInit => Shed!Init
  BY DEF GuardedInit
<1>. QED
  BY <1>1, ShedderStep, PTL DEF GuardedSpec, Shed!Spec

(* And sheds only at its limit.                                            *)
THEOREM GuardedSheds == GuardedSpec => ShedsOnlyWhenReached
BY BehavesAsShedder, ShedsJustified DEF ShedsOnlyWhenReached

(* Each limiter implements the gate in the composition.                    *)
THEOREM BothRefine == GuardedSpec => ImplementGates
BY BehavesAsBulkhead, BulkheadRefinement, BehavesAsShedder, ShedderRefinement
   DEF ImplementGates

-----------------------------------------------------------------------------
(* 5. The breaker and the limiters side by side, as a run checks them      *)
(* beside the daemon.                                                      *)

(* The invariants of both hold of the run's specification.                 *)
LEMMA GuardsInductive == MCSpec => [](CircuitInv /\ GInv)
<1>1. MCInit => CircuitInv /\ GInv
  BY CircuitInitHolds, InitGuarded DEF MCInit
<1>2. ASSUME CircuitInv, GInv, [InDaemon(Next) \/ InCircuit(CircuitNext) \/ LimitsNext]_all
      PROVE  CircuitInv' /\ GInv'
  <2>1. [CircuitNext]_circuitVars
    BY <1>2 DEF InDaemon, InCircuit, LimitsNext, all
  <2>2. [GuardedNext]_allVars
    BY <1>2 DEF InDaemon, InCircuit, LimitsNext, all, limits, allVars, bulkheadVars, shed
  <2>. QED
    BY <1>2, <2>1, <2>2, CircuitStepHolds, GuardedStep
<1>. QED
  BY <1>1, <1>2, PTL DEF MCSpec

(* Every variable of the breaker, of the bulkhead and of the shedder keeps *)
(* its type.                                                               *)
THEOREM GuardsTyped == MCSpec => []GuardsTypeOK
<1>1. CircuitInv /\ GInv => GuardsTypeOK
  BY ShedderTyped DEF CircuitInv, GInv, BulkheadInv, GuardsTypeOK, GuardedTypeOK
<1>. QED
  BY <1>1, GuardsInductive, PTL
=============================================================================
