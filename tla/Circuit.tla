------------------------------- MODULE Circuit -------------------------------
(***************************************************************************)
(* The circuit breaker of internal/alert and the dispatcher in front of a  *)
(* downstream one.  Senders run CircuitDispatcher.Send concurrently; Allow,*)
(* RecordSuccess and RecordFailure are critical sections of one mutex, so  *)
(* each is one step, and the downstream Send lies between two steps.       *)
(*                                                                         *)
(* Times are kept as ages: the breaker only asks whether openedAt is       *)
(* OpenDuration old, so an age stops counting there.                       *)
(***************************************************************************)
EXTENDS Integers

CONSTANTS Senders,           \* goroutines that send through the dispatcher
          FailureThreshold,  \* policy, as given; zero or less means default
          SuccessThreshold,
          OpenDuration

ASSUME CircuitAssumption ==
  FailureThreshold \in Int /\ SuccessThreshold \in Int /\ OpenDuration \in Int

(* NewCircuitBreaker's normalisation of the policy.                        *)
FT == IF FailureThreshold <= 0 THEN 3 ELSE FailureThreshold
ST == IF SuccessThreshold <= 0 THEN 2 ELSE SuccessThreshold
OD == IF OpenDuration <= 0 THEN 30 ELSE OpenDuration

VARIABLES
  state, failures, successes,  \* the breaker
  openedAge,  \* now - openedAt, up to OD
  sender,     \* idle, or sending: between Allow and the Record call
  downstream, \* environment: "flaky", or "healthy" from some time on
  failRun,    \* history: failures recorded in a row, up to FT
  okRun,      \* history: successes in a row since half-open, up to ST
  tripAge,    \* history: time since the state last became open, up to OD
  failAge,    \* history: time since the last failed call, up to OD
  last        \* history: "refused" just after an Allow that returned false

breaker == <<state, failures, successes, openedAge>>
circuitVars == <<breaker, sender, downstream, failRun, okRun, tripAge, failAge, last>>

CircuitInit ==
  /\ state = "closed" /\ failures = 0 /\ successes = 0
  /\ openedAge = OD               \* the zero time.Time lies far back
  /\ sender = [c \in Senders |-> "idle"]
  /\ downstream = "flaky"
  /\ failRun = 0 /\ okRun = 0 /\ tripAge = OD /\ failAge = OD
  /\ last = "other"

(* Time passes for every age.                                              *)
Older(age) == IF age < OD THEN age + 1 ELSE age
Count(run, max) == IF run < max THEN run + 1 ELSE run

Tick ==
  /\ openedAge < OD \/ tripAge < OD \/ failAge < OD
  /\ openedAge' = Older(openedAge)
  /\ tripAge' = Older(tripAge)
  /\ failAge' = Older(failAge)
  /\ last' = "other"
  /\ UNCHANGED <<state, failures, successes, sender, downstream, failRun, okRun>>

Recover ==
  /\ downstream = "flaky" /\ downstream' = "healthy"
  /\ last' = "other"
  /\ UNCHANGED <<breaker, sender, failRun, okRun, tripAge, failAge>>

ElapsedLate == openedAge > OD
Elapsed == openedAge >= OD
ProbeStaysOpen == "open"
Probe == "half"

(* Allow returns true: the circuit is not open, or was so for long enough  *)
(* and becomes half-open.                                                  *)
AllowTrue(c) ==
  /\ sender[c] = "idle"
  /\ sender' = [sender EXCEPT ![c] = "sending"]
  /\ \/ state # "open" /\ UNCHANGED <<state, successes, okRun>>
     \/ /\ state = "open" /\ Elapsed
        /\ state' = Probe
        /\ successes' = 0
        /\ okRun' = 0
  /\ last' = "other"
  /\ UNCHANGED <<failures, openedAge, downstream, failRun, tripAge, failAge>>

(* Allow returns false: Send returns an error without a downstream call.   *)
AllowFalse(c) ==
  /\ sender[c] = "idle"
  /\ state = "open" /\ ~Elapsed
  /\ last' = "refused"
  /\ UNCHANGED <<breaker, sender, downstream, failRun, okRun, tripAge, failAge>>

KeepFailures == failures
ClearFailures == 0

(* The downstream Send returned nil.                                       *)
RecordSuccess(c) ==
  /\ sender[c] = "sending"
  /\ sender' = [sender EXCEPT ![c] = "idle"]
  /\ failures' = ClearFailures
  /\ \/ state # "half" /\ UNCHANGED <<state, successes>>
     \/ /\ state = "half"
        /\ successes' = successes + 1
        /\ state' = IF successes + 1 >= ST THEN "closed" ELSE "half"
  /\ failRun' = 0
  /\ okRun' = Count(okRun, ST)
  /\ last' = "other"
  /\ UNCHANGED <<openedAge, downstream, tripAge, failAge>>

TripLate(n) == n > FT
TripEarly(n) == n + 1 >= FT
ReachesThreshold(n) == n >= FT
ClearSuccesses == 0
ReopenKeepsTime == openedAge
Reopen == 0

(* The downstream Send returned an error.                                  *)
RecordFailure(c) ==
  /\ sender[c] = "sending" /\ downstream = "flaky"
  /\ sender' = [sender EXCEPT ![c] = "idle"]
  /\ successes' = ClearSuccesses
  /\ LET trip == state = "half" \/ ReachesThreshold(failures + 1)
     IN  /\ state' = IF trip THEN "open" ELSE state
         /\ openedAge' = IF trip THEN Reopen ELSE openedAge
         /\ failures' = IF trip THEN 0 ELSE failures + 1
         /\ tripAge' = IF trip /\ state # "open" THEN 0 ELSE tripAge
  /\ failRun' = Count(failRun, FT)
  /\ okRun' = 0
  /\ failAge' = 0
  /\ last' = "other"
  /\ UNCHANGED downstream

CircuitNext ==
  \/ Tick \/ Recover
  \/ \E c \in Senders : AllowTrue(c) \/ AllowFalse(c) \/ RecordSuccess(c) \/ RecordFailure(c)

CircuitSpec == CircuitInit /\ [][CircuitNext]_circuitVars

(* Time passes, the downstream dispatcher answers, and notifications keep  *)
(* arriving (the breaker leaves the open state only inside a call).        *)
CircuitFairSpec ==
  /\ CircuitSpec
  /\ WF_circuitVars(Tick)
  /\ \A c \in Senders : /\ WF_circuitVars(AllowTrue(c))
                        /\ WF_circuitVars(RecordSuccess(c) \/ RecordFailure(c))

-----------------------------------------------------------------------------
CircuitTypeOK ==
  /\ state \in {"closed", "open", "half"}
  /\ failures \in 0 .. FT - 1
  /\ successes \in 0 .. ST
  /\ openedAge \in 0 .. OD
  /\ sender \in [Senders -> {"idle", "sending"}]
  /\ downstream \in {"flaky", "healthy"}
  /\ failRun \in 0 .. FT
  /\ okRun \in 0 .. ST
  /\ tripAge \in 0 .. OD
  /\ failAge \in 0 .. OD
  /\ last \in {"refused", "other"}

(* A closed circuit has not just seen FailureThreshold failures in a row:  *)
(* however the results of concurrent calls interleave, it opens in time.   *)
ClosedBelowThreshold == state = "closed" => failRun < FT /\ failures = failRun

(* The circuit is half-open only after OpenDuration has passed since it    *)
(* last opened.                                                            *)
HalfOpenAfterDuration == state = "half" => tripAge = OD

(* What moves the state: a closed circuit opens only on FailureThreshold   *)
(* failures in a row, a half-open one closes only on SuccessThreshold      *)
(* successes in a row recorded since it became half-open, and an open one  *)
(* never closes without having been half-open.                             *)
Transitions ==
  [][ /\ state = "closed" /\ state' # "closed" => state' = "open" /\ failRun' = FT
      /\ state = "half" /\ state' = "closed" => okRun' = ST
      /\ state = "open" => state' # "closed"
    ]_circuitVars

(* Once the downstream dispatcher works again the circuit closes for good. *)
RecoversForGood == downstream = "healthy" ~> [](state = "closed")

(* No call is refused once OpenDuration has passed without a failed call:  *)
(* stragglers that were admitted before the circuit opened can prolong the *)
(* open period, but nothing else does.                                     *)
RefusalsFollowFailure == last = "refused" => failAge < OD
=============================================================================
