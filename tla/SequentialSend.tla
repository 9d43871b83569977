--------------------------- MODULE SequentialSend ---------------------------
(***************************************************************************)
(* The dispatchers that call their targets one after the other in the      *)
(* goroutine of their caller: FallbackDispatcher (nested, for more than    *)
(* two targets), Pipeline, Router, Mux, Retryer.Do, whose attempts are     *)
(* calls of one target, and those in front of a single target:             *)
(* JitterDispatcher, Filter and SampleDispatcher.  They differ in which    *)
(* targets they pass over and in what they do with an answer.              *)
(***************************************************************************)
EXTENDS ParallelSend

VARIABLES kind,       \* which of them
          cancelled   \* ctx.Done() is closed

(* What is passed over: routes and branches that do not match; a filter's  *)
(* and a sampler's only target.                                            *)
RoutesPassedOver == IF kind \in {"router", "mux"} THEN SUBSET Attempt ELSE {{}}
Filtered == {passedOver \in SUBSET Attempt : Attempt \ {1} \subseteq passedOver}

Init ==
  /\ \E passedOver \in IF kind = "filter" THEN Filtered ELSE RoutesPassedOver :
       InitSend({}, passedOver)
  /\ results = <<>> /\ cancelled = FALSE
  /\ pc = IF kind = "jitter" THEN "waiting" ELSE "ready"

Untried == {a \in Attempt : attempts[a] = "none"}

CallNext ==
  /\ pc = "ready"
  /\ \E a \in Untried : (\A b \in Untried : a <= b) /\ Launch(a)
  /\ pc' = "calling"
  /\ UNCHANGED <<results, taken, answer, cancelled>>

(* Nothing matches, and a mux has no default.                              *)
DropUnmatched ==
  /\ pc = "ready" /\ Untried = {}
  /\ Return("nil")
  /\ UNCHANGED <<goroutines, results, taken, cancelled>>

FallsBackAlways(a) == kind = "fallback"

(* Whether the next target is called after a has answered.                 *)
FallsBack(a) == kind = "fallback" /\ ~IsSuccess(err[a])
TriesAgain(a) == kind = "retry" /\ ~IsSuccess(err[a])
NextStage(a) == kind = "pipeline" /\ IsSuccess(err[a])
NextRoute(a) == kind = "router"
GoesOn(a) == FallsBack(a) \/ TriesAgain(a) \/ NextStage(a) \/ NextRoute(a)

(* The caller's answer is the last one; a router remembers an earlier      *)
(* error.                                                                  *)
Outcome(received, a) ==
  IF IsSuccess(err[a]) /\ (kind = "router" => \A b \in received : IsSuccess(err[b]))
  THEN "nil" ELSE "error"

AfterAnswer(a) ==
  IF GoesOn(a) /\ Untried # {}
  THEN pc' = (IF kind = "retry" THEN "waiting" ELSE "ready") /\ answer' = answer
  ELSE Return(Outcome(taken', a))

Answered(a) ==
  /\ pc = "calling" /\ attempts[a] = "blocked"
  /\ attempts' = [attempts EXCEPT ![a] = "done"]
  /\ taken' = taken \cup {a}
  /\ AfterAnswer(a)
  /\ UNCHANGED <<next, err, results, cancelled>>

(* The two cases of the select between two attempts of a Retryer, and      *)
(* before the target of a JitterDispatcher.                                *)
WaitOver ==
  /\ pc = "waiting"
  /\ pc' = "ready"
  /\ UNCHANGED <<goroutines, results, taken, answer, cancelled>>

WaitCancelled ==
  /\ pc = "waiting" /\ cancelled
  /\ Return("ctx")
  /\ UNCHANGED <<goroutines, results, taken, cancelled>>

Sequential ==
  \/ CallNext \/ DropUnmatched \/ WaitOver \/ WaitCancelled
  \/ \E a \in Attempt : Answered(a)
=============================================================================
