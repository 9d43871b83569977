-------------------------------- MODULE Hedge --------------------------------
(***************************************************************************)
(* hedgeDispatcher.Send: the primary attempt, hedges launched after each   *)
(* Delay without an answer, and the drain loop that waits for the          *)
(* remaining results.                                                      *)
(***************************************************************************)
EXTENDS ParallelSend

CONSTANT MaxHedges

VARIABLES i,         \* counter of the loop that the caller is in
          cancelled  \* ctx.Done() is closed

Init ==
  /\ InitSend({1}, {}) /\ results = <<>>
  /\ pc = "select" /\ i = 0 /\ cancelled = FALSE

Cancel ==
  /\ ~cancelled
  /\ cancelled' = TRUE
  /\ UNCHANGED <<goroutines, results, caller, i>>

AdvanceOneMore ==
  IF i + 1 <= MaxHedges THEN pc' = pc /\ i' = i + 1 ELSE pc' = "drain" /\ i' = 0

(* The next iteration of the select loop, or its end.                      *)
Advance ==
  IF i + 1 < MaxHedges THEN pc' = pc /\ i' = i + 1 ELSE pc' = "drain" /\ i' = 0

SelectDone ==
  /\ pc = "select" /\ cancelled
  /\ Return("ctx")
  /\ UNCHANGED <<goroutines, results, taken, i, cancelled>>

Launched == {a \in Attempt : attempts[a] # "none"}

(* Delay has passed without an answer: launch a hedge.                     *)
SelectTimer ==
  /\ pc = "select"
  /\ \E a \in Attempt \ Launched : 1 .. a - 1 \subseteq Launched /\ Launch(a)
  /\ Advance
  /\ UNCHANGED <<results, taken, answer, cancelled>>

(* A result arrives first: a success is returned, a failure uses up the    *)
(* iteration.                                                              *)
SelectResult ==
  /\ pc = "select" /\ Receive
  /\ IF IsSuccess(err[Head(results)]) THEN Return("nil") /\ i' = i
                                      ELSE Advance /\ answer' = answer
  /\ UNCHANGED <<goroutines, cancelled>>

DrainBound == Total

(* The drain loop receives Total results; the first success wins.          *)
Drain ==
  /\ pc = "drain" /\ i < DrainBound /\ Receive
  /\ IF IsSuccess(err[Head(results)]) THEN Return("nil") /\ i' = i
                                      ELSE i' = i + 1 /\ UNCHANGED <<pc, answer>>
  /\ UNCHANGED <<goroutines, cancelled>>

ReturnLastErr ==
  /\ pc = "drain" /\ i >= DrainBound
  /\ Return("error")
  /\ UNCHANGED <<goroutines, results, taken, i, cancelled>>

Select == SelectDone \/ SelectTimer \/ SelectResult
==============================================================================
