-------------------------------- MODULE Fanout --------------------------------
(***************************************************************************)
(* FanoutDispatcher.Send: all targets at once, nil targets skipped with a  *)
(* nil result; Send waits for every result and combines the errors.        *)
(***************************************************************************)
EXTENDS ParallelSend, SequencesExt

NothingFor(skipped) == <<>>

(* ch <- result{i, nil}, sent by the starting loop itself.  Send waits for *)
(* all results, so that their order is of no account: these come first.    *)
NilResults(skipped) == SetToSeq(skipped)

Init ==
  /\ \E skipped \in SUBSET Attempt :
       InitSend(Attempt \ skipped, skipped) /\ results = NilResults(skipped)
  /\ pc = "collect"

Collect ==
  /\ pc = "collect" /\ Receive
  /\ IF taken' # Attempt THEN UNCHANGED <<pc, answer>>
     ELSE Return(IF \A a \in Attempt : IsSuccess(err[a]) THEN "nil" ELSE "error")
  /\ UNCHANGED goroutines
===============================================================================
