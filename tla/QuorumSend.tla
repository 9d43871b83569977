------------------------------ MODULE QuorumSend ------------------------------
(***************************************************************************)
(* QuorumDispatcher.Send: all targets at once; Send returns as soon as the *)
(* results received decide the quorum.                                     *)
(***************************************************************************)
EXTENDS ParallelSend, FiniteSets

CONSTANT Required   \* QuorumPolicy.Required

Init == InitSend(Attempt, {}) /\ results = <<>> /\ pc = "collect"

Successes(received) == {a \in received : IsSuccess(err[a])}
Failures(received) == received \ Successes(received)

OneTooEarly(received) == Cardinality(Failures(received)) >= Total - Required
Reached(received) == Cardinality(Successes(received)) >= Required
OutOfReach(received) == Cardinality(Failures(received)) > Total - Required

(* One result from the channel.  One of the two conditions holds when the  *)
(* last result has arrived at the latest, so that the channel, which is    *)
(* closed after the last result, is never seen closed.                     *)
Collect ==
  /\ pc = "collect" /\ Receive
  /\ \/ Reached(taken') /\ Return("nil")
     \/ OutOfReach(taken') /\ Return("error")
     \/ ~Reached(taken') /\ ~OutOfReach(taken') /\ UNCHANGED <<pc, answer>>
  /\ UNCHANGED goroutines
===============================================================================
