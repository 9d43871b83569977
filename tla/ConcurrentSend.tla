---------------------------- MODULE ConcurrentSend ----------------------------
(***************************************************************************)
(* One Send of a dispatcher with several targets, each of them wrapped in  *)
(* a TimeoutDispatcher: all at once (a hedge, a quorum, a fan-out) or one  *)
(* after the other (module SequentialSend).  Any target may hang for ever. *)
(***************************************************************************)
EXTENDS Integers, Sequences, SequencesExt, FiniteSets

CONSTANTS Kinds,            \* of AtOnce and SequentialKinds, those checked
          PolicyMaxHedges,  \* HedgePolicy.MaxHedges as given
          Required          \* QuorumPolicy.Required

AtOnce == {"hedge", "quorum", "fanout"}
SequentialKinds == {"fallback", "pipeline", "router", "mux", "jitter", "filter",
                    "retry"}

(* NewHedgeDispatcher's normalisation.                                     *)
MaxHedges == IF PolicyMaxHedges < 1 THEN 1 ELSE PolicyMaxHedges

(* original + hedges, and as many targets for the other dispatchers.       *)
Total == MaxHedges + 1

VARIABLES kind, attempts, next, err, results, taken, pc, answer, i, cancelled

H == INSTANCE Hedge
Q == INSTANCE QuorumSend
F == INSTANCE Fanout
S == INSTANCE SequentialSend

hedging == <<i, cancelled>>
vars == <<kind, attempts, next, err, results, taken, pc, answer, hedging>>
Attempt == H!Attempt

Init ==
  /\ kind \in Kinds
  /\ \/ kind = "hedge" /\ H!Init
     \/ kind = "quorum" /\ Q!Init /\ i = 0 /\ cancelled = FALSE
     \/ kind = "fanout" /\ F!Init /\ i = 0 /\ cancelled = FALSE
     \/ kind \in SequentialKinds /\ S!Init /\ i = 0

(* The context is cancelled: a hedge and a wait watch it themselves.       *)
Cancel == kind \in {"hedge", "jitter", "retry"} /\ H!Cancel /\ UNCHANGED kind

(* The calling goroutine.                                                  *)
HedgeSelect == kind = "hedge" /\ H!Select /\ UNCHANGED kind
HedgeDrain == kind = "hedge" /\ H!Drain /\ UNCHANGED kind
HedgeGivesUp == kind = "hedge" /\ H!ReturnLastErr /\ UNCHANGED kind
QuorumCollect == kind = "quorum" /\ Q!Collect /\ UNCHANGED <<kind, hedging>>
FanoutCollect == kind = "fanout" /\ F!Collect /\ UNCHANGED <<kind, hedging>>

InSequence == kind \in SequentialKinds /\ S!Sequential /\ UNCHANGED <<kind, i>>

Attempts == H!Attempts /\ UNCHANGED <<kind, hedging>>
AttemptGoesOn(a) == (H!PassOn(a) \/ H!TimeOut(a)) /\ UNCHANGED <<kind, hedging>>
Deliver(a) == kind \in AtOnce /\ H!Deliver(a) /\ UNCHANGED <<kind, hedging>>

Caller ==
  \/ HedgeSelect \/ HedgeDrain \/ HedgeGivesUp \/ QuorumCollect \/ FanoutCollect
  \/ InSequence

Next == Attempts \/ Cancel \/ Caller \/ \E a \in Attempt : Deliver(a)

Spec == Init /\ [][Next]_vars

(* The goroutines run and the timers fire: those of the hedge's select and *)
(* of the waits, and the deadline of every attempt, which the              *)
(* TimeoutDispatcher (the client of a Retryer) then answers for.           *)
(* next.Send need not return, nor a cancellation come.                     *)
FairSpec ==
  /\ Spec
  /\ WF_vars(Caller)
  /\ \A a \in Attempt :
       /\ WF_vars(AttemptGoesOn(a))
       /\ WF_vars(Deliver(a))

-----------------------------------------------------------------------------
TypeOK ==
  /\ kind \in Kinds
  /\ pc \in {"select", "drain", "collect", "ready", "calling", "waiting", "returned"}
  /\ i \in 0 .. (IF pc = "select" THEN MaxHedges - 1 ELSE Total)
  /\ attempts \in [Attempt -> {"none", "running", "blocked", "done"}]
  /\ next \in [Attempt -> {"none", "running", "nil", "fail"}]
  /\ err \in [Attempt -> {"", "nil", "fail", "timeout"}]
  /\ results \in BoundedSeq(Attempt, Total) /\ IsInjective(results)
  /\ cancelled \in BOOLEAN
  /\ answer \in {"none", "nil", "ctx", "error"}
  /\ taken \subseteq Attempt

Failed == {a \in Attempt : err[a] \in {"fail", "timeout"}}
DeliveredTo == {a \in Attempt : next[a] = "nil"}
Skipped == {a \in Attempt : next[a] = "none" /\ attempts[a] # "none"}

Called == {a \in Attempt : next[a] # "none"}

(* Who promises delivery by some target, by all that it does not skip, by  *)
(* the one that it calls.                                                  *)
AnyOf == {"hedge", "fallback", "retry"}
AllOf == {"fanout", "pipeline", "router", "filter"}
OneOf == {"mux", "jitter"}

(* A caller is told nil only if the notification was delivered downstream: *)
(* by one attempt of a hedge or one of a sequence of fallbacks or retries, *)
(* to Required targets of a quorum, to all that a fan-out, a pipeline, a   *)
(* router or a filter has for it, to the one that a mux selects.  It is    *)
(* told an error only if every attempt, fallback or retry failed, a quorum *)
(* can no longer be reached, or some other target failed; a timeout counts *)
(* as a failure, even if the delivery succeeds later.  Only a cancelled    *)
(* context is reported as one.                                             *)
AnswerJustified ==
  /\ answer = "nil" =>
       \/ kind \in AnyOf /\ DeliveredTo # {}
       \/ kind = "quorum" /\ Cardinality(DeliveredTo) >= Required
       \/ kind \in AllOf /\ DeliveredTo \cup Skipped = Attempt
       \/ kind \in OneOf /\ DeliveredTo = Called
  /\ answer = "error" =>
       \/ kind \in AnyOf /\ Failed = Attempt
       \/ kind = "quorum" /\ Total - Cardinality(Failed) < Required
       \/ kind \in AllOf \cup OneOf /\ Failed # {}
  /\ answer = "ctx" => cancelled

(* Targets in a sequence are called one at a time: the next one only when  *)
(* the one before has answered and its answer asks for it, so that nothing *)
(* is sent twice by fallbacks or retries once it is known to be delivered, *)
(* no stage runs after one that failed, and a mux calls at most one.       *)
OneAtATime ==
  kind \in SequentialKinds =>
    \A a, b \in Called : a < b =>
      \/ kind \in {"fallback", "retry"} /\ a \in Failed
      \/ kind = "pipeline" /\ err[a] = "nil"
      \/ kind = "router" /\ err[a] # ""

(* With targets wrapped in a TimeoutDispatcher every Send returns, even if *)
(* every target hangs for ever; a hedge, as soon as one attempt succeeded. *)
AnswersDespiteHanging ==
  (kind # "hedge" \/ \E a \in Attempt : err[a] = "nil") ~> pc = "returned"

(* No goroutine is left behind blocked on the results channel, whichever   *)
(* way and whenever Send returned.                                         *)
AttemptsEnd ==
  \A a \in Attempt : attempts[a] = "running" ~> attempts[a] = "done"

(* When every attempt a hedge has made has failed, and no other is made,   *)
(* Send returns an error.                                                  *)
AllFailedReturns ==
  (kind = "hedge" /\ H!Launched \subseteq Failed) ~>
     (pc = "returned" \/ ~(H!Launched \subseteq Failed))
===============================================================================
