------------------------------ MODULE MCDelivery ------------------------------
(* What delivers by goroutines of its own: one Send of a dispatcher with   *)
(* three targets, a batcher, a priority queue with two Drains, a digest    *)
(* with two flushing goroutines, and three Sends of a shadow dispatcher.   *)
(* They share nothing, so a behaviour is one of the five; beside the last  *)
(* four there is a Send that has no target to call.                        *)
EXTENDS PriorityQueue, FiniteSets

CONSTANTS Kinds, PolicyMaxHedges, Required,       \* ConcurrentSend
          MaxAdds,                                \* Batcher
          Keys, Flushers, MaxEvents,              \* Digest
          LogDivergence, MaxSends                 \* Shadow

VARIABLES kind, attempts, next, err, results, taken, pc, answer, i, cancelled,
          buf, ticked, run, batches, handled, added,
          bucket, flushTimer, flushing, entries, events, sent,
          primary, shadow, compared, divergences, cleared,
          which

Sends == INSTANCE ConcurrentSend
Batches == INSTANCE Batcher
Digests == INSTANCE Digest
Shadows == INSTANCE Shadow

(* Kinds that the code has; what NewHedgeDispatcher takes; and what        *)
(* QuorumPolicy.Validate demands of Required.                              *)
ASSUME SendAssumption ==
  /\ Kinds \subseteq Sends!AtOnce \cup Sends!SequentialKinds
  /\ PolicyMaxHedges \in Int
  /\ Required \in 1 .. Sends!Total

(* The bounds of the model.                                                *)
ASSUME BoundsAssumption == MaxAdds \in Nat /\ MaxEvents \in Nat

send == <<kind, attempts, next, err, results, taken, pc, answer, i, cancelled>>
batcher == <<buf, ticked, run, batches, handled, added>>
digest == <<bucket, flushTimer, flushing, entries, events, sent>>
shadows == <<primary, shadow, compared, divergences, cleared>>
all == <<send, batcher, vars, digest, shadows, which>>

MCInit ==
  /\ Sends!Init /\ Batches!Init /\ Init /\ Digests!Init /\ Shadows!Init
  /\ which \in {"send", "batcher", "queue", "digest", "shadow"}
  /\ which # "send" => kind = "mux" /\ \A a \in Sends!Attempt : attempts[a] = "done"

InSend(A) == A /\ UNCHANGED <<batcher, vars, digest, shadows, which>>
InBatcher(A) == which = "batcher" /\ A /\ UNCHANGED <<send, vars, digest, shadows, which>>
InQueue(A) == which = "queue" /\ A /\ UNCHANGED <<send, batcher, digest, shadows, which>>
InDigest(A) == which = "digest" /\ A /\ UNCHANGED <<send, batcher, vars, shadows, which>>
InShadow(A) == which = "shadow" /\ A /\ UNCHANGED <<send, batcher, vars, digest, which>>

MCNext ==
  \/ InSend(Sends!Next) \/ InBatcher(Batches!Next) \/ InQueue(Next)
  \/ InDigest(Digests!Next) \/ InShadow(Shadows!Next)

(* That of ConcurrentSend!FairSpec.                                        *)
SendFairness ==
  /\ WF_all(InSend(Sends!Caller))
  /\ \A a \in Sends!Attempt :
       /\ WF_all(InSend(Sends!AttemptGoesOn(a)))
       /\ WF_all(InSend(Sends!Deliver(a)))

(* The batcher's ticker ticks as long as Run does, Run goes on, and its    *)
(* flush functions return.  Nothing need be added, and the context need    *)
(* not be cancelled.                                                       *)
BatcherFairness ==
  /\ WF_all(InBatcher(Batches!TickerFires))
  /\ WF_all(InBatcher(Batches!Run))
  /\ WF_all(InBatcher(Batches!FlushFn))

(* The digest's timers fire, and a flush that has started goes on.  Nobody *)
(* need call Flush.                                                        *)
DigestFairness ==
  /\ WF_all(InDigest(\E f \in Flushers : Digests!TimerFires(f)))
  /\ \A f \in Flushers : WF_all(InDigest(Digests!FlushGoesOn(f)))

MCSpec == MCInit /\ [][MCNext]_all /\ SendFairness /\ BatcherFairness /\ DigestFairness

(* The type invariants of the five.                                        *)
DeliveryTypeOK ==
  /\ Sends!TypeOK /\ Batches!TypeOK /\ TypeOK /\ Digests!TypeOK /\ Shadows!TypeOK

(* The properties of a Send, stated in module ConcurrentSend: its answer   *)
(* is what some target said, in a sequence one target is called at a time, *)
(* it returns though targets hang, and its goroutines end.                 *)
AnswerJustified == Sends!AnswerJustified
OneAtATime == Sends!OneAtATime
AnswersDespiteHanging == Sends!AnswersDespiteHanging
AttemptsEnd == Sends!AttemptsEnd

(* Whatever interleaves, a notification handed to a batcher, a priority    *)
(* queue or a digest is in one place, once.                                *)
HandedOnOnce ==
  Batches!EachInOneBatch /\ QueueAccounted /\ Digests!EventsAccounted

(* A batcher that runs and a digest pass on in the end all that they are   *)
(* given.                                                                  *)
HandedOnInTheEnd == Batches!HandledInTheEnd /\ Digests!DigestedInTheEnd

(* The divergences recorded are the real ones (module Shadow).             *)
DivergencesAreReal == Shadows!DivergencesAreReal
=============================================================================
