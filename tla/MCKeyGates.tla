----------------------------- MODULE MCKeyGates -----------------------------
(* The gates, with one port in both states, a policy of one plain window   *)
(* and one of a window past midnight and an empty window; and the two      *)
(* compositions of gates, the chain of cache, labels and limiter and the   *)
(* documented pipeline, each with two callers.  They share nothing, so     *)
(* each behaviour is one of the three.                                     *)
EXTENDS AlertChain, Sequences, FiniteSets

CONSTANTS GateKeys, DedupWindow, MaxBurst, BurstWindow, PolicySize, PolicyMaxEvents,
          BaseInterval, Multiplier, MaxInterval, Width, Threshold, MinDuration,
          WindowDuration, MinEvents, Day, Policies, GatesMaxTime, MaxLog,
          QuietTimes

(* Keys are a port with its state, so that no key is the empty one; the    *)
(* durations and numbers are integers; and a window starts and ends at a   *)
(* second of the day, as secondsOfDay computes it.                         *)
ASSUME GatesAssumption ==
  /\ GateKeys \subseteq Nat \X {"open", "closed"}
  /\ GatesMaxTime \in Nat /\ MaxLog \in Nat
  /\ DedupWindow \in Int /\ MaxBurst \in Nat /\ BurstWindow \in Int
  /\ PolicySize \in Int /\ PolicyMaxEvents \in Int
  /\ Width \in Nat \ {0} /\ BaseInterval \in Nat /\ Multiplier \in Nat
  /\ MaxInterval \in Int
  /\ Threshold \in Int /\ MinDuration \in Int
  /\ WindowDuration \in Int /\ MinEvents \in Int
  /\ Day \in Nat \ {0}
  /\ \A ws \in Policies : ws \subseteq [start : 0 .. Day - 1, end : 0 .. Day - 1]

(* The chain's cooldown is positive, and its callers are finitely many.    *)
ASSUME ChainAssumption ==
  /\ TTL \in Nat /\ MaxTime \in Nat /\ Shared \notin Callers
  /\ Cooldown \in Nat \ {0} /\ IsFiniteSet(Callers)

VARIABLES limited, deduped, bursts, timestamps, entry, state, entries, windows, log,
          seen, bucket, stage, forwarded,
          clock, which

Gates == INSTANCE KeyGates WITH Keys <- GateKeys, now <- clock, MaxTime <- GatesMaxTime
Pipeline == INSTANCE DocumentedPipeline WITH DedupWindow <- Cooldown, last <- seen, now <- clock,
                                         MaxTime <- GatesMaxTime

gates == <<limited, deduped, bursts, timestamps, entry, state, entries, windows, log>>
pipeline == <<seen, bucket, stage, forwarded>>
all == <<vars, gates, pipeline, clock, which>>

MCInit ==
  /\ Init /\ Gates!Init /\ Pipeline!Init
  /\ which \in {"gates", "chain", "pipeline"}
InGates(A) == which = "gates" /\ A /\ UNCHANGED <<vars, pipeline, which>>
InChain(A) == which = "chain" /\ A /\ UNCHANGED <<gates, pipeline, clock, which>>
InPipeline(A) == which = "pipeline" /\ A /\ UNCHANGED <<vars, gates, which>>
MCNext == InGates(Gates!Next) \/ InChain(Next) \/ InPipeline(Pipeline!Next)
MCSpec == MCInit /\ [][MCNext]_all

(* One port in both states, and the suppression policies.                  *)
MCKeys == {<<80, "open">>, <<80, "closed">>}
MCPolicies == { {[start |-> 1, end |-> 3]}, {[start |-> 3, end |-> 1], [start |-> 2, end |-> 2]} }

(* The type invariants of gates and chain.                                 *)
GatesTypeOK == TypeOK /\ Gates!TypeOK

(* What the gates let through is what their policies ask for, given the    *)
(* log of earlier decisions (module KeyGates).                             *)
GatesAsConfigured == Gates!GatesAsConfigured
BackoffExact == Gates!BackoffExact
EscalationJustified == Gates!EscalationJustified
EscalationSinceOpen == Gates!EscalationSinceOpen
CorrelatedOnce == Gates!CorrelatedOnce

(* Composed, a Limiter and a Deduplicator let a key through once a period, *)
(* though it reaches them several times (modules AlertChain and            *)
(* DocumentedPipeline).                                                    *)
OncePerPeriod == PostsRationed /\ Pipeline!OncePerWindow
=============================================================================
