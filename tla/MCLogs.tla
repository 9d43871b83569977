------------------------------- MODULE MCLogs -------------------------------
(* What keeps notifications and events in memory: the history ring with    *)
(* two recorders, the chain of recording dispatchers with two senders, and *)
(* the replay buffer with two goroutines that replay it.  They share       *)
(* nothing, so each behaviour is one of the three.                         *)
EXTENDS Ring, FiniteSets, TLC

CONSTANTS Goroutines,
          Keys, TapPolicyCap, AuditCap, DeadPolicyCap, CheckpointAge, MaxSends,
          PolicyMaxEvents, PolicyMaxAge, MaxRecords, OtherMaxTime
ASSUME PoliciesAssumption ==
  /\ TapPolicyCap \in Int /\ AuditCap \in Int /\ DeadPolicyCap \in Int
  /\ CheckpointAge \in Int /\ MaxSends \in Nat
  /\ PolicyMaxEvents \in Int /\ PolicyMaxAge \in Int /\ MaxRecords \in Nat
  /\ OtherMaxTime \in Nat
(* A program has finitely many goroutines.                                 *)
ASSUME GoroutinesAssumption == IsFiniteSet(Goroutines)

VARIABLES tap, audit, dead, store, total, errors, sender, sent, resets,
          buf, replay, recorded, delivered, discarded, overlapped,
          clock, which

Chain == INSTANCE Recorders WITH Senders <- Goroutines, MaxAge <- CheckpointAge, now <- clock, MaxTime <- OtherMaxTime
Buffer == INSTANCE Replay WITH Replayers <- Goroutines, now <- clock, MaxTime <- OtherMaxTime

chain == <<tap, audit, dead, store, total, errors, sender, sent, resets>>
buffer == <<buf, replay, recorded, delivered, discarded, overlapped>>
all == <<vars, chain, buffer, clock, which>>

MCRecorders == Goroutines
Symmetry == Permutations(Goroutines)

MCInit == Init /\ Chain!Init /\ Buffer!Init /\ which \in {"ring", "chain", "buffer"}
RingNext == which = "ring" /\ Next /\ UNCHANGED <<chain, buffer, clock, which>>
ChainNext == which = "chain" /\ Chain!Next /\ UNCHANGED <<vars, buffer, which>>
BufferNext == which = "buffer" /\ Buffer!Next /\ UNCHANGED <<vars, chain, which>>
MCSpec == MCInit /\ [][RingNext \/ ChainNext \/ BufferNext]_all

(* The type invariants of the three.                                       *)
LogsTypeOK == TypeOK /\ Chain!TypeOK /\ Buffer!TypeOK

(* The properties of the chain, stated in module Recorders: its logs and   *)
(* counters agree on every outcome, and checkpoints are deliveries.        *)
OutcomesAgree == Chain!OutcomesAgree
CheckpointsAreDeliveries == Chain!CheckpointsAreDeliveries

(* Of the replay buffer: it is in order, and replays that do not overlap   *)
(* with anything account for every notification.                           *)
ReplayAccounted == Buffer!ReplayAccounted
=============================================================================
