---------------------------- MODULE PriorityQueue ----------------------------
(***************************************************************************)
(* alert.PriorityQueue: one FIFO bucket per priority under a mutex, and    *)
(* Drain, which takes a notification under the lock and sends it without.  *)
(*                                                                         *)
(* Notifications are numbered in the order they are accepted.              *)
(***************************************************************************)
EXTENDS BufferPolicies, Sequences

CONSTANTS Drainers,          \* goroutines that call Drain
          GivenPriorities,   \* arguments of Enqueue, in range or not
          MaxEnqueues        \* bound of the model: notifications accepted

(* NewPriorityQueue's normalisation.                                       *)
Capacity == IF PolicyCapacity <= 0 THEN 256 ELSE PolicyCapacity

Priority == 0 .. 3       \* PriorityLow .. PriorityCritical
Nothing == 0             \* no notification

VARIABLES
  buckets,    \* per priority: the notifications waiting
  size,       \* the counter that Enqueue compares with the capacity
  drain,      \* per drainer: idle, draining (between two Sends) or sending
  inHand,     \* per drainer: the notification it is sending, or Nothing
  prio,       \* history: the priority of every notification accepted, a sequence
  delivered,  \* history: sent with success
  failed      \* history: sent without

vars == <<buckets, size, drain, inHand, prio, delivered, failed>>

Init ==
  /\ buckets = [p \in Priority |-> <<>>] /\ size = 0
  /\ drain = [d \in Drainers |-> "idle"] /\ inHand = [d \in Drainers |-> Nothing]
  /\ prio = <<>> /\ delivered = {} /\ failed = {}

HasRoomForOneMore == size <= Capacity
HasRoom == size < Capacity

(* An Enqueue out of range or at capacity returns an error and changes     *)
(* nothing.                                                                *)
Enqueue ==
  /\ Len(prio) < MaxEnqueues /\ HasRoom
  /\ \E p \in GivenPriorities \cap Priority :
       /\ buckets' = [buckets EXCEPT ![p] = Append(@, Len(prio) + 1)]
       /\ prio' = Append(prio, p)
  /\ size' = size + 1
  /\ UNCHANGED <<drain, inHand, delivered, failed>>

Lowest(p) == buckets[p] # <<>> /\ \A q \in Priority : q < p => buckets[q] = <<>>

(* The bucket from which Dequeue takes.                                    *)
Foremost(p) == buckets[p] # <<>> /\ \A q \in Priority : q > p => buckets[q] = <<>>

Dequeue(p) ==
  /\ Foremost(p)
  /\ buckets' = [buckets EXCEPT ![p] = Tail(@)]
  /\ size' = size - 1

StartDrain(d) ==
  /\ drain[d] = "idle"
  /\ drain' = [drain EXCEPT ![d] = "draining"]
  /\ UNCHANGED <<buckets, size, inHand, prio, delivered, failed>>

Take(d) ==
  /\ drain[d] = "draining"
  /\ \E p \in Priority :
       Dequeue(p) /\ inHand' = [inHand EXCEPT ![d] = Head(buckets[p])]
  /\ drain' = [drain EXCEPT ![d] = "sending"]
  /\ UNCHANGED <<prio, delivered, failed>>

(* Drain returns nil: the queue is empty.                                  *)
Drained(d) ==
  /\ drain[d] = "draining" /\ \A p \in Priority : buckets[p] = <<>>
  /\ drain' = [drain EXCEPT ![d] = "idle"]
  /\ UNCHANGED <<buckets, size, inHand, prio, delivered, failed>>

Sent(d, then) ==
  /\ drain[d] = "sending"
  /\ inHand' = [inHand EXCEPT ![d] = Nothing]
  /\ drain' = [drain EXCEPT ![d] = then]
  /\ UNCHANGED <<buckets, size, prio>>

(* next.Send returned nil, or an error that ends this Drain: what was in   *)
(* hand is not put back.                                                   *)
SendOk(d) == Sent(d, "draining") /\ delivered' = delivered \cup {inHand[d]} /\ UNCHANGED failed
SendFails(d) == Sent(d, "idle") /\ failed' = failed \cup {inHand[d]} /\ UNCHANGED delivered

Next ==
  \/ Enqueue
  \/ \E d \in Drainers : StartDrain(d) \/ Take(d) \/ Drained(d) \/ SendOk(d) \/ SendFails(d)

Spec == Init /\ [][Next]_vars

-----------------------------------------------------------------------------
Accepted == DOMAIN prio

TypeOK ==
  /\ buckets \in [Priority -> Seq(Nat)]
  /\ size \in Int
  /\ drain \in [Drainers -> {"idle", "draining", "sending"}]
  /\ inHand \in [Drainers -> Nat]
  /\ prio \in Seq(Priority)
  /\ delivered \subseteq Accepted /\ failed \subseteq Accepted

In(p) == {buckets[p][k] : k \in DOMAIN buckets[p]}
Queued == UNION {In(p) : p \in Priority}
Held == {inHand[d] : d \in {e \in Drainers : drain[e] = "sending"}}

(* A bucket holds notifications of its priority in the order they came.    *)
BucketsInOrder ==
  \A p \in Priority : \A k \in DOMAIN buckets[p] :
    /\ buckets[p][k] \in Accepted /\ prio[buckets[p][k]] = p
    /\ \A m \in DOMAIN buckets[p] : k < m => buckets[p][k] < buckets[p][m]

(* The counter is what the buckets hold, and within the capacity.          *)
SizeExact ==
  /\ size = Len(buckets[0]) + Len(buckets[1]) + Len(buckets[2]) + Len(buckets[3])
  /\ size <= Capacity

(* With several Drains at once and failing sends, every notification that  *)
(* was accepted is in exactly one place: queued, in the hand of exactly    *)
(* one Drain, delivered, or the one whose failure ended a Drain.           *)
EachInOnePlace ==
  /\ Accepted = Queued \cup Held \cup delivered \cup failed
  /\ Queued \cap (Held \cup delivered \cup failed) = {}
  /\ Held \cap (delivered \cup failed) = {}
  /\ delivered \cap failed = {}
  /\ \A d, e \in Drainers : drain[d] = "sending" /\ inHand[d] = inHand[e] => d = e

QueueAccounted == BucketsInOrder /\ SizeExact /\ EachInOnePlace

(* What a Drain takes to send is never passed over for something of lower  *)
(* priority, or of the same priority and later, that is in the queue too.  *)
HighestFirst ==
  [][\A n \in Queued \ Queued' : \A m \in Queued' :
       prio[m] < prio[n] \/ (prio[m] = prio[n] /\ n < m)]_vars
=============================================================================
