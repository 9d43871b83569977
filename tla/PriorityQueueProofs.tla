------------------------- MODULE PriorityQueueProofs -------------------------
(* The priority queue keeps order and loses nothing, for any capacity and  *)
(* any number of Drains at once.                                           *)
EXTENDS PriorityQueue, TLAPS

(* Only a drainer that is sending has a notification in hand.              *)
HandsEmpty == \A d \in Drainers : drain[d] # "sending" => inHand[d] = Nothing

IInv == TypeOK /\ QueueAccounted /\ HandsEmpty

(* The normalised capacity is positive.                                    *)
LEMMA CapacityPositive == Capacity \in Nat \ {0}
BY BufferPoliciesAssumption DEF Capacity

(* What Append and Tail do to the elements of a sequence.                  *)
LEMMA AppendFacts ==
  ASSUME NEW S, NEW s \in Seq(S), NEW e \in S
  PROVE  /\ Append(s, e) \in Seq(S)
         /\ Len(Append(s, e)) = Len(s) + 1 /\ Len(s) \in Nat
         /\ DOMAIN Append(s, e) = DOMAIN s \cup {Len(s) + 1}
         /\ Append(s, e)[Len(s) + 1] = e
         /\ \A k \in DOMAIN s : Append(s, e)[k] = s[k] /\ k \in 1 .. Len(s)
OBVIOUS

(* What Tail does to a sequence.                                           *)
LEMMA TailFacts ==
  ASSUME NEW S, NEW s \in Seq(S), s # <<>>
  PROVE  /\ Tail(s) \in Seq(S)
         /\ Len(Tail(s)) = Len(s) - 1 /\ Len(s) \in Nat \ {0}
         /\ 1 \in DOMAIN s /\ Head(s) = s[1]
         /\ \A k \in DOMAIN Tail(s) : k + 1 \in DOMAIN s /\ Tail(s)[k] = s[k + 1]
         /\ \A k \in DOMAIN s : k # 1 => k - 1 \in DOMAIN Tail(s) /\ Tail(s)[k - 1] = s[k]
OBVIOUS

(* The elements of a bucket after its first.                               *)
LEMMA TailElements ==
  ASSUME BucketsInOrder, buckets \in [Priority -> Seq(Nat)], NEW p \in Priority,
         buckets[p] # <<>>
  PROVE  {Tail(buckets[p])[k] : k \in DOMAIN Tail(buckets[p])} = In(p) \ {Head(buckets[p])}
<1>. DEFINE s == buckets[p]
<1>1. s \in Seq(Nat)
  OBVIOUS
<1>2. \A k, m \in DOMAIN s : k < m => s[k] < s[m]
  BY DEF BucketsInOrder
<1>3. \A k \in DOMAIN s : k # 1 => 1 < k /\ s[1] \in Nat /\ s[k] \in Nat
  BY <1>1
<1>. HIDE DEF s
<1>4. \A k \in DOMAIN s : k # 1 => s[k] # s[1]
  BY <1>1, <1>2, <1>3, TailFacts DEF s
<1>5. /\ \A k \in DOMAIN Tail(s) : k + 1 \in DOMAIN s /\ k + 1 # 1 /\ Tail(s)[k] = s[k + 1]
      /\ \A k \in DOMAIN s : k # 1 => k - 1 \in DOMAIN Tail(s) /\ Tail(s)[k - 1] = s[k]
      /\ Head(s) = s[1]
  BY <1>1, TailFacts DEF s
<1>6. {Tail(s)[k] : k \in DOMAIN Tail(s)} = {s[k] : k \in DOMAIN s} \ {s[1]}
  <2>1. ASSUME NEW k \in DOMAIN Tail(s)
        PROVE  Tail(s)[k] \in {s[m] : m \in DOMAIN s} \ {s[1]}
    BY <1>4, <1>5
  <2>2. ASSUME NEW k \in DOMAIN s, s[k] # s[1]
        PROVE  s[k] \in {Tail(s)[m] : m \in DOMAIN Tail(s)}
    <3>1. k - 1 \in DOMAIN Tail(s) /\ Tail(s)[k - 1] = s[k]
      BY <1>5, <2>2
    <3>. QED
      BY <3>1
  <2>. QED
    BY <2>1, <2>2
<1>. QED
  BY <1>5, <1>6 DEF s, In

(* A Dequeue takes the head of the foremost bucket and nothing else.       *)
LEMMA DequeueTakes ==
  ASSUME TypeOK, BucketsInOrder, NEW p \in Priority, Dequeue(p)
  PROVE  /\ Head(buckets[p]) \in Queued
         /\ Queued' = Queued \ {Head(buckets[p])}
<1>1. buckets \in [Priority -> Seq(Nat)] /\ buckets[p] # <<>>
  BY DEF TypeOK, Dequeue, Foremost
<1>2. In(p)' = In(p) \ {Head(buckets[p])}
  <2>1. In(p)' = {Tail(buckets[p])[k] : k \in DOMAIN Tail(buckets[p])}
    BY <1>1 DEF Dequeue, In
  <2>. QED
    BY <1>1, <2>1, TailElements
<1>3. \A q \in Priority : q # p => In(q)' = In(q)
  BY <1>1 DEF Dequeue, In
<1>4. \A q \in Priority : q # p => Head(buckets[p]) \notin In(q)
  BY <1>1, TailFacts DEF BucketsInOrder, In
<1>5. Head(buckets[p]) \in In(p)
  BY <1>1, TailFacts DEF In
<1>. QED
  BY <1>2, <1>3, <1>4, <1>5 DEF Queued

(* Enqueue puts the new notification behind all others of its bucket.      *)
LEMMA EnqueueKeepsOrder ==
  ASSUME TypeOK, BucketsInOrder, Enqueue
  PROVE  /\ BucketsInOrder'
         /\ buckets' \in [Priority -> Seq(Nat)] /\ prio' \in Seq(Priority)
         /\ Accepted' = Accepted \cup {Len(prio) + 1} /\ Len(prio) + 1 \notin Accepted
         /\ Queued' = Queued \cup {Len(prio) + 1}
<1>. DEFINE e == Len(prio) + 1
<1>0. PICK p \in Priority : /\ buckets' = [buckets EXCEPT ![p] = Append(@, e)]
                            /\ prio' = Append(prio, p)
  BY DEF Enqueue
<1>1. /\ buckets \in [Priority -> Seq(Nat)] /\ prio \in Seq(Priority) /\ e \in Nat
      /\ Accepted = 1 .. Len(prio)
  BY DEF TypeOK, Accepted
<1>2. /\ prio' \in Seq(Priority) /\ Accepted' = Accepted \cup {e} /\ e \notin Accepted
      /\ prio'[e] = p /\ \A n \in Accepted : prio'[n] = prio[n] /\ n \in Nat /\ n < e
  BY <1>0, <1>1, AppendFacts DEF Accepted
<1>. HIDE DEF e
<1>3. /\ buckets[p] \in Seq(Nat) /\ buckets'[p] = Append(buckets[p], e)
      /\ \A q \in Priority : q # p => buckets'[q] = buckets[q]
  BY <1>0, <1>1
<1>. DEFINE l == Len(buckets[p]) + 1
<1>4. /\ buckets'[p] \in Seq(Nat) /\ l \in Nat
      /\ DOMAIN buckets'[p] = DOMAIN buckets[p] \cup {l}
      /\ buckets'[p][l] = e
      /\ \A k \in DOMAIN buckets[p] : buckets'[p][k] = buckets[p][k] /\ k \in Nat /\ k < l
  BY <1>1, <1>3, AppendFacts
<1>5. buckets' \in [Priority -> Seq(Nat)]
  BY <1>0, <1>1, <1>3, <1>4
<1>. HIDE DEF l
<1>6. In(p)' = In(p) \cup {e} /\ \A q \in Priority : q # p => In(q)' = In(q)
  BY <1>3, <1>4 DEF In
<1>7. Queued' = Queued \cup {e}
  BY <1>6 DEF Queued
<1>8. BucketsInOrder'
  <2>1. ASSUME NEW q \in Priority, q # p, NEW k \in DOMAIN buckets'[q]
        PROVE  /\ buckets'[q][k] \in Accepted' /\ prio'[buckets'[q][k]] = q
               /\ \A m \in DOMAIN buckets'[q] : k < m => buckets'[q][k] < buckets'[q][m]
    BY <1>2, <1>3, <2>1 DEF BucketsInOrder
  <2>2. ASSUME NEW k \in DOMAIN buckets'[p]
        PROVE  /\ buckets'[p][k] \in Accepted' /\ prio'[buckets'[p][k]] = p
               /\ \A m \in DOMAIN buckets'[p] : k < m => buckets'[p][k] < buckets'[p][m]
    <3>1. CASE k = l
      BY <1>2, <1>4, <3>1
    <3>2. CASE k \in DOMAIN buckets[p]
      <4>1. buckets[p][k] \in Accepted /\ prio[buckets[p][k]] = p
        BY <3>2 DEF BucketsInOrder
      <4>2. \A m \in DOMAIN buckets[p] : k < m => buckets[p][k] < buckets[p][m]
        BY <3>2 DEF BucketsInOrder
      <4>. QED
        BY <1>2, <1>4, <3>2, <4>1, <4>2
    <3>. QED
      BY <1>4, <2>2, <3>1, <3>2
  <2>. QED
    BY <2>1, <2>2 DEF BucketsInOrder
<1>. QED
  BY <1>2, <1>5, <1>7, <1>8 DEF e

(* Dequeue leaves the others of the bucket as they were.                   *)
LEMMA DequeueKeepsOrder ==
  ASSUME TypeOK, BucketsInOrder, NEW p \in Priority, Dequeue(p), UNCHANGED prio
  PROVE  BucketsInOrder' /\ buckets' \in [Priority -> Seq(Nat)]
<1>1. buckets \in [Priority -> Seq(Nat)] /\ buckets[p] # <<>>
  BY DEF TypeOK, Dequeue, Foremost
<1>2. /\ buckets[p] \in Seq(Nat) /\ buckets'[p] = Tail(buckets[p])
      /\ \A q \in Priority : q # p => buckets'[q] = buckets[q]
  BY <1>1 DEF Dequeue
<1>3. /\ Tail(buckets[p]) \in Seq(Nat)
      /\ \A k \in DOMAIN Tail(buckets[p]) :
           /\ k \in Nat /\ k + 1 \in DOMAIN buckets[p]
           /\ Tail(buckets[p])[k] = buckets[p][k + 1]
  BY <1>1, <1>2, TailFacts
<1>4. buckets' \in [Priority -> Seq(Nat)]
  BY <1>1, <1>3 DEF Dequeue
<1>5. ASSUME NEW k \in DOMAIN buckets'[p]
      PROVE  /\ buckets'[p][k] \in Accepted /\ prio[buckets'[p][k]] = p
             /\ \A m \in DOMAIN buckets'[p] : k < m => buckets'[p][k] < buckets'[p][m]
  BY <1>2, <1>3, <1>5 DEF BucketsInOrder
<1>6. Accepted' = Accepted
  BY DEF Accepted
<1>. QED
  BY <1>2, <1>4, <1>5, <1>6 DEF BucketsInOrder

(* One of four lengths changes: so does their sum, by as much.             *)
LEMMA OneOfFour ==
  ASSUME NEW a \in Int, NEW b \in Int, NEW c \in Int, NEW d \in Int, NEW step \in Int,
         NEW a1, NEW b1, NEW c1, NEW d1,
         \/ a1 = a + step /\ b1 = b /\ c1 = c /\ d1 = d
         \/ a1 = a /\ b1 = b + step /\ c1 = c /\ d1 = d
         \/ a1 = a /\ b1 = b /\ c1 = c + step /\ d1 = d
         \/ a1 = a /\ b1 = b /\ c1 = c /\ d1 = d + step
  PROVE  a1 + b1 + c1 + d1 = a + b + c + d + step
OBVIOUS

(* The counter follows the lengths of the buckets.                         *)
LEMMA CounterFollows ==
  ASSUME TypeOK, SizeExact, NEW p \in Priority, NEW step \in Int,
         size' = size + step, Len(buckets'[p]) = Len(buckets[p]) + step,
         \A q \in Priority : q # p => buckets'[q] = buckets[q],
         size + step <= Capacity
  PROVE  SizeExact'
<1>1. /\ Len(buckets[0]) \in Int /\ Len(buckets[1]) \in Int
      /\ Len(buckets[2]) \in Int /\ Len(buckets[3]) \in Int
  <2>. /\ buckets[0] \in Seq(Nat) /\ buckets[1] \in Seq(Nat)
       /\ buckets[2] \in Seq(Nat) /\ buckets[3] \in Seq(Nat)
    BY DEF TypeOK, Priority
  <2>. QED
    OBVIOUS
<1>. DEFINE a == Len(buckets[0])   a1 == Len(buckets'[0])
            b == Len(buckets[1])   b1 == Len(buckets'[1])
            c == Len(buckets[2])   c1 == Len(buckets'[2])
            d == Len(buckets[3])   d1 == Len(buckets'[3])
<1>2. \/ a1 = a + step /\ b1 = b /\ c1 = c /\ d1 = d
      \/ a1 = a /\ b1 = b + step /\ c1 = c /\ d1 = d
      \/ a1 = a /\ b1 = b /\ c1 = c + step /\ d1 = d
      \/ a1 = a /\ b1 = b /\ c1 = c /\ d1 = d + step
  BY DEF Priority
<1>3. size = a + b + c + d
  BY DEF SizeExact
<1>4. SizeExact' <=> size' = a1 + b1 + c1 + d1 /\ size' <= Capacity
  BY DEF SizeExact
<1>5. a \in Int /\ b \in Int /\ c \in Int /\ d \in Int
  BY <1>1
<1>. HIDE DEF a, b, c, d, a1, b1, c1, d1
<1>6. a1 + b1 + c1 + d1 = a + b + c + d + step
  BY <1>2, <1>5, OneOfFour
<1>. QED
  BY <1>3, <1>4, <1>6

(* No notification is number Nothing, and whatever is held was accepted.   *)
LEMMA AcceptedFacts ==
  ASSUME TypeOK, EachInOnePlace
  PROVE  Nothing \notin Accepted /\ Held \subseteq Accepted /\ Queued \subseteq Accepted
<1>1. Accepted = 1 .. Len(prio) /\ Len(prio) \in Nat
  BY DEF TypeOK, Accepted
<1>2. Nothing \notin Accepted
  BY <1>1 DEF Nothing
<1>. QED
  BY <1>2 DEF EachInOnePlace

(* An Enqueue keeps the invariant, whether it accepts or refuses.          *)
LEMMA EnqueueStep ==
  ASSUME IInv, Enqueue
  PROVE  IInv'
<1>1. TypeOK /\ BucketsInOrder /\ SizeExact /\ EachInOnePlace /\ HandsEmpty
  BY DEF IInv, QueueAccounted
<1>2. UNCHANGED <<drain, inHand, delivered, failed>>
  BY DEF Enqueue
<1>3. /\ BucketsInOrder'
      /\ buckets' \in [Priority -> Seq(Nat)] /\ prio' \in Seq(Priority)
      /\ Accepted' = Accepted \cup {Len(prio) + 1} /\ Len(prio) + 1 \notin Accepted
      /\ Queued' = Queued \cup {Len(prio) + 1}
  BY <1>1, EnqueueKeepsOrder
<1>4. TypeOK'
  <2>1. size' \in Int
    BY <1>1 DEF TypeOK, Enqueue
  <2>2. delivered' \subseteq Accepted' /\ failed' \subseteq Accepted'
    BY <1>1, <1>2, <1>3 DEF TypeOK
  <2>. QED
    BY <1>1, <1>2, <1>3, <2>1, <2>2 DEF TypeOK
<1>5. SizeExact'
  <2>1. PICK p \in Priority : buckets' = [buckets EXCEPT ![p] = Append(@, Len(prio) + 1)]
    BY DEF Enqueue
  <2>2. buckets[p] \in Seq(Nat) /\ Len(prio) + 1 \in Nat
    BY <1>1 DEF TypeOK
  <2>3. /\ buckets'[p] = Append(buckets[p], Len(prio) + 1)
        /\ \A q \in Priority : q # p => buckets'[q] = buckets[q]
    BY <1>1, <2>1 DEF TypeOK
  <2>4. Len(buckets'[p]) = Len(buckets[p]) + 1
    BY <2>2, <2>3, AppendFacts
  <2>5. size' = size + 1 /\ size + 1 <= Capacity
    BY <1>1, CapacityPositive DEF Enqueue, HasRoom, TypeOK
  <2>. QED
    BY <1>1, <2>3, <2>4, <2>5, CounterFollows
<1>6. EachInOnePlace'
  <2>1. Held' = Held /\ Held \subseteq Accepted /\ Queued \subseteq Accepted
    BY <1>1, <1>2, AcceptedFacts DEF Held
  <2>. QED
    BY <1>1, <1>2, <1>3, <2>1 DEF EachInOnePlace, TypeOK
<1>7. HandsEmpty'
  BY <1>1, <1>2 DEF HandsEmpty
<1>. QED
  BY <1>3, <1>4, <1>5, <1>6, <1>7 DEF IInv, QueueAccounted

(* A Drain takes the head of a bucket.                                     *)
LEMMA TakeStep ==
  ASSUME IInv, NEW d \in Drainers, Take(d)
  PROVE  IInv'
<1>1. TypeOK /\ BucketsInOrder /\ SizeExact /\ EachInOnePlace /\ HandsEmpty
  BY DEF IInv, QueueAccounted
<1>2. UNCHANGED <<prio, delivered, failed>> /\ Accepted' = Accepted
  BY DEF Take, Accepted
<1>3. PICK p \in Priority : Dequeue(p) /\ inHand' = [inHand EXCEPT ![d] = Head(buckets[p])]
  BY DEF Take
<1>. DEFINE h == Head(buckets[p])
<1>4. /\ drain[d] = "draining" /\ drain' = [drain EXCEPT ![d] = "sending"]
      /\ drain \in [Drainers -> {"idle", "draining", "sending"}]
      /\ inHand \in [Drainers -> Nat]
  BY <1>1 DEF Take, TypeOK
<1>5. /\ BucketsInOrder' /\ buckets' \in [Priority -> Seq(Nat)]
      /\ h \in Queued /\ Queued' = Queued \ {h}
  BY <1>1, <1>2, <1>3, DequeueKeepsOrder, DequeueTakes
<1>6. buckets[p] \in Seq(Nat) /\ buckets[p] # <<>>
  BY <1>1, <1>3 DEF TypeOK, Dequeue, Foremost
<1>7. h \in Nat
  BY <1>6
<1>8. SizeExact'
  <2>. DEFINE step == -1
  <2>0. step \in Int /\ step < 0
    OBVIOUS
  <2>1. /\ buckets'[p] = Tail(buckets[p]) /\ size' = size + step
        /\ \A q \in Priority : q # p => buckets'[q] = buckets[q]
    BY <1>1, <1>3 DEF TypeOK, Dequeue
  <2>2. Len(buckets'[p]) = Len(buckets[p]) + step
    BY <1>6, <2>1, TailFacts
  <2>3. size \in Int /\ size <= Capacity /\ Capacity \in Int
    <3>1. size \in Int
      BY <1>1 DEF TypeOK
    <3>2. size <= Capacity
      BY <1>1 DEF SizeExact
    <3>. QED
      BY <3>1, <3>2, CapacityPositive
  <2>. HIDE DEF step
  <2>4. size + step <= Capacity
    BY <2>0, <2>3
  <2>. QED
    BY <1>1, <2>0, <2>1, <2>2, <2>4, CounterFollows
<1>. HIDE DEF h
<1>9. /\ inHand'[d] = h /\ drain'[d] = "sending"
      /\ \A e \in Drainers : e # d => inHand'[e] = inHand[e] /\ drain'[e] = drain[e]
  BY <1>3, <1>4 DEF h
<1>10. TypeOK'
  <2>1. size' \in Int
    BY <1>1, <1>3 DEF TypeOK, Dequeue
  <2>2. /\ inHand' \in [Drainers -> Nat]
        /\ drain' \in [Drainers -> {"idle", "draining", "sending"}]
    BY <1>3, <1>4, <1>7 DEF h
  <2>. QED
    BY <1>1, <1>2, <1>5, <2>1, <2>2 DEF TypeOK
<1>11. Held' = Held \cup {h}
  BY <1>4, <1>9 DEF Held
<1>12. h \in Accepted /\ h \notin Held /\ Nothing \notin Accepted
  BY <1>1, <1>5, AcceptedFacts DEF EachInOnePlace
<1>13. EachInOnePlace'
  <2>1. ASSUME NEW e \in Drainers, NEW f \in Drainers,
               drain'[e] = "sending", inHand'[e] = inHand'[f]
        PROVE  e = f
    <3>1. \A g \in Drainers : g # d => inHand'[g] # h
      <4>1. ASSUME NEW g \in Drainers, g # d PROVE inHand[g] # h
        BY <1>1, <1>12, <4>1 DEF HandsEmpty, Held
      <4>. QED
        BY <1>9, <4>1
    <3>. QED
      BY <1>1, <1>9, <2>1, <3>1 DEF EachInOnePlace
  <2>. QED
    BY <1>1, <1>2, <1>5, <1>11, <1>12, <2>1 DEF EachInOnePlace
<1>14. HandsEmpty'
  BY <1>1, <1>9 DEF HandsEmpty
<1>. QED
  BY <1>5, <1>8, <1>10, <1>13, <1>14 DEF IInv, QueueAccounted

(* The send of what a Drain took returns.                                  *)
LEMMA SentStep ==
  ASSUME IInv, NEW d \in Drainers, SendOk(d) \/ SendFails(d)
  PROVE  IInv'
<1>1. TypeOK /\ BucketsInOrder /\ SizeExact /\ EachInOnePlace /\ HandsEmpty
  BY DEF IInv, QueueAccounted
<1>2. PICK then \in {"draining", "idle"} : Sent(d, then)
  BY DEF SendOk, SendFails
<1>3. UNCHANGED <<buckets, size, prio>>
  BY <1>2 DEF Sent
<1>4. Accepted' = Accepted /\ Queued' = Queued /\ BucketsInOrder' /\ SizeExact'
  <2>1. Accepted' = Accepted /\ Queued' = Queued
    BY <1>3 DEF Accepted, Queued, In
  <2>2. BucketsInOrder' /\ SizeExact'
    BY <1>1, <1>3, <2>1 DEF BucketsInOrder, SizeExact
  <2>. QED
    BY <2>1, <2>2
<1>5. /\ drain[d] = "sending" /\ inHand'[d] = Nothing /\ drain'[d] = then
      /\ \A e \in Drainers : e # d => inHand'[e] = inHand[e] /\ drain'[e] = drain[e]
  BY <1>1, <1>2 DEF Sent, TypeOK
<1>6. /\ inHand' \in [Drainers -> Nat]
      /\ drain' \in [Drainers -> {"idle", "draining", "sending"}]
  BY <1>1, <1>2 DEF Sent, TypeOK, Nothing
<1>7. \/ delivered' = delivered \cup {inHand[d]} /\ failed' = failed
      \/ failed' = failed \cup {inHand[d]} /\ delivered' = delivered
  BY DEF SendOk, SendFails
<1>8. inHand[d] \in Held /\ inHand[d] \in Accepted /\ Nothing \notin Accepted
  BY <1>1, <1>5, AcceptedFacts DEF Held
<1>9. Held' = Held \ {inHand[d]}
  <2>1. \A e \in Drainers : drain[e] = "sending" /\ e # d => inHand[e] # inHand[d]
    BY <1>1, <1>5 DEF EachInOnePlace
  <2>. QED
    BY <1>2, <1>5, <2>1 DEF Held
<1>10. TypeOK'
  BY <1>1, <1>3, <1>4, <1>6, <1>7, <1>8 DEF TypeOK
<1>11. EachInOnePlace'
  <2>1. ASSUME NEW e \in Drainers, NEW f \in Drainers,
               drain'[e] = "sending", inHand'[e] = inHand'[f]
        PROVE  e = f
    <3>1. e # d /\ inHand'[e] = inHand[e] /\ drain[e] = "sending"
      BY <1>2, <1>5, <2>1
    <3>2. inHand[e] \in Accepted
      BY <1>1, <3>1, AcceptedFacts DEF Held
    <3>3. f # d
      BY <1>5, <1>8, <2>1, <3>1, <3>2
    <3>. QED
      BY <1>1, <1>5, <2>1, <3>1, <3>3 DEF EachInOnePlace
  <2>. QED
    BY <1>1, <1>4, <1>7, <1>8, <1>9, <2>1 DEF EachInOnePlace
<1>12. HandsEmpty'
  BY <1>1, <1>5 DEF HandsEmpty
<1>. QED
  BY <1>4, <1>10, <1>11, <1>12 DEF IInv, QueueAccounted

(* Steps that only change where an idle drainer is.                        *)
LEMMA PassiveStep ==
  ASSUME IInv, UNCHANGED vars \/ \E d \in Drainers : StartDrain(d) \/ Drained(d)
  PROVE  IInv'
<1>1. UNCHANGED <<buckets, size, inHand, prio, delivered, failed>>
  BY DEF vars, StartDrain, Drained
<1>2. /\ drain' \in [Drainers -> {"idle", "draining", "sending"}]
      /\ \A e \in Drainers : drain'[e] = "sending" <=> drain[e] = "sending"
  BY DEF IInv, TypeOK, vars, StartDrain, Drained
<1>3. Held' = Held
  BY <1>1, <1>2 DEF Held
<1>4. Accepted' = Accepted /\ Queued' = Queued
  BY <1>1 DEF Accepted, Queued, In
<1>5. TypeOK' /\ HandsEmpty'
  BY <1>1, <1>2, <1>4 DEF IInv, TypeOK, HandsEmpty
<1>6. BucketsInOrder' /\ SizeExact'
  BY <1>1, <1>4 DEF IInv, QueueAccounted, BucketsInOrder, SizeExact
<1>7. EachInOnePlace'
  BY <1>1, <1>2, <1>3, <1>4 DEF IInv, QueueAccounted, EachInOnePlace
<1>. QED
  BY <1>5, <1>6, <1>7 DEF IInv, QueueAccounted

(* The queue's invariant: it is typed, accounted for, and only a sending   *)
(* drainer holds anything.                                                 *)
THEOREM Inductive == Spec => []IInv
<1>1. Init => IInv
  <2>. SUFFICES ASSUME Init PROVE IInv
    OBVIOUS
  <2>1. \A p \in Priority : buckets[p] = <<>> /\ DOMAIN buckets[p] = {}
    BY DEF Init
  <2>2. Queued = {} /\ Held = {} /\ Accepted = {}
    BY <2>1 DEF Init, Queued, In, Held, Accepted
  <2>3. TypeOK /\ HandsEmpty
    BY <2>2 DEF Init, TypeOK, HandsEmpty, Nothing
  <2>4. BucketsInOrder
    BY <2>1 DEF BucketsInOrder
  <2>5. SizeExact
    BY <2>1, CapacityPositive DEF Init, SizeExact, Priority
  <2>6. EachInOnePlace
    BY <2>2 DEF Init, EachInOnePlace
  <2>. QED
    BY <2>3, <2>4, <2>5, <2>6 DEF IInv, QueueAccounted
<1>2. IInv /\ [Next]_vars => IInv'
  BY EnqueueStep, TakeStep, SentStep, PassiveStep DEF Next
<1>. QED
  BY <1>1, <1>2, PTL DEF Spec

(* Whatever interleaving of Enqueue, Drain and failing sends, for any      *)
(* capacity and any number of Drains: the buckets are in order, the        *)
(* counter exact, and every accepted notification in exactly one place.    *)
THEOREM NothingLost == Spec => []QueueAccounted
<1>1. IInv => QueueAccounted
  BY DEF IInv
<1>. QED
  BY <1>1, Inductive, PTL

(* What Dequeue takes comes before all that it leaves.                     *)
LEMMA TakesTheFirst ==
  ASSUME TypeOK, BucketsInOrder, NEW p \in Priority, Dequeue(p), UNCHANGED prio,
         NEW m \in Queued'
  PROVE  LET n == Head(buckets[p])
         IN  prio[m] < prio[n] \/ (prio[m] = prio[n] /\ n < m)
<1>1. buckets \in [Priority -> Seq(Nat)] /\ buckets[p] # <<>>
      /\ \A q \in Priority : q > p => buckets[q] = <<>>
  BY DEF TypeOK, Dequeue, Foremost
<1>2. 1 \in DOMAIN buckets[p] /\ Head(buckets[p]) = buckets[p][1]
  BY <1>1, TailFacts
<1>3. prio[Head(buckets[p])] = p
  BY <1>2 DEF BucketsInOrder
<1>4. m \in Queued /\ m # Head(buckets[p])
  BY DequeueTakes
<1>5. PICK q \in Priority : \E k \in DOMAIN buckets[q] : buckets[q][k] = m
  BY <1>4 DEF Queued, In
<1>6. PICK k \in DOMAIN buckets[q] : buckets[q][k] = m
  BY <1>5
<1>7. prio[m] = q /\ ~(q > p)
  BY <1>1, <1>6 DEF BucketsInOrder
<1>8. CASE q = p
  <2>1. k # 1 /\ 1 < k
    BY <1>1, <1>2, <1>4, <1>6, <1>8
  <2>2. buckets[p][1] < buckets[p][k]
    BY <1>2, <1>6, <1>8, <2>1 DEF BucketsInOrder
  <2>. QED
    BY <1>2, <1>3, <1>6, <1>7, <1>8, <2>2
<1>9. CASE q # p
  BY <1>3, <1>7, <1>9 DEF Priority
<1>. QED
  BY <1>8, <1>9

(* A Drain sends the most urgent first, and the earliest of equals: stated *)
(* of every step that takes something out of the queue.                    *)
THEOREM MostUrgentFirst == Spec => HighestFirst
<1>. DEFINE Ordered == \A n \in Queued \ Queued' : \A m \in Queued' :
                         prio[m] < prio[n] \/ (prio[m] = prio[n] /\ n < m)
<1>1. IInv /\ [Next]_vars => [Ordered]_vars
  <2>. SUFFICES ASSUME IInv, Next PROVE Ordered
    OBVIOUS
  <2>1. TypeOK /\ BucketsInOrder
    BY DEF IInv, QueueAccounted
  <2>2. CASE Enqueue
    <3>1. Queued' = Queued \cup {Len(prio) + 1}
      BY <2>1, <2>2, EnqueueKeepsOrder
    <3>. QED
      BY <3>1
  <2>3. ASSUME NEW d \in Drainers, Take(d) PROVE Ordered
    <3>1. PICK p \in Priority : Dequeue(p)
      BY <2>3 DEF Take
    <3>2. UNCHANGED prio
      BY <2>3 DEF Take
    <3>3. Queued' = Queued \ {Head(buckets[p])}
      BY <2>1, <3>1, DequeueTakes
    <3>4. \A n \in Queued \ Queued' : n = Head(buckets[p])
      BY <3>3
    <3>. HIDE DEF Ordered
    <3>5. \A m \in Queued' : LET n == Head(buckets[p])
                             IN  prio[m] < prio[n] \/ (prio[m] = prio[n] /\ n < m)
      BY <2>1, <3>1, <3>2, TakesTheFirst
    <3>. QED
      BY <3>4, <3>5 DEF Ordered
  <2>4. ASSUME NEW d \in Drainers,
               StartDrain(d) \/ Drained(d) \/ SendOk(d) \/ SendFails(d)
        PROVE  Ordered
    <3>1. buckets' = buckets
      BY <2>4 DEF StartDrain, Drained, SendOk, SendFails, Sent
    <3>2. Queued' = Queued
      BY <3>1 DEF Queued, In
    <3>. QED
      BY <3>2
  <2>. QED
    BY <2>2, <2>3, <2>4 DEF Next
<1>. QED
  BY <1>1, Inductive, PTL DEF Spec, HighestFirst
=============================================================================
