---------------------------- MODULE DeliveryProofs ----------------------------
(* What delivers by goroutines of its own, for any number of targets,      *)
(* goroutines, keys and notifications.                                     *)
EXTENDS MCDelivery, PriorityQueueProofs, FiniteSetTheorems

(* 1. The batcher.                                                         *)

(* Its invariant is inductive together with the types.                     *)
BatcherInv == Batches!TypeOK /\ Batches!EachInOneBatch

(* NewBatcher's size is positive.                                          *)
LEMMA BatchSizeFacts == Batches!MaxSize \in Nat \ {0}
BY BufferPoliciesAssumption DEF Batches!MaxSize

(* The batcher starts with nothing.                                        *)
LEMMA BatcherInit == Batches!Init => BatcherInv
BY BatchSizeFacts, BoundsAssumption DEF Batches!Init, BatcherInv, Batches!TypeOK,
   Batches!EachInOneBatch, Batches!EndOfBatches

(* The last number that was handed on.                                     *)
LEMMA EndFacts ==
  ASSUME BatcherInv
  PROVE  Batches!EndOfBatches \in Nat
<1>0. batches \in Seq(Seq(Nat)) /\ Len(batches) \in Nat /\ DOMAIN batches = 1 .. Len(batches)
  BY DEF BatcherInv, Batches!TypeOK
<1>1. CASE batches = <<>>
  BY <1>1 DEF Batches!EndOfBatches
<1>2. CASE batches # <<>>
  <2>1. Len(batches) \in DOMAIN batches
    BY <1>0, <1>2
  <2>2. batches[Len(batches)] \in Seq(Nat) /\ Len(batches[Len(batches)]) \in 1 .. Batches!MaxSize
    <3>1. \A k \in DOMAIN batches : batches[k] \in Seq(Nat)
      BY <1>0
    <3>2. \A k \in DOMAIN batches : Len(batches[k]) \in 1 .. Batches!MaxSize
      BY DEF BatcherInv, Batches!EachInOneBatch
    <3>. QED
      BY <2>1, <3>1, <3>2, Zenon
  <2>3. batches[Len(batches)][Len(batches[Len(batches)])] \in Nat
    BY <2>2, BatchSizeFacts
  <2>. QED
    BY <1>2, <2>3 DEF Batches!EndOfBatches
<1>. QED
  BY <1>1, <1>2

(* What is in the buffer goes on with the numbers of the last batch.       *)
Continues(s) == s \in Seq(Nat) /\ \A n \in DOMAIN s : s[n] = Batches!EndOfBatches + n

(* Handing on the next notifications keeps every batch what it was.        *)
LEMMA FlushKeeps ==
  ASSUME BatcherInv, NEW s, Continues(s), Len(s) <= Batches!MaxSize, Batches!Flush(s)
  PROVE  /\ buf' = <<>> /\ Len(<<>>) = 0
         /\ batches' \in Seq(Seq(Nat)) /\ DOMAIN batches \subseteq DOMAIN batches'
         /\ \A k \in DOMAIN batches' :
              /\ Len(batches'[k]) \in 1 .. Batches!MaxSize
              /\ \A n \in DOMAIN batches'[k] : batches'[k][n] = Batches!StartOf(k)' + n - 1
         /\ Batches!EndOfBatches' = Batches!EndOfBatches + Len(s)
<1>0. /\ batches \in Seq(Seq(Nat)) /\ Len(batches) \in Nat /\ DOMAIN batches = 1 .. Len(batches)
      /\ s \in Seq(Nat) /\ Len(s) \in Nat /\ DOMAIN s = 1 .. Len(s)
  BY DEF BatcherInv, Batches!TypeOK, Continues
<1>1. buf' = <<>> /\ Len(<<>>) = 0
  BY DEF Batches!Flush
<1>2. \A k \in DOMAIN batches : batches[k] \in Seq(Nat) /\ Len(batches[k]) \in 1 .. Batches!MaxSize
  BY <1>0 DEF BatcherInv, Batches!EachInOneBatch
<1>3. Batches!EndOfBatches \in Nat
  BY EndFacts
<1>4. CASE s = <<>>
  <2>1. batches' = batches /\ Len(s) = 0
    BY <1>0, <1>4 DEF Batches!Flush, Batches!FlushNonempty
  <2>2. Batches!EndOfBatches' = Batches!EndOfBatches + Len(s)
    BY <1>3, <2>1 DEF Batches!EndOfBatches
  <2>3. \A k \in DOMAIN batches' : Batches!StartOf(k)' = Batches!StartOf(k)
    BY <2>1 DEF Batches!StartOf
  <2>. QED
    BY <1>0, <1>1, <2>1, <2>2, <2>3 DEF BatcherInv, Batches!EachInOneBatch
<1>5. CASE s # <<>>
  <2>. PICK last \in Nat : last = Len(batches) + 1
    BY <1>0
  <2>1. batches' = Append(batches, s)
    BY <1>5 DEF Batches!Flush, Batches!FlushNonempty
  <2>2. /\ batches' \in Seq(Seq(Nat)) /\ Len(batches') = last /\ DOMAIN batches' = 1 .. last
        /\ batches'[last] = s /\ \A k \in 1 .. Len(batches) : batches'[k] = batches[k]
    BY <1>0, <2>1
  <2>3. Len(s) \in 1 .. Batches!MaxSize
    BY <1>0, <1>5, BatchSizeFacts
  <2>4. s[Len(s)] = Batches!EndOfBatches + Len(s)
    BY <1>0, <2>3 DEF Continues
  <2>5. batches' # <<>>
    BY <1>0, <2>2
  <2>6. Batches!EndOfBatches' = Batches!EndOfBatches + Len(s)
    BY <2>2, <2>4, <2>5 DEF Batches!EndOfBatches
  <2>7. \A k \in 1 .. Len(batches) : Batches!StartOf(k)' = Batches!StartOf(k)
    <3>1. \A k \in 1 .. Len(batches) : k # 1 => k - 1 \in 1 .. Len(batches)
      BY <1>0
    <3>. QED
      BY <2>2, <3>1 DEF Batches!StartOf
  <2>8. Batches!StartOf(last)' = Batches!EndOfBatches + 1
    <3>1. CASE Len(batches) = 0
      BY <1>0, <3>1 DEF Batches!StartOf, Batches!EndOfBatches
    <3>2. CASE Len(batches) # 0
      <4>1. last # 1 /\ last - 1 = Len(batches) /\ batches # <<>> /\ Len(batches) \in 1 .. Len(batches)
        BY <1>0, <3>2
      <4>. QED
        BY <2>2, <4>1 DEF Batches!StartOf, Batches!EndOfBatches
    <3>. QED
      BY <3>1, <3>2
  <2>9. ASSUME NEW k \in DOMAIN batches'
        PROVE  /\ Len(batches'[k]) \in 1 .. Batches!MaxSize
               /\ \A n \in DOMAIN batches'[k] : batches'[k][n] = Batches!StartOf(k)' + n - 1
    <3>1. CASE k = last
      <4>1. Batches!StartOf(k)' = Batches!EndOfBatches + 1 /\ batches'[k] = s
        BY <2>2, <2>8, <3>1
      <4>2. \A n \in DOMAIN s : n \in Nat /\ s[n] = Batches!EndOfBatches + n
        BY <1>0 DEF Continues
      <4>3. \A n \in DOMAIN s : s[n] = Batches!EndOfBatches + 1 + n - 1
        BY <1>3, <4>2
      <4>. QED
        BY <2>3, <4>1, <4>3
    <3>2. CASE k # last
      <4>1. k \in 1 .. Len(batches)
        BY <1>0, <2>2, <3>2
      <4>. QED
        BY <1>0, <2>2, <2>7, <4>1 DEF BatcherInv, Batches!EachInOneBatch
    <3>. QED
      BY <3>1, <3>2
  <2>10. DOMAIN batches \subseteq DOMAIN batches'
    BY <1>0, <2>2
  <2>. QED
    BY <1>1, <2>2, <2>6, <2>9, <2>10
<1>. QED
  BY <1>4, <1>5

(* Every step of Add, Run and the flush functions.                         *)
LEMMA BatcherStep == BatcherInv /\ [Batches!Next]_(Batches!vars) => BatcherInv'
<1>. SUFFICES ASSUME BatcherInv, [Batches!Next]_(Batches!vars) PROVE BatcherInv'
  OBVIOUS
<1>0. /\ buf \in Seq(Nat) /\ Len(buf) \in Nat /\ Len(buf) < Batches!MaxSize
      /\ batches \in Seq(Seq(Nat)) /\ handled \subseteq DOMAIN batches
      /\ added \in 0 .. MaxAdds /\ added = Batches!EndOfBatches + Len(buf)
      /\ Continues(buf)
      /\ ticked \in {"tick", "empty"} /\ run \in {"running", "cancelled", "returned"}
      /\ Batches!MaxSize \in Nat \ {0} /\ MaxAdds \in Nat
  BY BatchSizeFacts, BoundsAssumption
     DEF BatcherInv, Batches!TypeOK, Batches!EachInOneBatch, Continues
<1>1. CASE UNCHANGED <<buf, batches, added>> /\ handled' \subseteq DOMAIN batches
           /\ ticked' \in {"tick", "empty"} /\ run' \in {"running", "cancelled", "returned"}
  <2>1. /\ Batches!EndOfBatches' = Batches!EndOfBatches
        /\ \A k \in DOMAIN batches : Batches!StartOf(k)' = Batches!StartOf(k)
    BY <1>1 DEF Batches!EndOfBatches, Batches!StartOf
  <2>2. Batches!TypeOK'
    BY <1>0, <1>1 DEF Batches!TypeOK
  <2>3. Batches!EachInOneBatch'
    BY <1>1, <2>1 DEF BatcherInv, Batches!EachInOneBatch
  <2>. QED
    BY <2>2, <2>3 DEF BatcherInv
<1>2. ASSUME NEW s, Continues(s), Len(s) <= Batches!MaxSize, Batches!Flush(s),
             added' = Batches!EndOfBatches + Len(s), added' \in 0 .. MaxAdds,
             handled' = handled, ticked' \in {"tick", "empty"},
             run' \in {"running", "cancelled", "returned"}
      PROVE  BatcherInv'
  <2>1. /\ buf' = <<>> /\ Len(<<>>) = 0
        /\ batches' \in Seq(Seq(Nat)) /\ DOMAIN batches \subseteq DOMAIN batches'
        /\ \A k \in DOMAIN batches' :
             /\ Len(batches'[k]) \in 1 .. Batches!MaxSize
             /\ \A n \in DOMAIN batches'[k] : batches'[k][n] = Batches!StartOf(k)' + n - 1
        /\ Batches!EndOfBatches' = Batches!EndOfBatches + Len(s)
    BY <1>2, FlushKeeps
  <2>2. <<>> \in Seq(Nat) /\ DOMAIN <<>> = {}
    OBVIOUS
  <2>3. Batches!TypeOK'
    BY <1>0, <1>2, <2>1, <2>2 DEF Batches!TypeOK
  <2>4. added' = Batches!EndOfBatches' + Len(buf') /\ Len(buf') < Batches!MaxSize
    BY <1>0, <1>2, <2>1
  <2>5. Batches!EachInOneBatch'
    BY <2>1, <2>2, <2>4 DEF Batches!EachInOneBatch
  <2>. QED
    BY <2>3, <2>5 DEF BatcherInv
<1>3. CASE Batches!Add
  <2>. DEFINE s == Append(buf, added + 1)
  <2>1. /\ added < MaxAdds /\ added' = added + 1 /\ UNCHANGED <<ticked, run, handled>>
        /\ \/ Batches!IsFull(s) /\ Batches!Flush(s)
           \/ ~Batches!IsFull(s) /\ buf' = s /\ UNCHANGED batches
    BY <1>3 DEF Batches!Add
  <2>2. /\ s \in Seq(Nat) /\ Len(s) = Len(buf) + 1 /\ DOMAIN s = 1 .. Len(s)
        /\ s[Len(s)] = added + 1 /\ \A n \in 1 .. Len(buf) : s[n] = buf[n]
    BY <1>0
  <2>3. Batches!EndOfBatches \in Int
    BY EndFacts
  <2>4. Continues(s)
    BY <1>0, <2>2, <2>3 DEF Continues
  <2>5. added' = Batches!EndOfBatches + Len(s) /\ added' \in 0 .. MaxAdds
    BY <1>0, <2>1, <2>2, <2>3
  <2>6. Len(s) <= Batches!MaxSize
    BY <1>0, <2>2
  <2>. HIDE DEF s
  <2>7. CASE Batches!IsFull(s) /\ Batches!Flush(s)
    BY <1>0, <1>2, <2>1, <2>4, <2>5, <2>6, <2>7
  <2>8. CASE ~Batches!IsFull(s) /\ buf' = s /\ UNCHANGED batches
    <3>1. /\ Batches!EndOfBatches' = Batches!EndOfBatches
          /\ \A k \in DOMAIN batches : Batches!StartOf(k)' = Batches!StartOf(k)
      BY <2>8 DEF Batches!EndOfBatches, Batches!StartOf
    <3>2. Len(s) < Batches!MaxSize
      BY <1>0, <2>2, <2>8 DEF Batches!IsFull
    <3>3. Batches!TypeOK'
      BY <1>0, <2>1, <2>2, <2>5, <2>8 DEF Batches!TypeOK
    <3>4. Batches!EachInOneBatch'
      BY <2>4, <2>5, <2>8, <3>1, <3>2 DEF BatcherInv, Batches!EachInOneBatch, Continues
    <3>. QED
      BY <3>3, <3>4 DEF BatcherInv
  <2>. QED
    BY <2>1, <2>7, <2>8
<1>4. CASE Batches!RunTick \/ Batches!RunDone
  BY <1>0, <1>2, <1>4 DEF Batches!RunTick, Batches!RunDone
<1>. QED
  BY <1>0, <1>1, <1>3, <1>4 DEF Batches!Next, Batches!TickerFires, Batches!Cancel, Batches!Run,
     Batches!FlushFn, Batches!vars

(* Every notification added is in exactly one batch or in the buffer, in   *)
(* its order, for any batch size and however flushes interleave.           *)
THEOREM BatchedOnce == Batches!Spec => []Batches!EachInOneBatch
<1>1. BatcherInv => Batches!EachInOneBatch
  BY DEF BatcherInv
<1>. QED
  BY <1>1, BatcherInit, BatcherStep, PTL DEF Batches!Spec

-----------------------------------------------------------------------------
(* 2. The digest.                                                          *)

(* What a flush has in hand is finite, and nothing outside a flush; a      *)
(* timer that has fired waits for the lock.                                *)
DigestInv ==
  /\ Digests!TypeOK
  /\ Digests!EventsAccounted
  /\ \A k \in Keys : IsFiniteSet(Digests!Taken(k))
  /\ \A f \in Flushers : flushing[f] # "sending" => entries[f] = Digests!NoEntries
  /\ flushTimer = "fired" => \E f \in Flushers : flushing[f] = "started"

(* The pairs of one flusher.                                               *)
LEMMA PairsFacts ==
  ASSUME NEW f, NEW n \in Nat
  PROVE  IsFiniteSet({f} \X (1 .. n)) /\ Cardinality({f} \X (1 .. n)) = n
<1>1. IsFiniteSet({f}) /\ Cardinality({f}) = 1
  BY FS_Singleton
<1>2. IsFiniteSet(1 .. n) /\ Cardinality(1 .. n) = n
  <2>1. IsFiniteSet(1 .. n) /\ Cardinality(1 .. n) = IF 1 > n THEN 0 ELSE n - 1 + 1
    BY FS_Interval
  <2>. QED
    BY <2>1
<1>. DEFINE S == {f}
            T == 1 .. n
<1>. HIDE DEF S, T
<1>3. IsFiniteSet(S \X T) /\ Cardinality(S \X T) = Cardinality(S) * Cardinality(T)
  <2>1. IsFiniteSet(S) /\ IsFiniteSet(T)
    BY <1>1, <1>2 DEF S, T
  <2>. QED
    BY <2>1, FS_Product
<1>4. Cardinality(S) = 1 /\ Cardinality(T) = n
  BY <1>1, <1>2 DEF S, T
<1>5. Cardinality(S) * Cardinality(T) = n
  BY <1>4
<1>. QED
  BY <1>3, <1>5 DEF S, T

(* The elements of two sets with none in common.                           *)
LEMMA DisjointUnion ==
  ASSUME NEW S, NEW T, IsFiniteSet(S), IsFiniteSet(T), S \cap T = {}
  PROVE  IsFiniteSet(S \cup T) /\ Cardinality(S \cup T) = Cardinality(S) + Cardinality(T)
<1>1. /\ IsFiniteSet(S \cup T)
      /\ Cardinality(S \cup T) = Cardinality(S) + Cardinality(T) - Cardinality(S \cap T)
  BY FS_Union
<1>2. Cardinality(S \cap T) = 0
  BY FS_EmptySet
<1>3. Cardinality(S) \in Nat /\ Cardinality(T) \in Nat
  BY FS_CardinalityType
<1>. QED
  BY <1>1, <1>2, <1>3

(* What is held of a key when one flusher takes or sends.                  *)
LEMMA HeldMoves ==
  ASSUME NEW k \in Keys, NEW f \in Flushers, NEW m \in Nat,
         entries \in [Flushers -> [Keys -> Nat]], IsFiniteSet(Digests!Taken(k)),
         entries'[f][k] = m,
         \A g \in Flushers \ {f} : entries'[g][k] = entries[g][k]
  PROVE  /\ IsFiniteSet(Digests!Taken(k)') /\ Digests!Held(k) \in Nat
         /\ Digests!Held(k)' = Digests!Held(k) - entries[f][k] + m
         /\ entries[f][k] <= Digests!Held(k)
<1>. DEFINE n == entries[f][k]
            mine == {f} \X (1 .. n)
            next1 == {f} \X (1 .. m)
            others == UNION {{g} \X (1 .. entries[g][k]) : g \in Flushers \ {f}}
<1>1. n \in Nat
  OBVIOUS
<1>2. Digests!Taken(k) = others \cup mine
  BY DEF Digests!Taken
<1>3. Digests!Taken(k)' = others \cup next1
  BY DEF Digests!Taken
<1>4. others \cap mine = {} /\ others \cap next1 = {}
  OBVIOUS
<1>5. IsFiniteSet(others) /\ Cardinality(others) \in Nat
  <2>1. others \subseteq Digests!Taken(k)
    BY <1>2
  <2>. QED
    BY <2>1, FS_Subset, FS_CardinalityType
<1>6. /\ IsFiniteSet(mine) /\ Cardinality(mine) = n
      /\ IsFiniteSet(next1) /\ Cardinality(next1) = m
  BY <1>1, PairsFacts
<1>. HIDE DEF n, mine, next1, others
<1>7. Cardinality(others \cup mine) = Cardinality(others) + n
  BY <1>1, <1>4, <1>5, <1>6, DisjointUnion
<1>8. IsFiniteSet(others \cup next1) /\ Cardinality(others \cup next1) = Cardinality(others) + m
  BY <1>4, <1>5, <1>6, DisjointUnion
<1>9. \A S : Digests!Cardinality(S) = Cardinality(S)
  BY DEF Digests!Cardinality, Cardinality
<1>10. Digests!Held(k) = Cardinality(others) + n /\ Digests!Held(k)' = Cardinality(others) + m
  BY <1>2, <1>3, <1>7, <1>8, <1>9 DEF Digests!Held
<1>. QED
  BY <1>1, <1>3, <1>5, <1>8, <1>10 DEF n

(* What is held stays while entries do.                                    *)
LEMMA HeldStays ==
  ASSUME entries' = entries, NEW k
  PROVE  Digests!Taken(k)' = Digests!Taken(k) /\ Digests!Held(k)' = Digests!Held(k)
BY DEF Digests!Taken, Digests!Held

(* Nothing was added at first.                                             *)
LEMMA DigestInit == Digests!Init => DigestInv
<1>. SUFFICES ASSUME Digests!Init PROVE DigestInv
  OBVIOUS
<1>1. /\ bucket = Digests!NoEntries /\ events = Digests!NoEntries /\ sent = Digests!NoEntries
      /\ flushTimer = "nil"
      /\ flushing = [f \in Flushers |-> "idle"]
      /\ entries = [f \in Flushers |-> Digests!NoEntries]
  BY DEF Digests!Init
<1>2. Digests!NoEntries \in [Keys -> Nat] /\ \A k \in Keys : Digests!NoEntries[k] = 0
      /\ Digests!NoEntries \in [Keys -> 0 .. MaxEvents]
  BY BoundsAssumption DEF Digests!NoEntries
<1>3. Digests!TypeOK
  BY <1>1, <1>2 DEF Digests!TypeOK
<1>4. ASSUME NEW k \in Keys
      PROVE  IsFiniteSet(Digests!Taken(k)) /\ Digests!Held(k) = 0
  <2>1. \A f \in Flushers : entries[f][k] = 0
    BY <1>1, <1>2
  <2>2. 1 .. 0 = {}
    OBVIOUS
  <2>3. Digests!Taken(k) = {}
    BY <2>1, <2>2 DEF Digests!Taken
  <2>4. \A S : Digests!Cardinality(S) = Cardinality(S)
    BY DEF Digests!Cardinality, Cardinality
  <2>. QED
    BY <2>3, <2>4, FS_EmptySet DEF Digests!Held
<1>5. Digests!EventsAccounted
  BY <1>1, <1>2, <1>4 DEF Digests!EventsAccounted
<1>. QED
  BY <1>1, <1>3, <1>4, <1>5 DEF DigestInv

(* Adding, and whatever does not touch entries.                            *)
LEMMA DigestAdd ==
  ASSUME DigestInv, NEW k \in Keys, Digests!Add(k)
  PROVE  DigestInv'
<1>1. /\ bucket \in [Keys -> Nat] /\ events \in [Keys -> 0 .. MaxEvents] /\ sent \in [Keys -> Nat]
      /\ flushTimer \in {"nil", "set", "fired"}
      /\ MaxEvents \in Nat
  BY BoundsAssumption DEF DigestInv, Digests!TypeOK
<1>2. /\ events[k] < MaxEvents
      /\ bucket' = [bucket EXCEPT ![k] = bucket[k] + 1]
      /\ events' = [events EXCEPT ![k] = events[k] + 1]
      /\ flushTimer' = IF flushTimer = "nil" THEN "set" ELSE flushTimer
      /\ UNCHANGED <<flushing, entries, sent>>
  BY DEF Digests!Add
<1>3. Digests!TypeOK'
  BY <1>1, <1>2 DEF DigestInv, Digests!TypeOK
<1>4. \A j \in Keys : Digests!Held(j)' = Digests!Held(j) /\ Digests!Taken(j)' = Digests!Taken(j)
  BY <1>2, HeldStays
<1>5. \A j \in Keys : Digests!Held(j) \in Nat
  <2>1. \A S : Digests!Cardinality(S) = Cardinality(S)
    BY DEF Digests!Cardinality, Cardinality
  <2>. QED
    BY <2>1, FS_CardinalityType DEF DigestInv, Digests!Held
<1>6. \A j \in Keys : events'[j] = bucket'[j] + Digests!Held(j)' + sent'[j]
  BY <1>1, <1>2, <1>4, <1>5 DEF DigestInv, Digests!EventsAccounted
<1>7. Digests!EventsAccounted'
  BY <1>1, <1>2, <1>6 DEF DigestInv, Digests!EventsAccounted
<1>8. Digests!NoEntries' = Digests!NoEntries
  BY DEF Digests!NoEntries
<1>. QED
  BY <1>1, <1>2, <1>3, <1>4, <1>7, <1>8 DEF DigestInv

(* The locked part of a flush.                                             *)
LEMMA DigestTake ==
  ASSUME DigestInv, NEW f \in Flushers, Digests!TakeBucket(f)
  PROVE  DigestInv'
<1>1. /\ bucket \in [Keys -> Nat] /\ entries \in [Flushers -> [Keys -> Nat]]
      /\ events \in [Keys -> 0 .. MaxEvents] /\ sent \in [Keys -> Nat]
      /\ flushing \in [Flushers -> {"idle", "started", "sending"}]
  BY DEF DigestInv, Digests!TypeOK
<1>2. /\ flushing[f] = "started"
      /\ entries' = [entries EXCEPT ![f] = bucket]
      /\ bucket' = Digests!NoEntries
      /\ flushTimer' = "nil"
      /\ flushing' = [flushing EXCEPT ![f] = "sending"]
      /\ UNCHANGED <<events, sent>>
  BY DEF Digests!TakeBucket, Digests!TimerStopped
<1>3. /\ Digests!NoEntries \in [Keys -> Nat] /\ Digests!NoEntries' = Digests!NoEntries
      /\ \A k \in Keys : Digests!NoEntries[k] = 0
  BY DEF Digests!NoEntries
<1>4. Digests!TypeOK'
  BY <1>1, <1>2, <1>3 DEF Digests!TypeOK
<1>5. ASSUME NEW k \in Keys
      PROVE  IsFiniteSet(Digests!Taken(k)') /\ events'[k] = bucket'[k] + Digests!Held(k)' + sent'[k]
  <2>1. entries[f][k] = 0
    BY <1>2, <1>3 DEF DigestInv
  <2>2. entries'[f][k] = bucket[k] /\ \A g \in Flushers \ {f} : entries'[g][k] = entries[g][k]
    BY <1>1, <1>2
  <2>3. bucket[k] \in Nat /\ IsFiniteSet(Digests!Taken(k))
    BY <1>1 DEF DigestInv
  <2>4. /\ IsFiniteSet(Digests!Taken(k)') /\ Digests!Held(k) \in Nat
        /\ Digests!Held(k)' = Digests!Held(k) - entries[f][k] + bucket[k]
    BY <1>1, <2>2, <2>3, HeldMoves
  <2>5. events[k] = bucket[k] + Digests!Held(k) + sent[k] /\ sent[k] \in Nat
    BY <1>1 DEF DigestInv, Digests!EventsAccounted
  <2>. QED
    BY <1>2, <1>3, <2>1, <2>3, <2>4, <2>5
<1>6. Digests!EventsAccounted'
  BY <1>2, <1>3, <1>5 DEF Digests!EventsAccounted
<1>7. \A g \in Flushers : flushing'[g] # "sending" => entries'[g] = Digests!NoEntries'
  BY <1>1, <1>2, <1>3 DEF DigestInv
<1>. QED
  BY <1>2, <1>4, <1>5, <1>6, <1>7 DEF DigestInv

(* One entry sent.                                                         *)
LEMMA DigestSend ==
  ASSUME DigestInv, NEW f \in Flushers, Digests!SendEntry(f)
  PROVE  DigestInv'
<1>1. /\ bucket \in [Keys -> Nat] /\ entries \in [Flushers -> [Keys -> Nat]]
      /\ events \in [Keys -> 0 .. MaxEvents] /\ sent \in [Keys -> Nat]
  BY DEF DigestInv, Digests!TypeOK
<1>2. PICK k \in Keys :
        /\ sent' = [sent EXCEPT ![k] = sent[k] + entries[f][k]]
        /\ entries' = [entries EXCEPT ![f][k] = 0]
  BY DEF Digests!SendEntry
<1>3. flushing[f] = "sending" /\ UNCHANGED <<bucket, flushTimer, flushing, events>>
  BY DEF Digests!SendEntry
<1>4. entries[f][k] \in Nat
  BY <1>1
<1>5. entries' \in [Flushers -> [Keys -> Nat]] /\ sent' \in [Keys -> Nat]
  BY <1>1, <1>2, <1>4
<1>6. Digests!TypeOK'
  BY <1>3, <1>5 DEF DigestInv, Digests!TypeOK
<1>7. /\ entries'[f][k] = 0
      /\ \A g \in Flushers \ {f} : entries'[g] = entries[g]
      /\ \A j \in Keys \ {k} : entries'[f][j] = entries[f][j]
  BY <1>1, <1>2
<1>8. ASSUME NEW j \in Keys
      PROVE  IsFiniteSet(Digests!Taken(j)') /\ events'[j] = bucket'[j] + Digests!Held(j)' + sent'[j]
  <2>1. /\ entries'[f][j] \in Nat /\ IsFiniteSet(Digests!Taken(j)) /\ entries[f][j] \in Nat
        /\ \A g \in Flushers \ {f} : entries'[g][j] = entries[g][j]
    BY <1>1, <1>5, <1>7 DEF DigestInv
  <2>2. /\ IsFiniteSet(Digests!Taken(j)') /\ Digests!Held(j) \in Nat
        /\ Digests!Held(j)' = Digests!Held(j) - entries[f][j] + entries'[f][j]
    BY <1>1, <2>1, HeldMoves
  <2>3. /\ events[j] = bucket[j] + Digests!Held(j) + sent[j]
        /\ sent[j] \in Nat /\ bucket[j] \in Nat
    BY <1>1 DEF DigestInv, Digests!EventsAccounted
  <2>4. CASE j = k
    <3>1. sent'[j] = sent[j] + entries[f][j] /\ entries'[f][j] = 0
      BY <1>1, <1>2, <1>7, <2>4
    <3>. QED
      BY <1>3, <2>1, <2>2, <2>3, <3>1
  <2>5. CASE j # k
    <3>1. sent'[j] = sent[j] /\ entries'[f][j] = entries[f][j]
      BY <1>1, <1>2, <1>7, <2>5
    <3>. QED
      BY <1>3, <2>1, <2>2, <2>3, <3>1
  <2>. QED
    BY <2>4, <2>5
<1>9. Digests!NoEntries' = Digests!NoEntries
  BY DEF Digests!NoEntries
<1>10. Digests!EventsAccounted'
  BY <1>3, <1>8, <1>9 DEF DigestInv, Digests!EventsAccounted
<1>11. \A g \in Flushers : flushing'[g] # "sending" => entries'[g] = Digests!NoEntries'
  BY <1>3, <1>7, <1>9 DEF DigestInv
<1>. QED
  BY <1>3, <1>6, <1>8, <1>10, <1>11 DEF DigestInv

(* Steps that move a timer or a flusher only.                              *)
LEMMA DigestMoves ==
  ASSUME DigestInv, UNCHANGED <<bucket, entries, events, sent>>,
         flushTimer' \in {"nil", "set", "fired"},
         flushing' \in [Flushers -> {"idle", "started", "sending"}],
         \A f \in Flushers : /\ flushing[f] = "started" => flushing'[f] = "started"
                             /\ flushing'[f] # "sending" => entries[f] = Digests!NoEntries,
         \/ flushTimer' = flushTimer
         \/ flushTimer' = "fired" /\ \E f \in Flushers : flushing'[f] = "started"
  PROVE  DigestInv'
<1>1. Digests!TypeOK'
  BY DEF DigestInv, Digests!TypeOK
<1>2. \A k \in Keys : Digests!Held(k)' = Digests!Held(k) /\ Digests!Taken(k)' = Digests!Taken(k)
  BY HeldStays
<1>3. Digests!NoEntries' = Digests!NoEntries
  BY DEF Digests!NoEntries
<1>4. Digests!EventsAccounted'
  BY <1>2, <1>3 DEF DigestInv, Digests!EventsAccounted
<1>. QED
  BY <1>1, <1>2, <1>3, <1>4 DEF DigestInv

(* Every step of the digest.                                               *)
LEMMA DigestStep == DigestInv /\ [Digests!Next]_(Digests!vars) => DigestInv'
<1>. SUFFICES ASSUME DigestInv, [Digests!Next]_(Digests!vars) PROVE DigestInv'
  OBVIOUS
<1>0. /\ flushing \in [Flushers -> {"idle", "started", "sending"}]
      /\ flushTimer \in {"nil", "set", "fired"}
      /\ \A f \in Flushers : flushing[f] # "sending" => entries[f] = Digests!NoEntries
  BY DEF DigestInv, Digests!TypeOK
<1>1. CASE UNCHANGED Digests!vars
  BY <1>0, <1>1, DigestMoves DEF Digests!vars
<1>2. ASSUME NEW f \in Flushers, Digests!TimerFires(f) PROVE DigestInv'
  <2>1. /\ flushTimer' = "fired" /\ flushing[f] = "idle"
        /\ flushing' = [flushing EXCEPT ![f] = "started"]
        /\ UNCHANGED <<bucket, entries, events, sent>>
    BY <1>2 DEF Digests!TimerFires, Digests!Start
  <2>. QED
    BY <1>0, <2>1, DigestMoves
<1>3. ASSUME NEW f \in Flushers, Digests!Flush(f) PROVE DigestInv'
  <2>1. /\ flushTimer' = flushTimer /\ flushing[f] = "idle"
        /\ flushing' = [flushing EXCEPT ![f] = "started"]
        /\ UNCHANGED <<bucket, entries, events, sent>>
    BY <1>3 DEF Digests!Flush, Digests!Start
  <2>. QED
    BY <1>0, <2>1, DigestMoves
<1>4. ASSUME NEW f \in Flushers, Digests!FlushReturns(f) PROVE DigestInv'
  <2>1. /\ flushing[f] = "sending" /\ entries[f] = Digests!NoEntries
        /\ flushing' = [flushing EXCEPT ![f] = "idle"]
        /\ UNCHANGED <<bucket, flushTimer, entries, events, sent>>
    BY <1>4 DEF Digests!FlushReturns
  <2>. QED
    BY <1>0, <2>1, DigestMoves
<1>. QED
  BY <1>1, <1>2, <1>3, <1>4, DigestAdd, DigestTake, DigestSend DEF Digests!Next, Digests!FlushGoesOn

(* However flushes, timers and additions interleave, every notification is *)
(* counted once and a flush is due while there is something in the bucket: *)
(* for any keys and any number of flushing goroutines.                     *)
THEOREM DigestedOnce == Digests!Spec => []Digests!EventsAccounted
<1>1. DigestInv => Digests!EventsAccounted
  BY DEF DigestInv
<1>. QED
  BY <1>1, DigestInit, DigestStep, PTL DEF Digests!Spec

-----------------------------------------------------------------------------
(* 3. The shadow dispatcher.                                               *)

(* What has been compared has been answered by both targets.               *)
ShadowInv ==
  /\ Shadows!TypeOK
  /\ DivergencesAreReal
  /\ \A n \in compared : shadow[n] # "running"

(* The operators that Shadow takes from the libraries.                     *)
LEMMA ShadowOperators ==
  /\ \A s : Shadows!ToSet(s) = {s[m] : m \in DOMAIN s}
  /\ \A s : Shadows!IsInjective(s) <=> \A m, n \in DOMAIN s : s[m] = s[n] => m = n
BY DEF Shadows!ToSet, Shadows!IsInjective

(* Nothing was sent at first.                                              *)
LEMMA ShadowInit == Shadows!Init => ShadowInv
<1>. SUFFICES ASSUME Shadows!Init PROVE ShadowInv
  OBVIOUS
<1>1. /\ primary = <<>> /\ shadow = <<>> /\ compared = {} /\ divergences = <<>> /\ cleared = {}
      /\ DOMAIN <<>> = {} /\ \A S : <<>> \in Seq(S)
  BY DEF Shadows!Init
<1>2. Shadows!TypeOK
  BY <1>1 DEF Shadows!TypeOK
<1>3. DivergencesAreReal
  BY <1>1, ShadowOperators DEF DivergencesAreReal, Shadows!DivergencesAreReal
<1>. QED
  BY <1>1, <1>2, <1>3 DEF ShadowInv

(* Every step of the senders, the shadows and a Reset.                     *)
LEMMA ShadowStep == ShadowInv /\ [Shadows!Next]_(Shadows!vars) => ShadowInv'
<1>. SUFFICES ASSUME ShadowInv, [Shadows!Next]_(Shadows!vars) PROVE ShadowInv'
  OBVIOUS
<1>0. /\ primary \in Seq({"nil", "fail"}) /\ Len(primary) \in Nat
      /\ shadow \in Seq({"running", "nil", "fail"}) /\ Len(shadow) = Len(primary)
      /\ DOMAIN primary = 1 .. Len(primary) /\ DOMAIN shadow = 1 .. Len(primary)
      /\ divergences \in Seq(DOMAIN primary)
      /\ compared \subseteq DOMAIN primary /\ cleared \subseteq compared
      /\ \A n \in compared : shadow[n] # "running"
  BY DEF ShadowInv, Shadows!TypeOK
<1>r. /\ {divergences[m] : m \in DOMAIN divergences} =
            {n \in compared \ cleared : LogDivergence /\ primary[n] # shadow[n]}
      /\ \A m, n \in DOMAIN divergences : divergences[m] = divergences[n] => m = n
  BY ShadowOperators DEF ShadowInv, DivergencesAreReal, Shadows!DivergencesAreReal
<1>t. (/\ {divergences[m] : m \in DOMAIN divergences} =
             {n \in compared \ cleared : LogDivergence /\ primary[n] # shadow[n]}
       /\ \A m, n \in DOMAIN divergences : divergences[m] = divergences[n] => m = n)'
      => DivergencesAreReal'
  <2>1. /\ Shadows!ToSet(divergences') = {divergences'[m] : m \in DOMAIN divergences'}
        /\ Shadows!IsInjective(divergences') <=>
              \A m, n \in DOMAIN divergences' : divergences'[m] = divergences'[n] => m = n
    BY ShadowOperators
  <2>. QED
    BY <2>1 DEF DivergencesAreReal, Shadows!DivergencesAreReal
<1>1. CASE UNCHANGED Shadows!vars
  <2>1. UNCHANGED <<primary, shadow, compared, divergences, cleared>>
    BY <1>1 DEF Shadows!vars
  <2>2. Shadows!TypeOK'
    BY <1>0, <2>1 DEF Shadows!TypeOK
  <2>3. DivergencesAreReal'
    BY <1>r, <1>t, <2>1
  <2>. QED
    BY <1>0, <2>1, <2>2, <2>3 DEF ShadowInv
<1>2. ASSUME NEW e \in {"nil", "fail"}, Shadows!Send(e) PROVE ShadowInv'
  <2>1. /\ primary' = Append(primary, e) /\ shadow' = Append(shadow, "running")
        /\ UNCHANGED <<compared, divergences, cleared>>
    BY <1>2 DEF Shadows!Send
  <2>2. /\ primary' \in Seq({"nil", "fail"}) /\ Len(primary') = Len(primary) + 1
        /\ shadow' \in Seq({"running", "nil", "fail"}) /\ Len(shadow') = Len(primary) + 1
        /\ \A n \in DOMAIN primary : primary'[n] = primary[n] /\ shadow'[n] = shadow[n]
        /\ DOMAIN primary \subseteq DOMAIN primary'
    BY <1>0, <2>1
  <2>3. divergences' \in Seq(DOMAIN primary')
    <3>1. \A n \in 1 .. Len(divergences) : divergences[n] \in DOMAIN primary'
      BY <1>0, <2>2
    <3>. QED
      BY <1>0, <2>1, <3>1
  <2>4. Shadows!TypeOK'
    BY <1>0, <2>1, <2>2, <2>3 DEF Shadows!TypeOK
  <2>5. DivergencesAreReal'
    BY <1>0, <1>r, <1>t, <2>1, <2>2
  <2>. QED
    BY <1>0, <2>1, <2>2, <2>4, <2>5 DEF ShadowInv
<1>3. ASSUME NEW e \in {"nil", "fail"}, NEW n \in DOMAIN shadow, Shadows!ShadowReturns(n, e)
      PROVE  ShadowInv'
  <2>1. /\ shadow[n] = "running" /\ shadow' = [shadow EXCEPT ![n] = e]
        /\ UNCHANGED <<primary, compared, divergences, cleared>>
    BY <1>3 DEF Shadows!ShadowReturns
  <2>2. /\ shadow' \in Seq({"running", "nil", "fail"}) /\ Len(shadow') = Len(primary)
        /\ \A m \in compared : shadow'[m] = shadow[m]
    BY <1>0, <2>1
  <2>3. Shadows!TypeOK'
    BY <1>0, <2>1, <2>2 DEF Shadows!TypeOK
  <2>4. DivergencesAreReal'
    <3>1. {m \in compared' \ cleared' : LogDivergence /\ primary'[m] # shadow'[m]}
            = {m \in compared \ cleared : LogDivergence /\ primary[m] # shadow[m]}
      BY <2>1, <2>2
    <3>. QED
      BY <1>r, <1>t, <2>1, <3>1
  <2>. QED
    BY <1>0, <2>1, <2>2, <2>3, <2>4 DEF ShadowInv
<1>4. ASSUME NEW n \in DOMAIN shadow, Shadows!Compare(n) PROVE ShadowInv'
  <2>1. /\ shadow[n] # "running" /\ n \notin compared
        /\ divergences' = IF LogDivergence /\ Shadows!Differs(n) THEN Append(divergences, n)
                          ELSE divergences
        /\ compared' = compared \cup {n} /\ UNCHANGED <<primary, shadow, cleared>>
    BY <1>4 DEF Shadows!Compare
  <2>2. primary[n] \in {"nil", "fail"} /\ shadow[n] \in {"nil", "fail"} /\ n \in DOMAIN primary
    BY <1>0, <2>1
  <2>3. Shadows!Differs(n) <=> primary[n] # shadow[n]
    BY <2>2 DEF Shadows!Differs
  <2>4. CASE LogDivergence /\ primary[n] # shadow[n]
    <3>1. divergences' = Append(divergences, n)
      BY <2>1, <2>3, <2>4
    <3>2. /\ divergences' \in Seq(DOMAIN primary) /\ Len(divergences) \in Nat
          /\ DOMAIN divergences' = 1 .. Len(divergences) + 1
          /\ DOMAIN divergences = 1 .. Len(divergences)
          /\ divergences'[Len(divergences) + 1] = n
          /\ \A m \in 1 .. Len(divergences) : divergences'[m] = divergences[m]
      BY <1>0, <2>2, <3>1
    <3>3. \A m \in 1 .. Len(divergences) : divergences[m] # n
      BY <1>r, <2>1, <3>2
    <3>4. {divergences'[m] : m \in DOMAIN divergences'} =
            {divergences[m] : m \in DOMAIN divergences} \cup {n}
      BY <3>2
    <3>5. {m \in compared' \ cleared' : LogDivergence /\ primary'[m] # shadow'[m]} =
            {m \in compared \ cleared : LogDivergence /\ primary[m] # shadow[m]} \cup {n}
      BY <1>0, <2>1, <2>4
    <3>6. \A l, m \in DOMAIN divergences' : divergences'[l] = divergences'[m] => l = m
      <4>. SUFFICES ASSUME NEW l \in DOMAIN divergences', NEW m \in DOMAIN divergences',
                           divergences'[l] = divergences'[m]
                    PROVE  l = m
        OBVIOUS
      <4>1. CASE l \in 1 .. Len(divergences) /\ m \in 1 .. Len(divergences)
        BY <1>r, <3>2, <4>1
      <4>2. CASE ~(l \in 1 .. Len(divergences) /\ m \in 1 .. Len(divergences))
        BY <3>2, <3>3, <4>2
      <4>. QED
        BY <4>1, <4>2
    <3>7. DivergencesAreReal'
      BY <1>r, <1>t, <3>4, <3>5, <3>6
    <3>8. Shadows!TypeOK'
      BY <1>0, <2>1, <2>2, <3>2 DEF Shadows!TypeOK
    <3>. QED
      BY <1>0, <2>1, <3>7, <3>8 DEF ShadowInv
  <2>5. CASE ~(LogDivergence /\ primary[n] # shadow[n])
    <3>1. divergences' = divergences
      BY <2>1, <2>3, <2>5
    <3>2. {m \in compared' \ cleared' : LogDivergence /\ primary'[m] # shadow'[m]} =
            {m \in compared \ cleared : LogDivergence /\ primary[m] # shadow[m]}
      BY <2>1, <2>5
    <3>3. DivergencesAreReal'
      BY <1>r, <1>t, <3>1, <3>2
    <3>4. Shadows!TypeOK'
      BY <1>0, <2>1, <2>2, <3>1 DEF Shadows!TypeOK
    <3>. QED
      BY <1>0, <2>1, <3>3, <3>4 DEF ShadowInv
  <2>. QED
    BY <2>4, <2>5
<1>5. CASE Shadows!Reset
  <2>1. /\ divergences' = <<>> /\ UNCHANGED <<primary, shadow, compared>>
        /\ cleared' = cleared \cup {divergences[m] : m \in DOMAIN divergences}
    BY <1>5, ShadowOperators DEF Shadows!Reset
  <2>2. DOMAIN divergences' = {} /\ divergences' \in Seq(DOMAIN primary)
    BY <2>1
  <2>3. {n \in compared' \ cleared' : LogDivergence /\ primary'[n] # shadow'[n]} = {}
    BY <1>r, <2>1
  <2>4. {divergences'[m] : m \in DOMAIN divergences'} = {}
    BY <2>2
  <2>5. DivergencesAreReal'
    BY <1>t, <2>2, <2>3, <2>4
  <2>6. cleared' \subseteq compared'
    BY <1>0, <1>r, <2>1
  <2>7. Shadows!TypeOK'
    BY <1>0, <2>1, <2>2, <2>6 DEF Shadows!TypeOK
  <2>. QED
    BY <1>0, <2>1, <2>5, <2>7 DEF ShadowInv
<1>. QED
  BY <1>1, <1>2, <1>3, <1>4, <1>5 DEF Shadows!Next

(* With shadows that answer in any order, and after any Reset, exactly the *)
(* Sends of whose two targets one failed are recorded, each once.          *)
THEOREM DivergencesExact == Shadows!Spec => []DivergencesAreReal
<1>1. ShadowInv => DivergencesAreReal
  BY DEF ShadowInv
<1>. QED
  BY <1>1, ShadowInit, ShadowStep, PTL DEF Shadows!Spec

-----------------------------------------------------------------------------
(* 4. A Send of a dispatcher with several targets.                         *)

(* The results in the channel.                                             *)
Waiting == {results[n] : n \in DOMAIN results}

(* An attempt that has not answered has no error yet, one that has been    *)
(* skipped counts as a success, and any other success is a delivery.       *)
AttemptOK(a) ==
  /\ attempts[a] = "none" => next[a] = "none"
  /\ err[a] = "" <=> attempts[a] \in {"none", "running"}
  /\ attempts[a] \in {"running", "blocked"} => next[a] # "none"
  /\ next[a] = "none" => err[a] \in {"", "nil"}
  /\ next[a] # "none" /\ err[a] = "nil" => next[a] = "nil"

(* Whose targets can be passed over.                                       *)
SkippedOK ==
  /\ Sends!Skipped # {} => kind \in {"fanout", "router", "mux", "filter"}
  /\ kind = "filter" => \A a \in Sends!Attempt : a = 1 \/ a \in Sends!Skipped

(* A result is in the channel or with the caller, and its attempt done.    *)
ResultsOK ==
  /\ \A a \in Waiting \cup taken : attempts[a] = "done"
  /\ Waiting \cap taken = {}

(* What a hedge has received before it returns are failures, and its drain *)
(* has received as many results as its counter says.                       *)
HedgeOK ==
  kind = "hedge" =>
    /\ pc \in {"select", "drain", "returned"}
    /\ pc # "returned" => taken \subseteq Sends!Failed
    /\ pc = "drain" => i <= Cardinality(taken)

CollectOK == kind \in {"quorum", "fanout"} => pc \in {"collect", "returned"}

(* What the answer of a target must be for the next one to be called.      *)
Settled(a) ==
  \/ kind \in {"fallback", "retry"} /\ a \in Sends!Failed
  \/ kind = "pipeline" /\ err[a] = "nil"
  \/ kind = "router" /\ err[a] # ""

(* Targets in a sequence are called in their order, and only the last one  *)
(* called may be on its way.                                               *)
SequenceOK ==
  kind \in Sends!SequentialKinds =>
    /\ pc \in {"ready", "calling", "waiting", "returned"}
    /\ taken = {a \in Sends!Called : attempts[a] = "done"}
    /\ \A a \in Sends!Called, b \in Sends!S!Untried : a < b
    /\ pc \in {"ready", "waiting"} =>
         /\ \A a \in Sends!Called : Settled(a) /\ attempts[a] = "done"
         /\ Sends!Called # {} => Sends!S!Untried # {}
    /\ pc = "calling" =>
         \E a \in Sends!Called :
           /\ attempts[a] \in {"running", "blocked"}
           /\ \A b \in Sends!Called \ {a} : Settled(b) /\ attempts[b] = "done" /\ b < a
    /\ pc = "returned" => \A a \in Sends!Called : attempts[a] = "done"

(* What justifies an answer, with the sets counted by Cardinality.         *)
QuorumMet == Cardinality(Sends!DeliveredTo) >= Required
QuorumLost == Sends!Total - Cardinality(Sends!Failed) < Required

NilJustified ==
  \/ kind \in Sends!AnyOf /\ Sends!DeliveredTo # {}
  \/ kind = "quorum" /\ QuorumMet
  \/ kind \in Sends!AllOf /\ Sends!DeliveredTo \cup Sends!Skipped = Sends!Attempt
  \/ kind \in Sends!OneOf /\ Sends!DeliveredTo = Sends!Called

ErrorJustified ==
  \/ kind \in Sends!AnyOf /\ Sends!Failed = Sends!Attempt
  \/ kind = "quorum" /\ QuorumLost
  \/ kind \in Sends!AllOf \cup Sends!OneOf /\ Sends!Failed # {}

Justified ==
  /\ answer = "nil" => NilJustified
  /\ answer = "error" => ErrorJustified
  /\ answer = "ctx" => cancelled

(* What the type invariant says, without the library's operators.          *)
Types ==
  /\ kind \in Kinds
  /\ pc \in {"select", "drain", "collect", "ready", "calling", "waiting", "returned"}
  /\ i \in 0 .. (IF pc = "select" THEN Sends!MaxHedges - 1 ELSE Sends!Total)
  /\ attempts \in [Sends!Attempt -> {"none", "running", "blocked", "done"}]
  /\ next \in [Sends!Attempt -> {"none", "running", "nil", "fail"}]
  /\ err \in [Sends!Attempt -> {"", "nil", "fail", "timeout"}]
  /\ results \in Seq(Sends!Attempt) /\ Len(results) <= Sends!Total
  /\ \A m, n \in DOMAIN results : results[m] = results[n] => m = n
  /\ cancelled \in BOOLEAN
  /\ answer \in {"none", "nil", "ctx", "error"}
  /\ taken \subseteq Sends!Attempt

SendInv ==
  /\ Types
  /\ \A a \in Sends!Attempt : AttemptOK(a)
  /\ SkippedOK /\ ResultsOK /\ HedgeOK /\ CollectOK /\ SequenceOK
  /\ pc # "returned" => answer = "none"
  /\ Justified /\ OneAtATime

(* The attempts that there can be, the same for every dispatcher.          *)
LEMMA TotalFacts ==
  /\ Sends!MaxHedges \in Nat \ {0} /\ Sends!Total \in Nat
  /\ Sends!Total = Sends!MaxHedges + 1
  /\ Sends!Attempt = 1 .. Sends!Total /\ 1 \in Sends!Attempt /\ 2 \in Sends!Attempt
  /\ Sends!H!Attempt = Sends!Attempt /\ Sends!Q!Attempt = Sends!Attempt
  /\ Sends!F!Attempt = Sends!Attempt /\ Sends!S!Attempt = Sends!Attempt
  /\ Required \in 1 .. Sends!Total
BY SendAssumption DEF Sends!MaxHedges, Sends!Total, Sends!Attempt, Sends!H!Attempt,
   Sends!Q!Attempt, Sends!F!Attempt, Sends!S!Attempt

(* The operators that the dispatchers take from the libraries.             *)
LEMMA SendOperators ==
  /\ \A S : Sends!Cardinality(S) = Cardinality(S)
  /\ \A S : Sends!Q!Cardinality(S) = Cardinality(S)
  /\ \A s : Sends!IsInjective(s) <=> \A m, n \in DOMAIN s : s[m] = s[n] => m = n
  /\ \A S, s : \A c \in Nat : s \in Sends!BoundedSeq(S, c) <=> s \in Seq(S) /\ Len(s) <= c
<1>1. \A S : Sends!Cardinality(S) = Cardinality(S) /\ Sends!Q!Cardinality(S) = Cardinality(S)
  BY DEF Sends!Cardinality, Sends!Q!Cardinality, Cardinality
<1>2. ASSUME NEW S, NEW s, NEW c \in Nat
      PROVE  s \in Sends!BoundedSeq(S, c) <=> s \in Seq(S) /\ Len(s) <= c
  <2>1. s \in Sends!BoundedSeq(S, c) <=> \E m \in 0 .. c : s \in [1 .. m -> S]
    BY DEF Sends!BoundedSeq, Sends!SeqOf
  <2>2. ASSUME NEW m \in 0 .. c, s \in [1 .. m -> S] PROVE s \in Seq(S) /\ Len(s) <= c
    BY <2>2
  <2>3. ASSUME s \in Seq(S), Len(s) <= c PROVE Len(s) \in 0 .. c /\ s \in [1 .. Len(s) -> S]
    BY <2>3
  <2>. QED
    BY <2>1, <2>2, <2>3
<1>. QED
  BY <1>1, <1>2 DEF Sends!IsInjective

(* That is what the type invariant says.                                   *)
LEMMA SendTypes == Sends!TypeOK <=> Types
BY SendOperators, TotalFacts DEF Sends!TypeOK, Types

(* The kinds that the code has, each of one family.                        *)
LEMMA KindFacts ==
  /\ \A k \in Kinds : k \in Sends!AtOnce \/ k \in Sends!SequentialKinds
  /\ Sends!AtOnce = {"hedge", "quorum", "fanout"}
  /\ Sends!SequentialKinds =
       {"fallback", "pipeline", "router", "mux", "jitter", "filter", "retry"}
BY SendAssumption DEF Sends!AtOnce, Sends!SequentialKinds

(* Sets of attempts can be counted.                                        *)
LEMMA AttemptSets ==
  ASSUME NEW S, S \subseteq Sends!Attempt
  PROVE  /\ IsFiniteSet(S) /\ Cardinality(S) \in 0 .. Sends!Total
         /\ \A T \in SUBSET S : Cardinality(T) <= Cardinality(S)
         /\ Cardinality(S) = Sends!Total => S = Sends!Attempt
<1>1. IsFiniteSet(Sends!Attempt) /\ Cardinality(Sends!Attempt) = Sends!Total
  <2>1. /\ IsFiniteSet(1 .. Sends!Total)
        /\ Cardinality(1 .. Sends!Total) = IF 1 > Sends!Total THEN 0 ELSE Sends!Total - 1 + 1
    BY TotalFacts, FS_Interval
  <2>2. Cardinality(1 .. Sends!Total) = Sends!Total
    BY <2>1, TotalFacts
  <2>. QED
    BY <2>1, <2>2, TotalFacts
<1>2. /\ IsFiniteSet(S) /\ Cardinality(S) <= Cardinality(Sends!Attempt)
      /\ Cardinality(S) = Cardinality(Sends!Attempt) => S = Sends!Attempt
  BY <1>1, FS_Subset
<1>3. Cardinality(S) \in Nat
  BY <1>2, FS_CardinalityType
<1>4. \A T \in SUBSET S : Cardinality(T) <= Cardinality(S)
  BY <1>2, FS_Subset
<1>. QED
  BY <1>1, <1>2, <1>3, <1>4, TotalFacts

(* The answer is justified in the sense of the property.                   *)
LEMMA JustifiedMeans == AnswerJustified <=> Justified
<1>1. /\ Sends!Cardinality(Sends!DeliveredTo) = Cardinality(Sends!DeliveredTo)
      /\ Sends!Cardinality(Sends!Failed) = Cardinality(Sends!Failed)
  BY SendOperators
<1>. QED
  BY <1>1 DEF AnswerJustified, Sends!AnswerJustified, Justified, NilJustified,
     ErrorJustified, QuorumMet, QuorumLost

(* The sets of attempts that the properties are about.                     *)
LEMMA SetFacts ==
  /\ Sends!Failed \subseteq Sends!Attempt /\ Sends!Called \subseteq Sends!Attempt
  /\ Sends!Skipped \subseteq Sends!Attempt /\ Sends!DeliveredTo \subseteq Sends!Called
BY DEF Sends!Failed, Sends!DeliveredTo, Sends!Skipped, Sends!Called

(* A justified answer stays justified while failures, deliveries and a     *)
(* cancellation can only be added, and no other target is called.          *)
LEMMA JustifiedStays ==
  ASSUME Justified, UNCHANGED <<kind, answer>>,
         Sends!Failed \subseteq Sends!Failed', Sends!DeliveredTo \subseteq Sends!DeliveredTo',
         Sends!Skipped \subseteq Sends!Skipped', Sends!Called' = Sends!Called,
         cancelled => cancelled'
  PROVE  Justified'
<1>1. /\ Sends!Failed' \subseteq Sends!Attempt /\ Sends!DeliveredTo' \subseteq Sends!Called'
      /\ Sends!Skipped' \subseteq Sends!Attempt /\ Sends!Called' \subseteq Sends!Attempt
      /\ Sends!Failed \subseteq Sends!Attempt /\ Sends!DeliveredTo \subseteq Sends!Attempt
      /\ Sends!DeliveredTo' \subseteq Sends!Attempt
  BY DEF Sends!Failed, Sends!DeliveredTo, Sends!Skipped, Sends!Called, Sends!Attempt, Sends!H!Attempt
<1>2. /\ Cardinality(Sends!DeliveredTo) <= Cardinality(Sends!DeliveredTo')
      /\ Cardinality(Sends!Failed) <= Cardinality(Sends!Failed')
      /\ Cardinality(Sends!DeliveredTo) \in Nat /\ Cardinality(Sends!DeliveredTo') \in Nat
      /\ Cardinality(Sends!Failed) \in Nat /\ Cardinality(Sends!Failed') \in Nat
  BY <1>1, AttemptSets
<1>3. (QuorumMet => QuorumMet') /\ (QuorumLost => QuorumLost')
  BY <1>2, TotalFacts DEF QuorumMet, QuorumLost
<1>4. NilJustified => NilJustified'
  <2>1. CASE kind \in Sends!AnyOf /\ Sends!DeliveredTo # {}
    BY <2>1 DEF NilJustified, Sends!AnyOf
  <2>2. CASE kind = "quorum" /\ QuorumMet
    BY <2>2, <1>3 DEF NilJustified
  <2>3. CASE kind \in Sends!AllOf /\ Sends!DeliveredTo \cup Sends!Skipped = Sends!Attempt
    <3>1. Sends!DeliveredTo' \cup Sends!Skipped' = Sends!Attempt'
      BY <2>3, <1>1 DEF Sends!Attempt, Sends!H!Attempt
    <3>. QED
      BY <2>3, <3>1 DEF NilJustified, Sends!AllOf
  <2>4. CASE kind \in Sends!OneOf /\ Sends!DeliveredTo = Sends!Called
    <3>1. Sends!DeliveredTo' = Sends!Called'
      BY <2>4, <1>1
    <3>. QED
      BY <2>4, <3>1 DEF NilJustified, Sends!OneOf
  <2>. QED
    BY <2>1, <2>2, <2>3, <2>4 DEF NilJustified
<1>5. ErrorJustified => ErrorJustified'
  <2>1. CASE kind \in Sends!AnyOf /\ Sends!Failed = Sends!Attempt
    <3>1. Sends!Failed' = Sends!Attempt'
      BY <2>1, <1>1 DEF Sends!Attempt, Sends!H!Attempt
    <3>. QED
      BY <2>1, <3>1 DEF ErrorJustified, Sends!AnyOf
  <2>2. CASE kind = "quorum" /\ QuorumLost
    BY <2>2, <1>3 DEF ErrorJustified
  <2>3. CASE kind \in Sends!AllOf \cup Sends!OneOf /\ Sends!Failed # {}
    BY <2>3 DEF ErrorJustified, Sends!AllOf, Sends!OneOf
  <2>. QED
    BY <2>1, <2>2, <2>3 DEF ErrorJustified
<1>. QED
  BY <1>4, <1>5 DEF Justified

(* That one target is called at a time stays true while no other is called *)
(* and failures and answers can only be added.                             *)
LEMMA OneAtATimeStays ==
  ASSUME OneAtATime, UNCHANGED kind, Sends!Failed \subseteq Sends!Failed',
         Sends!Called' = Sends!Called, \A a \in Sends!Attempt : err[a] # "" => err'[a] = err[a]
  PROVE  OneAtATime'
BY SetFacts DEF OneAtATime, Sends!OneAtATime, Sends!SequentialKinds

(* The results in the channel are those of attempts, and stay there.       *)
LEMMA WaitingFacts ==
  /\ Types => Waiting \subseteq Sends!Attempt
  /\ results' = results => Waiting' = Waiting
<1>1. ASSUME results' = results PROVE Waiting' = Waiting
  BY <1>1 DEF Waiting
<1>2. ASSUME Types PROVE Waiting \subseteq Sends!Attempt
  <2>1. results \in Seq(Sends!Attempt)
    BY <1>2 DEF Types
  <2>2. ASSUME NEW n \in DOMAIN results PROVE results[n] \in Sends!Attempt
    BY <2>1
  <2>. QED
    BY <2>2 DEF Waiting
<1>. QED
  BY <1>1, <1>2

(* While targets answer, attempts give up on them and the context may be   *)
(* cancelled, with nothing put on the channel or received.                 *)
LEMMA AttemptMoves ==
  ASSUME SendInv, UNCHANGED <<kind, results, taken, pc, answer, i>>,
         cancelled' \in BOOLEAN, cancelled => cancelled',
         attempts' \in [Sends!Attempt -> {"none", "running", "blocked", "done"}],
         next' \in [Sends!Attempt -> {"none", "running", "nil", "fail"}],
         err' \in [Sends!Attempt -> {"", "nil", "fail", "timeout"}],
         \A a \in Sends!Attempt :
           \/ attempts'[a] = attempts[a]
           \/ attempts[a] = "running" /\ attempts'[a] = "blocked",
         \A a \in Sends!Attempt : next'[a] = "none" <=> next[a] = "none",
         \A a \in Sends!Attempt : next[a] = "nil" => next'[a] = "nil",
         \A a \in Sends!Attempt : err[a] # "" => err'[a] = err[a],
         \A a \in Sends!Attempt : AttemptOK(a)'
  PROVE  SendInv'
<1>0. /\ Sends!Failed \subseteq Sends!Failed' /\ Sends!DeliveredTo \subseteq Sends!DeliveredTo'
      /\ Sends!Skipped' = Sends!Skipped /\ Sends!Called' = Sends!Called
      /\ Sends!S!Untried' = Sends!S!Untried /\ Sends!Attempt' = Sends!Attempt
  <2>1. Sends!Attempt' = Sends!Attempt /\ Sends!S!Attempt = Sends!Attempt /\ Sends!S!Attempt' = Sends!Attempt
    BY DEF Sends!Attempt, Sends!H!Attempt, Sends!S!Attempt
  <2>2. \A a \in Sends!Attempt : attempts'[a] = "none" <=> attempts[a] = "none"
    OBVIOUS
  <2>3. Sends!Failed \subseteq Sends!Failed' /\ Sends!DeliveredTo \subseteq Sends!DeliveredTo'
    BY <2>1 DEF Sends!Failed, Sends!DeliveredTo
  <2>4. Sends!Skipped' = Sends!Skipped
    BY <2>1, <2>2 DEF Sends!Skipped
  <2>5. Sends!Called' = Sends!Called
    BY <2>1 DEF Sends!Called
  <2>6. Sends!S!Untried' = Sends!S!Untried
    BY <2>1, <2>2 DEF Sends!S!Untried
  <2>. QED
    BY <2>1, <2>3, <2>4, <2>5, <2>6
<1>1. Types'
  BY DEF SendInv, Types
<1>2. SkippedOK'
  BY <1>0 DEF SendInv, SkippedOK
<1>3. ResultsOK'
  <2>1. Types /\ taken \subseteq Sends!Attempt
    BY DEF SendInv, Types
  <2>2. Waiting' = Waiting /\ Waiting \subseteq Sends!Attempt
    BY <2>1, WaitingFacts
  <2>. QED
    BY <2>1, <2>2 DEF SendInv, ResultsOK
<1>4. HedgeOK' /\ CollectOK'
  BY <1>0 DEF SendInv, HedgeOK, CollectOK
<1>5. \A a \in Sends!Called : (Settled(a) /\ attempts[a] = "done") => Settled(a)' /\ attempts'[a] = "done"
  BY <1>0, SetFacts DEF Settled, SendInv, AttemptOK
<1>6. SequenceOK'
  <2>. SUFFICES ASSUME kind \in Sends!SequentialKinds PROVE SequenceOK'
    BY DEF SequenceOK, Sends!SequentialKinds
  <2>1. /\ pc \in {"ready", "calling", "waiting", "returned"}
        /\ taken = {a \in Sends!Called : attempts[a] = "done"}
        /\ \A a \in Sends!Called, b \in Sends!S!Untried : a < b
    BY DEF SendInv, SequenceOK
  <2>2. taken' = {a \in Sends!Called' : attempts'[a] = "done"}
    <3>1. \A a \in Sends!Called : attempts'[a] = "done" <=> attempts[a] = "done"
      BY SetFacts
    <3>2. {a \in Sends!Called : attempts'[a] = "done"} = {a \in Sends!Called : attempts[a] = "done"}
      BY <3>1
    <3>. QED
      BY <1>0, <2>1, <3>2
  <2>3. pc' \in {"ready", "waiting"} =>
         /\ \A a \in Sends!Called' : Settled(a)' /\ attempts'[a] = "done"
         /\ Sends!Called' # {} => Sends!S!Untried' # {}
    BY <1>0, <1>5 DEF SendInv, SequenceOK
  <2>4. pc' = "calling" =>
         \E a \in Sends!Called' :
           /\ attempts'[a] \in {"running", "blocked"}
           /\ \A b \in Sends!Called' \ {a} : Settled(b)' /\ attempts'[b] = "done" /\ b < a
    <3>. SUFFICES ASSUME pc = "calling" PROVE 
         \E a \in Sends!Called' :
           /\ attempts'[a] \in {"running", "blocked"}
           /\ \A b \in Sends!Called' \ {a} : Settled(b)' /\ attempts'[b] = "done" /\ b < a
      OBVIOUS
    <3>1. PICK a \in Sends!Called :
           /\ attempts[a] \in {"running", "blocked"}
           /\ \A b \in Sends!Called \ {a} : Settled(b) /\ attempts[b] = "done" /\ b < a
      BY DEF SendInv, SequenceOK
    <3>2. attempts'[a] \in {"running", "blocked"}
      BY <3>1, SetFacts
    <3>. QED
      BY <1>0, <1>5, <3>1, <3>2
  <2>5. pc' = "returned" => \A a \in Sends!Called' : attempts'[a] = "done"
    BY <1>0, SetFacts DEF SendInv, SequenceOK
  <2>. QED
    BY <1>0, <2>1, <2>2, <2>3, <2>4, <2>5 DEF SequenceOK, Sends!SequentialKinds
<1>7. Justified' /\ OneAtATime'
  BY <1>0, JustifiedStays, OneAtATimeStays DEF SendInv
<1>. QED
  BY <1>0, <1>1, <1>2, <1>3, <1>4, <1>6, <1>7 DEF SendInv

(* A target answers, an attempt passes it on or gives up, the context is   *)
(* cancelled, or nothing happens.                                          *)
LEMMA AttemptsStep ==
  ASSUME SendInv, Sends!Attempts \/ Sends!Cancel \/ UNCHANGED Sends!vars
  PROVE  SendInv'
<1>0. /\ Types /\ \A a \in Sends!Attempt : AttemptOK(a)
      /\ Sends!Attempt = 1 .. Sends!Total
  BY TotalFacts DEF SendInv
<1>1. ASSUME NEW a \in Sends!Attempt, Sends!H!NextReturns(a), UNCHANGED <<kind, i, cancelled>>
      PROVE  SendInv'
  <2>1. PICK e \in {"nil", "fail"} : next' = [next EXCEPT ![a] = e]
    BY <1>1 DEF Sends!H!NextReturns
  <2>2. /\ next[a] = "running"
        /\ UNCHANGED <<attempts, err, results, taken, pc, answer, kind, i, cancelled>>
    BY <1>1 DEF Sends!H!NextReturns, Sends!H!caller
  <2>3. /\ next' \in [Sends!Attempt -> {"none", "running", "nil", "fail"}]
        /\ next'[a] = e /\ \A b \in Sends!Attempt : b # a => next'[b] = next[b]
    BY <1>0, <2>1 DEF Types
  <2>4. err[a] # "nil"
    BY <1>0, <2>2 DEF AttemptOK
  <2>5. \A b \in Sends!Attempt : AttemptOK(b)'
    <3>. TAKE b \in Sends!Attempt
    <3>1. AttemptOK(b)
      BY <1>0
    <3>2. CASE b = a
      BY <2>2, <2>3, <2>4, <3>1, <3>2 DEF AttemptOK
    <3>3. CASE b # a
      BY <2>2, <2>3, <3>1, <3>3 DEF AttemptOK
    <3>. QED
      BY <3>2, <3>3
  <2>. QED
    BY <1>0, <2>2, <2>3, <2>5, AttemptMoves DEF Types
<1>2. ASSUME NEW a \in Sends!Attempt, NEW e \in {"nil", "fail", "timeout"},
             e = "timeout" \/ next[a] = e,
             Sends!H!Answer(a, e), UNCHANGED <<kind, i, cancelled>>
      PROVE  SendInv'
  <2>1. /\ attempts[a] = "running" /\ attempts' = [attempts EXCEPT ![a] = "blocked"]
        /\ err' = [err EXCEPT ![a] = e]
        /\ UNCHANGED <<next, results, taken, pc, answer, kind, i, cancelled>>
    BY <1>2 DEF Sends!H!Answer, Sends!H!caller
  <2>2. /\ attempts' \in [Sends!Attempt -> {"none", "running", "blocked", "done"}]
        /\ err' \in [Sends!Attempt -> {"", "nil", "fail", "timeout"}]
        /\ attempts'[a] = "blocked" /\ err'[a] = e
        /\ \A b \in Sends!Attempt : b # a => attempts'[b] = attempts[b] /\ err'[b] = err[b]
    BY <1>0, <2>1 DEF Types
  <2>3. \A b \in Sends!Attempt : AttemptOK(b)'
    <3>. TAKE b \in Sends!Attempt
    <3>1. AttemptOK(b)
      BY <1>0
    <3>2. CASE b = a
      BY <1>2, <2>1, <2>2, <3>1, <3>2 DEF AttemptOK
    <3>3. CASE b # a
      BY <2>1, <2>2, <3>1, <3>3 DEF AttemptOK
    <3>. QED
      BY <3>2, <3>3
  <2>4. err[a] = ""
    BY <1>0, <2>1 DEF AttemptOK
  <2>. QED
    BY <1>0, <2>1, <2>2, <2>3, <2>4, AttemptMoves DEF Types
<1>3. CASE Sends!Attempts
  <2>1. PICK a \in Sends!Attempt :
          Sends!H!NextReturns(a) \/ Sends!H!PassOn(a) \/ Sends!H!TimeOut(a)
    BY <1>3, TotalFacts DEF Sends!Attempts, Sends!H!Attempts
  <2>2. UNCHANGED <<kind, i, cancelled>>
    BY <1>3 DEF Sends!Attempts, Sends!hedging
  <2>3. CASE Sends!H!PassOn(a)
    BY <1>2, <2>2, <2>3 DEF Sends!H!PassOn
  <2>4. CASE Sends!H!TimeOut(a)
    BY <1>2, <2>2, <2>4 DEF Sends!H!TimeOut
  <2>. QED
    BY <1>1, <2>1, <2>2, <2>3, <2>4
<1>4. ASSUME UNCHANGED <<kind, attempts, next, err, results, taken, pc, answer, i>>,
             cancelled' \in BOOLEAN, cancelled => cancelled'
      PROVE  SendInv'
  <2>1. \A a \in Sends!Attempt : AttemptOK(a)'
    BY <1>0, <1>4 DEF AttemptOK
  <2>. QED
    BY <1>0, <1>4, <2>1, AttemptMoves DEF Types
<1>5. CASE Sends!Cancel
  BY <1>4, <1>5 DEF Sends!Cancel, Sends!H!Cancel, Sends!H!goroutines, Sends!H!caller
<1>6. CASE UNCHANGED Sends!vars
  BY <1>0, <1>4, <1>6 DEF Sends!vars, Sends!hedging, Types
<1>. QED
  BY <1>3, <1>5, <1>6

(* Where targets are called at once, a step keeps the invariant if it      *)
(* keeps what the invariant says of those kinds.                           *)
LEMMA AtOnceMoves ==
  ASSUME SendInv, kind \in Sends!AtOnce, UNCHANGED kind, Types',
         \A a \in Sends!Attempt : AttemptOK(a)',
         Sends!Skipped' = Sends!Skipped,
         ResultsOK', HedgeOK', CollectOK', Justified',
         pc' # "returned" => answer' = "none"
  PROVE  SendInv'
<1>1. Sends!Attempt' = Sends!Attempt
  BY DEF Sends!Attempt, Sends!H!Attempt
<1>2. kind # "filter" /\ kind \notin Sends!SequentialKinds
  BY DEF Sends!AtOnce, Sends!SequentialKinds
<1>3. SkippedOK'
  BY <1>2 DEF SendInv, SkippedOK
<1>4. SequenceOK' /\ OneAtATime'
  BY <1>2 DEF SequenceOK, OneAtATime, Sends!OneAtATime, Sends!SequentialKinds
<1>. QED
  BY <1>1, <1>3, <1>4 DEF SendInv

(* An attempt that has an answer puts it on the channel.                   *)
LEMMA DeliverStep ==
  ASSUME SendInv, NEW a \in Sends!Attempt, Sends!Deliver(a)
  PROVE  SendInv'
<1>0. Types /\ AttemptOK(a) /\ ResultsOK
  BY DEF SendInv
<1>1. /\ attempts[a] = "blocked" /\ Len(results) < Sends!Total
      /\ results' = Append(results, a) /\ attempts' = [attempts EXCEPT ![a] = "done"]
      /\ UNCHANGED <<kind, next, err, taken, pc, answer, i, cancelled>>
      /\ kind \in Sends!AtOnce
  BY DEF Sends!Deliver, Sends!H!Deliver, Sends!H!ResultsCapacity, Sends!H!caller, Sends!hedging
<1>2. /\ attempts' \in [Sends!Attempt -> {"none", "running", "blocked", "done"}]
      /\ attempts'[a] = "done" /\ \A b \in Sends!Attempt : b # a => attempts'[b] = attempts[b]
  BY <1>0, <1>1 DEF Types
<1>3. a \notin Waiting /\ a \notin taken
  BY <1>0, <1>1 DEF ResultsOK
<1>4. /\ results \in Seq(Sends!Attempt) /\ results' \in Seq(Sends!Attempt)
      /\ Len(results') = Len(results) + 1 /\ Len(results) \in Nat
      /\ DOMAIN results = 1 .. Len(results) /\ DOMAIN results' = 1 .. Len(results) + 1
      /\ results'[Len(results) + 1] = a
      /\ \A n \in 1 .. Len(results) : results'[n] = results[n]
  <2>1. results \in Seq(Sends!Attempt) /\ Len(results) \in Nat /\ DOMAIN results = 1 .. Len(results)
    <3>1. results \in Seq(Sends!Attempt)
      BY <1>0 DEF Types
    <3>. QED
      BY <3>1
  <2>. QED
    BY <1>1, <2>1, AppendFacts
<1>5. Waiting' = Waiting \cup {a}
  BY <1>4 DEF Waiting
<1>6. \A m, n \in DOMAIN results' : results'[m] = results'[n] => m = n
  <2>1. \A n \in 1 .. Len(results) : results[n] # a
    BY <1>3, <1>4 DEF Waiting
  <2>2. \A m, n \in 1 .. Len(results) : results[m] = results[n] => m = n
    BY <1>0, <1>4 DEF Types
  <2>. QED
    BY <1>4, <2>1, <2>2
<1>7. Types'
  <2>1. Len(results') <= Sends!Total
    BY <1>1, <1>4, TotalFacts
  <2>. QED
    BY <1>0, <1>1, <1>2, <1>4, <1>6, <2>1 DEF Types, Sends!Attempt, Sends!H!Attempt
<1>8. \A b \in Sends!Attempt : AttemptOK(b)'
  <2>1. \A b \in Sends!Attempt : AttemptOK(b)
    BY DEF SendInv
  <2>. QED
    BY <1>1, <1>2, <2>1 DEF AttemptOK
<1>9. /\ Sends!Skipped' = Sends!Skipped /\ Sends!Failed' = Sends!Failed
      /\ Sends!DeliveredTo' = Sends!DeliveredTo /\ Sends!Called' = Sends!Called
  <2>1. Sends!Attempt' = Sends!Attempt
    BY DEF Sends!Attempt, Sends!H!Attempt
  <2>2. \A b \in Sends!Attempt : attempts'[b] = "none" <=> attempts[b] = "none"
    BY <1>1, <1>2
  <2>3. Sends!Skipped' = Sends!Skipped
    BY <1>1, <2>1, <2>2 DEF Sends!Skipped
  <2>4. Sends!Failed' = Sends!Failed
    BY <1>1, <2>1 DEF Sends!Failed
  <2>5. Sends!DeliveredTo' = Sends!DeliveredTo /\ Sends!Called' = Sends!Called
    BY <1>1, <2>1 DEF Sends!DeliveredTo, Sends!Called
  <2>. QED
    BY <2>3, <2>4, <2>5
<1>10. ResultsOK'
  <2>1. Waiting \subseteq Sends!Attempt /\ taken \subseteq Sends!Attempt
    BY <1>0, WaitingFacts DEF Types
  <2>. QED
    BY <1>0, <1>1, <1>2, <1>3, <1>5, <2>1 DEF ResultsOK
<1>11. HedgeOK' /\ CollectOK'
  BY <1>1, <1>9 DEF SendInv, HedgeOK, CollectOK
<1>12. Justified'
  BY <1>1, <1>9, JustifiedStays DEF SendInv
<1>13. pc' # "returned" => answer' = "none"
  BY <1>1 DEF SendInv
<1>. QED
  BY <1>1, <1>7, <1>8, <1>9, <1>10, <1>11, <1>12, <1>13, AtOnceMoves

(* The caller takes the first result from the channel.                     *)
LEMMA ReceiveFacts ==
  ASSUME SendInv, NEW a, a = Head(results), results # <<>>,
         results' = Tail(results), taken' = taken \cup {a},
         UNCHANGED <<kind, attempts, next, err>>
  PROVE  /\ results' \in Seq(Sends!Attempt) /\ Len(results') <= Sends!Total
         /\ \A m, n \in DOMAIN results' : results'[m] = results'[n] => m = n
         /\ a \in Sends!Attempt /\ attempts[a] = "done" /\ a \notin taken
         /\ taken' \subseteq Sends!Attempt
         /\ \A b \in taken' : attempts[b] = "done" /\ err[b] # ""
         /\ ResultsOK' /\ Cardinality(taken') = Cardinality(taken) + 1
         /\ \A b \in Sends!Attempt : AttemptOK(b)'
<1>0. /\ Types /\ ResultsOK /\ \A b \in Sends!Attempt : AttemptOK(b)
      /\ taken \subseteq Sends!Attempt /\ Waiting \subseteq Sends!Attempt
  BY WaitingFacts DEF SendInv, Types
<1>1. /\ results \in Seq(Sends!Attempt) /\ Len(results) \in Nat \ {0}
      /\ results' \in Seq(Sends!Attempt) /\ Len(results') = Len(results) - 1
      /\ DOMAIN results = 1 .. Len(results) /\ DOMAIN results' = 1 .. Len(results) - 1
      /\ \A n \in 1 .. Len(results) - 1 : results'[n] = results[n + 1]
      /\ a = results[1] /\ 1 \in DOMAIN results
  <2>1. results \in Seq(Sends!Attempt) /\ Len(results) \in Nat /\ DOMAIN results = 1 .. Len(results)
    <3>1. results \in Seq(Sends!Attempt)
      BY <1>0 DEF Types
    <3>. QED
      BY <3>1
  <2>2. /\ results' \in Seq(Sends!Attempt) /\ Len(results') = Len(results) - 1
        /\ Len(results) \in Nat \ {0} /\ 1 \in DOMAIN results /\ a = results[1]
        /\ \A n \in DOMAIN results' : results'[n] = results[n + 1]
    BY <2>1, TailFacts
  <2>3. DOMAIN results' = 1 .. Len(results) - 1
    BY <2>2
  <2>. QED
    BY <2>1, <2>2, <2>3
<1>2. a \in Waiting /\ a \in Sends!Attempt
  BY <1>1 DEF Waiting
<1>3. attempts[a] = "done" /\ a \notin taken
  BY <1>0, <1>2 DEF ResultsOK
<1>4. \A m, n \in 1 .. Len(results) : results[m] = results[n] => m = n
  BY <1>0, <1>1 DEF Types
<1>5. \A m, n \in DOMAIN results' : results'[m] = results'[n] => m = n
  BY <1>1, <1>4
<1>6. Waiting' \subseteq Waiting \ {a}
  <2>1. ASSUME NEW n \in DOMAIN results' PROVE results'[n] \in Waiting \ {a}
    <3>1. n + 1 \in 1 .. Len(results) /\ n + 1 # 1 /\ results'[n] = results[n + 1]
      BY <1>1
    <3>2. results[n + 1] # results[1]
      BY <1>1, <1>4, <3>1
    <3>. QED
      BY <1>1, <3>1, <3>2 DEF Waiting
  <2>. QED
    BY <2>1 DEF Waiting
<1>7. ResultsOK'
  BY <1>0, <1>2, <1>3, <1>6 DEF ResultsOK
<1>8. \A b \in taken' : attempts[b] = "done" /\ err[b] # ""
  BY <1>0, <1>2, <1>3 DEF ResultsOK, AttemptOK
<1>9. Cardinality(taken') = Cardinality(taken) + 1
  BY <1>0, <1>3, AttemptSets, FS_AddElement
<1>10. \A b \in Sends!Attempt : AttemptOK(b)'
  BY <1>0 DEF AttemptOK
<1>11. Len(results') <= Sends!Total
  <2>1. Len(results) <= Sends!Total
    BY <1>0 DEF Types
  <2>. QED
    BY <1>1, <2>1, TotalFacts
<1>. QED
  BY <1>0, <1>1, <1>2, <1>3, <1>5, <1>7, <1>8, <1>9, <1>10, <1>11

(* What a success received by a caller that skips nothing stands for.      *)
LEMMA ReceivedMeans ==
  ASSUME SendInv, NEW a \in Sends!Attempt, attempts[a] = "done"
  PROVE  /\ err[a] \in {"nil", "fail", "timeout"}
         /\ err[a] # "nil" => a \in Sends!Failed
         /\ err[a] = "nil" => a \in Sends!DeliveredTo \cup Sends!Skipped
         /\ kind \in {"hedge", "quorum"} => Sends!Skipped = {}
BY DEF SendInv, Types, AttemptOK, SkippedOK, Sends!Failed, Sends!DeliveredTo, Sends!Skipped

(* Its sets do not change while nothing happens in the goroutines.         *)
LEMMA SetsStay ==
  ASSUME UNCHANGED <<attempts, next, err>>
  PROVE  /\ Sends!Skipped' = Sends!Skipped /\ Sends!Failed' = Sends!Failed
         /\ Sends!DeliveredTo' = Sends!DeliveredTo /\ Sends!Called' = Sends!Called
         /\ Sends!S!Untried' = Sends!S!Untried /\ Sends!Attempt' = Sends!Attempt
BY DEF Sends!Attempt, Sends!H!Attempt, Sends!S!Attempt, Sends!Skipped, Sends!Failed,
   Sends!DeliveredTo, Sends!Called, Sends!S!Untried

(* The hedge's loops: a result in the select or in the drain.              *)
LEMMA HedgeReceives ==
  ASSUME SendInv, kind = "hedge", results # <<>>, NEW a, a = Head(results),
         results' = Tail(results), taken' = taken \cup {a},
         UNCHANGED <<kind, attempts, next, err, cancelled>>, pc \in {"select", "drain"},
         \/ err[a] = "nil" /\ pc' = "returned" /\ answer' = "nil" /\ UNCHANGED i
         \/ /\ err[a] # "nil" /\ pc' \in {"select", "drain"} /\ UNCHANGED answer
            /\ pc' = "select" => pc = "select" /\ i' \in 0 .. Sends!MaxHedges - 1
            /\ pc' = "drain" => i' = 0 \/ (pc = "drain" /\ i' = i + 1 /\ i < Sends!Total)
  PROVE  SendInv'
<1>0. Types /\ HedgeOK /\ answer = "none" /\ "hedge" \in Sends!AtOnce
  BY DEF SendInv, Sends!AtOnce
<1>1. /\ results' \in Seq(Sends!Attempt) /\ Len(results') <= Sends!Total
      /\ \A m, n \in DOMAIN results' : results'[m] = results'[n] => m = n
      /\ a \in Sends!Attempt /\ attempts[a] = "done" /\ a \notin taken
      /\ taken' \subseteq Sends!Attempt
      /\ ResultsOK' /\ Cardinality(taken') = Cardinality(taken) + 1
      /\ \A b \in Sends!Attempt : AttemptOK(b)'
  BY ReceiveFacts
<1>2. /\ Sends!Skipped' = Sends!Skipped /\ Sends!Failed' = Sends!Failed
      /\ Sends!DeliveredTo' = Sends!DeliveredTo /\ Sends!Attempt' = Sends!Attempt
  BY SetsStay
<1>3. /\ err[a] # "nil" => a \in Sends!Failed
      /\ err[a] = "nil" => a \in Sends!DeliveredTo
  BY <1>1, ReceivedMeans
<1>4. CollectOK'
  BY DEF CollectOK
<1>5. Cardinality(taken) \in 0 .. Sends!Total /\ Cardinality(taken') \in 0 .. Sends!Total
  BY <1>0, <1>1, AttemptSets DEF Types
<1>i. i \in 0 .. Sends!Total /\ Sends!MaxHedges - 1 \in 0 .. Sends!Total
  <2>1. i \in 0 .. IF pc = "select" THEN Sends!MaxHedges - 1 ELSE Sends!Total
    BY <1>0 DEF Types
  <2>2. Sends!MaxHedges \in Nat \ {0} /\ Sends!Total = Sends!MaxHedges + 1
    BY TotalFacts
  <2>. QED
    BY <2>1, <2>2
<1>6. CASE err[a] = "nil"
  <2>1. pc' = "returned" /\ answer' = "nil" /\ i' = i
    BY <1>6
  <2>2. Types'
    BY <1>0, <1>1, <1>2, <1>i, <2>1 DEF Types
  <2>3. HedgeOK'
    BY <2>1 DEF HedgeOK
  <2>4. Justified'
    BY <1>2, <1>3, <1>6, <2>1 DEF Justified, NilJustified, Sends!AnyOf
  <2>. QED
    BY <1>0, <1>1, <1>2, <1>4, <2>1, <2>2, <2>3, <2>4, AtOnceMoves
<1>7. CASE err[a] # "nil"
  <2>1. /\ pc' \in {"select", "drain"} /\ answer' = "none"
        /\ pc' = "select" => pc = "select" /\ i' \in 0 .. Sends!MaxHedges - 1
        /\ pc' = "drain" => i' = 0 \/ (pc = "drain" /\ i' = i + 1 /\ i < Sends!Total)
    BY <1>0, <1>7
  <2>2. i' \in 0 .. IF pc' = "select" THEN Sends!MaxHedges - 1 ELSE Sends!Total
    <3>1. Sends!Total \in Nat
      BY TotalFacts
    <3>. QED
      BY <1>i, <2>1, <3>1
  <2>3. Types'
    BY <1>0, <1>1, <1>2, <2>1, <2>2 DEF Types
  <2>4. taken' \subseteq Sends!Failed'
    BY <1>0, <1>2, <1>3, <1>7 DEF HedgeOK
  <2>5. pc' = "drain" => i' <= Cardinality(taken')
    <3>1. pc = "drain" => i <= Cardinality(taken)
      BY <1>0 DEF HedgeOK
    <3>. QED
      BY <1>1, <1>5, <1>i, <2>1, <3>1
  <2>6. HedgeOK'
    BY <2>1, <2>4, <2>5 DEF HedgeOK
  <2>7. Justified'
    BY <2>1 DEF Justified
  <2>. QED
    BY <1>0, <1>1, <1>2, <1>4, <2>1, <2>3, <2>6, <2>7, AtOnceMoves
<1>. QED
  BY <1>6, <1>7

(* The caller of a hedge.                                                  *)
LEMMA HedgeStep ==
  ASSUME SendInv, Sends!HedgeSelect \/ Sends!HedgeDrain \/ Sends!HedgeGivesUp
  PROVE  SendInv'
<1>0. /\ kind = "hedge" /\ kind' = kind /\ Types /\ HedgeOK /\ ResultsOK
      /\ kind \in Sends!AtOnce /\ \A a \in Sends!Attempt : AttemptOK(a)
      /\ kind \in Sends!AnyOf
  BY DEF Sends!HedgeSelect, Sends!HedgeDrain, Sends!HedgeGivesUp, SendInv, Sends!AtOnce, Sends!AnyOf
<1>i. /\ i \in Nat /\ i <= Sends!Total /\ Sends!MaxHedges \in Nat \ {0} /\ Sends!Total \in Nat
      /\ Sends!Total = Sends!MaxHedges + 1
      /\ pc = "select" => i < Sends!MaxHedges
  <2>1. i \in 0 .. IF pc = "select" THEN Sends!MaxHedges - 1 ELSE Sends!Total
    BY <1>0 DEF Types
  <2>2. Sends!MaxHedges \in Nat \ {0} /\ Sends!Total = Sends!MaxHedges + 1
    BY TotalFacts
  <2>. QED
    BY <2>1, <2>2
<1>c. CollectOK'
  BY <1>0 DEF CollectOK
<1>1. ASSUME pc' = "returned",
             (answer' = "ctx" /\ cancelled) \/ (answer' = "error" /\ Sends!Failed = Sends!Attempt),
             UNCHANGED <<attempts, next, err, results, taken, i, cancelled>>
      PROVE  SendInv'
  <2>1. /\ Sends!Skipped' = Sends!Skipped /\ Sends!Failed' = Sends!Failed
        /\ Sends!Attempt' = Sends!Attempt
    BY <1>1, SetsStay
  <2>2. Types'
    <3>1. i' \in 0 .. Sends!Total
      BY <1>1, <1>i
    <3>2. answer' \in {"none", "nil", "ctx", "error"}
      BY <1>1
    <3>. QED
      BY <1>0, <1>1, <2>1, <3>1, <3>2 DEF Types
  <2>3. \A a \in Sends!Attempt : AttemptOK(a)'
    BY <1>0, <1>1 DEF AttemptOK
  <2>4. ResultsOK'
    BY <1>0, <1>1, WaitingFacts DEF ResultsOK, Types
  <2>5. HedgeOK'
    BY <1>1 DEF HedgeOK
  <2>6. Justified'
    BY <1>0, <1>1, <2>1 DEF Justified, ErrorJustified
  <2>. QED
    BY <1>0, <1>1, <1>c, <2>1, <2>2, <2>3, <2>4, <2>5, <2>6, AtOnceMoves
<1>2. CASE Sends!H!SelectDone
  <2>1. /\ pc' = "returned" /\ answer' = "ctx" /\ cancelled
        /\ UNCHANGED <<attempts, next, err, results, taken, i, cancelled>>
    BY <1>2 DEF Sends!H!SelectDone, Sends!H!Return, Sends!H!goroutines
  <2>. QED
    BY <1>1, <2>1
<1>3. CASE Sends!H!SelectTimer
  <2>1. PICK a \in Sends!Attempt : a \notin Sends!H!Launched /\ Sends!H!Launch(a)
    BY <1>3, TotalFacts DEF Sends!H!SelectTimer
  <2>2. /\ pc = "select" /\ attempts[a] = "none"
        /\ attempts' = [attempts EXCEPT ![a] = "running"]
        /\ next' = [next EXCEPT ![a] = "running"]
        /\ UNCHANGED <<err, results, taken, answer, cancelled>>
    BY <1>3, <2>1, TotalFacts DEF Sends!H!SelectTimer, Sends!H!Launched, Sends!H!Launch
  <2>3. pc' \in {"select", "drain"} /\ i' \in 0 .. IF pc' = "select" THEN Sends!MaxHedges - 1 ELSE Sends!Total
    <3>1. IF i + 1 < Sends!MaxHedges THEN pc' = pc /\ i' = i + 1 ELSE pc' = "drain" /\ i' = 0
      BY <1>3 DEF Sends!H!SelectTimer, Sends!H!Advance
    <3>. QED
      BY <1>i, <2>2, <3>1
  <2>4. /\ attempts' \in [Sends!Attempt -> {"none", "running", "blocked", "done"}]
        /\ next' \in [Sends!Attempt -> {"none", "running", "nil", "fail"}]
        /\ attempts'[a] = "running" /\ next'[a] = "running"
        /\ \A b \in Sends!Attempt : b # a => attempts'[b] = attempts[b] /\ next'[b] = next[b]
    BY <1>0, <2>2 DEF Types
  <2>5. Types'
    BY <1>0, <2>2, <2>3, <2>4 DEF Types, Sends!Attempt, Sends!H!Attempt
  <2>6. \A b \in Sends!Attempt : AttemptOK(b)'
    <3>. TAKE b \in Sends!Attempt
    <3>1. AttemptOK(b)
      BY <1>0
    <3>2. CASE b = a
      BY <2>2, <2>4, <3>1, <3>2 DEF AttemptOK
    <3>3. CASE b # a
      BY <2>2, <2>4, <3>1, <3>3 DEF AttemptOK
    <3>. QED
      BY <3>2, <3>3
  <2>7. Sends!Attempt' = Sends!Attempt
    BY DEF Sends!Attempt, Sends!H!Attempt
  <2>8. Sends!Skipped' = Sends!Skipped
    BY <2>2, <2>4, <2>7 DEF Sends!Skipped
  <2>9. Sends!Failed' = Sends!Failed
    BY <2>2, <2>7 DEF Sends!Failed
  <2>10. ResultsOK'
    <3>1. Waiting' = Waiting /\ Waiting \subseteq Sends!Attempt /\ taken \subseteq Sends!Attempt
      BY <1>0, <2>2, WaitingFacts DEF Types
    <3>. QED
      BY <1>0, <2>2, <2>4, <3>1 DEF ResultsOK
  <2>11. pc' = "drain" => i' = 0
    BY <1>3, <2>2 DEF Sends!H!SelectTimer, Sends!H!Advance
  <2>12. Cardinality(taken) \in Nat
    <3>1. taken \subseteq Sends!Attempt
      BY <1>0 DEF Types
    <3>. QED
      BY <3>1, AttemptSets
  <2>13. HedgeOK'
    BY <1>0, <2>2, <2>3, <2>9, <2>11, <2>12 DEF HedgeOK
  <2>14. answer' = "none"
    BY <2>2 DEF SendInv
  <2>15. Justified'
    BY <2>14 DEF Justified
  <2>. QED
    BY <1>0, <1>c, <2>5, <2>6, <2>8, <2>10, <2>13, <2>14, <2>15, AtOnceMoves
<1>4. CASE Sends!H!SelectResult
  <2>1. /\ pc = "select" /\ results # <<>> /\ results' = Tail(results)
        /\ taken' = taken \cup {Head(results)}
        /\ UNCHANGED <<kind, attempts, next, err, cancelled>>
    BY <1>0, <1>4 DEF Sends!H!SelectResult, Sends!H!Receive, Sends!H!goroutines
  <2>2. \/ err[Head(results)] = "nil" /\ pc' = "returned" /\ answer' = "nil" /\ i' = i
        \/ /\ err[Head(results)] # "nil" /\ answer' = answer
           /\ IF i + 1 < Sends!MaxHedges THEN pc' = pc /\ i' = i + 1 ELSE pc' = "drain" /\ i' = 0
    BY <1>4 DEF Sends!H!SelectResult, Sends!H!IsSuccess, Sends!H!Return, Sends!H!Advance
  <2>3. \/ err[Head(results)] = "nil" /\ pc' = "returned" /\ answer' = "nil" /\ UNCHANGED i
        \/ /\ err[Head(results)] # "nil" /\ pc' \in {"select", "drain"} /\ UNCHANGED answer
           /\ pc' = "select" => pc = "select" /\ i' \in 0 .. Sends!MaxHedges - 1
           /\ pc' = "drain" => i' = 0 \/ (pc = "drain" /\ i' = i + 1 /\ i < Sends!Total)
    BY <1>i, <2>1, <2>2
  <2>. QED
    BY <1>0, <2>1, <2>3, HedgeReceives
<1>5. CASE Sends!H!Drain
  <2>1. /\ pc = "drain" /\ results # <<>> /\ results' = Tail(results)
        /\ taken' = taken \cup {Head(results)} /\ i < Sends!Total
        /\ UNCHANGED <<kind, attempts, next, err, cancelled>>
    BY <1>0, <1>5 DEF Sends!H!Drain, Sends!H!DrainBound, Sends!H!Receive, Sends!H!goroutines
  <2>2. \/ err[Head(results)] = "nil" /\ pc' = "returned" /\ answer' = "nil" /\ i' = i
        \/ err[Head(results)] # "nil" /\ pc' = pc /\ answer' = answer /\ i' = i + 1
    BY <1>5 DEF Sends!H!Drain, Sends!H!IsSuccess, Sends!H!Return
  <2>. QED
    BY <1>0, <2>1, <2>2, HedgeReceives
<1>6. CASE Sends!H!ReturnLastErr
  <2>1. /\ pc = "drain" /\ i >= Sends!Total /\ pc' = "returned" /\ answer' = "error"
        /\ UNCHANGED <<attempts, next, err, results, taken, i, cancelled>>
    BY <1>6 DEF Sends!H!ReturnLastErr, Sends!H!DrainBound, Sends!H!Return, Sends!H!goroutines
  <2>2. taken \subseteq Sends!Failed /\ i <= Cardinality(taken) /\ taken \subseteq Sends!Attempt
    BY <1>0, <2>1 DEF HedgeOK, Types
  <2>3. taken = Sends!Attempt
    <3>1. Cardinality(taken) \in 0 .. Sends!Total /\ (Cardinality(taken) = Sends!Total => taken = Sends!Attempt)
      BY <2>2, AttemptSets
    <3>. QED
      BY <1>i, <2>1, <2>2, <3>1
  <2>4. Sends!Failed = Sends!Attempt
    BY <2>2, <2>3, SetFacts
  <2>. QED
    BY <1>1, <2>1, <2>4
<1>. QED
  BY <1>2, <1>3, <1>4, <1>5, <1>6 DEF Sends!HedgeSelect, Sends!HedgeDrain, Sends!HedgeGivesUp, Sends!H!Select

(* The caller of a quorum.                                                 *)
LEMMA QuorumStep ==
  ASSUME SendInv, Sends!QuorumCollect
  PROVE  SendInv'
<1>. DEFINE a == Head(results)
<1>0. /\ kind = "quorum" /\ kind' = kind /\ Types /\ answer = "none"
      /\ kind \in Sends!AtOnce /\ pc = "collect" /\ results # <<>>
      /\ results' = Tail(results) /\ taken' = taken \cup {a}
      /\ UNCHANGED <<attempts, next, err, i, cancelled>>
  BY DEF Sends!QuorumCollect, Sends!Q!Collect, Sends!Q!Receive, Sends!Q!goroutines, Sends!hedging,
     SendInv, Sends!AtOnce
<1>. HIDE DEF a
<1>1. /\ results' \in Seq(Sends!Attempt) /\ Len(results') <= Sends!Total
      /\ \A m, n \in DOMAIN results' : results'[m] = results'[n] => m = n
      /\ taken' \subseteq Sends!Attempt
      /\ \A b \in taken' : attempts[b] = "done" /\ err[b] # ""
      /\ ResultsOK' /\ \A b \in Sends!Attempt : AttemptOK(b)'
  BY <1>0, ReceiveFacts DEF a
<1>2. /\ Sends!Skipped' = Sends!Skipped /\ Sends!Failed' = Sends!Failed
      /\ Sends!DeliveredTo' = Sends!DeliveredTo /\ Sends!Attempt' = Sends!Attempt
  BY <1>0, SetsStay
<1>3. /\ \A b \in taken' : err[b] # "nil" => b \in Sends!Failed
      /\ \A b \in taken' : err[b] = "nil" => b \in Sends!DeliveredTo
  BY <1>0, <1>1, ReceivedMeans
<1>4. /\ Sends!Q!Successes(taken') \subseteq Sends!DeliveredTo
      /\ Sends!Q!Failures(taken') \subseteq Sends!Failed
  BY <1>3 DEF Sends!Q!Successes, Sends!Q!Failures, Sends!Q!IsSuccess
<1>5. /\ Cardinality(Sends!Q!Successes(taken')) <= Cardinality(Sends!DeliveredTo)
      /\ Cardinality(Sends!Q!Failures(taken')) <= Cardinality(Sends!Failed)
      /\ Cardinality(Sends!Q!Successes(taken')) \in Nat /\ Cardinality(Sends!DeliveredTo) \in Nat
      /\ Cardinality(Sends!Q!Failures(taken')) \in Nat /\ Cardinality(Sends!Failed) \in Nat
  <2>1. Sends!DeliveredTo \subseteq Sends!Attempt /\ Sends!Failed \subseteq Sends!Attempt
    BY SetFacts
  <2>2. /\ Sends!Q!Successes(taken') \subseteq Sends!Attempt
        /\ Sends!Q!Failures(taken') \subseteq Sends!Attempt
    BY <1>4, <2>1
  <2>. QED
    BY <1>4, <2>1, <2>2, AttemptSets
<1>6. /\ Sends!Q!Reached(taken') => QuorumMet
      /\ Sends!Q!OutOfReach(taken') => QuorumLost
  <2>1. /\ Sends!Q!Cardinality(Sends!Q!Successes(taken')) = Cardinality(Sends!Q!Successes(taken'))
        /\ Sends!Q!Cardinality(Sends!Q!Failures(taken')) = Cardinality(Sends!Q!Failures(taken'))
    BY SendOperators
  <2>2. Sends!Total \in Nat /\ Required \in 1 .. Sends!Total
    BY TotalFacts
  <2>. QED
    BY <1>5, <2>1, <2>2 DEF Sends!Q!Reached, Sends!Q!OutOfReach, QuorumMet, QuorumLost
<1>7. \/ pc' = "returned" /\ answer' = "nil" /\ QuorumMet
      \/ pc' = "returned" /\ answer' = "error" /\ QuorumLost
      \/ pc' = "collect" /\ answer' = "none"
  BY <1>0, <1>6 DEF Sends!QuorumCollect, Sends!Q!Collect, Sends!Q!Return
<1>8. Types'
  <2>1. i \in 0 .. Sends!Total
    BY <1>0 DEF Types
  <2>. QED
    BY <1>0, <1>1, <1>2, <1>7, <2>1 DEF Types
<1>9. HedgeOK' /\ CollectOK'
  BY <1>0, <1>7 DEF HedgeOK, CollectOK
<1>10. QuorumMet' = QuorumMet /\ QuorumLost' = QuorumLost
  BY <1>2 DEF QuorumMet, QuorumLost
<1>11. Justified'
  BY <1>0, <1>7, <1>10 DEF Justified, NilJustified, ErrorJustified
<1>. QED
  BY <1>0, <1>1, <1>2, <1>7, <1>8, <1>9, <1>11, AtOnceMoves

(* The caller of a fan-out.                                                *)
LEMMA FanoutStep ==
  ASSUME SendInv, Sends!FanoutCollect
  PROVE  SendInv'
<1>. DEFINE a == Head(results)
<1>0. /\ kind = "fanout" /\ kind' = kind /\ Types /\ answer = "none"
      /\ kind \in Sends!AtOnce /\ kind \in Sends!AllOf /\ pc = "collect" /\ results # <<>>
      /\ results' = Tail(results) /\ taken' = taken \cup {a}
      /\ UNCHANGED <<attempts, next, err, i, cancelled>>
  BY DEF Sends!FanoutCollect, Sends!F!Collect, Sends!F!Receive, Sends!F!goroutines, Sends!hedging,
     SendInv, Sends!AtOnce, Sends!AllOf
<1>. HIDE DEF a
<1>1. /\ results' \in Seq(Sends!Attempt) /\ Len(results') <= Sends!Total
      /\ \A m, n \in DOMAIN results' : results'[m] = results'[n] => m = n
      /\ taken' \subseteq Sends!Attempt
      /\ \A b \in taken' : attempts[b] = "done" /\ err[b] # ""
      /\ ResultsOK' /\ \A b \in Sends!Attempt : AttemptOK(b)'
  BY <1>0, ReceiveFacts DEF a
<1>2. /\ Sends!Skipped' = Sends!Skipped /\ Sends!Failed' = Sends!Failed
      /\ Sends!DeliveredTo' = Sends!DeliveredTo /\ Sends!Attempt' = Sends!Attempt
  BY <1>0, SetsStay
<1>3. /\ \A b \in taken' : err[b] # "nil" => b \in Sends!Failed
      /\ \A b \in taken' : err[b] = "nil" => b \in Sends!DeliveredTo \cup Sends!Skipped
  BY <1>0, <1>1, ReceivedMeans
<1>4. \/ /\ pc' = "returned" /\ answer' = "nil" /\ taken' = Sends!Attempt
         /\ \A b \in Sends!Attempt : err[b] = "nil"
      \/ /\ pc' = "returned" /\ answer' = "error" /\ taken' = Sends!Attempt
         /\ \E b \in Sends!Attempt : err[b] # "nil"
      \/ pc' = "collect" /\ answer' = "none"
  <2>1. IF taken' # Sends!Attempt THEN pc' = pc /\ answer' = answer
        ELSE /\ pc' = "returned"
             /\ answer' = IF \A b \in Sends!Attempt : err[b] = "nil" THEN "nil" ELSE "error"
    BY TotalFacts DEF Sends!FanoutCollect, Sends!F!Collect, Sends!F!Return, Sends!F!IsSuccess
  <2>. QED
    BY <1>0, <2>1
<1>5. /\ answer' = "nil" => Sends!DeliveredTo \cup Sends!Skipped = Sends!Attempt
      /\ answer' = "error" => Sends!Failed # {}
      /\ answer' # "ctx"
  BY <1>3, <1>4, SetFacts
<1>6. Types'
  <2>1. i \in 0 .. Sends!Total
    BY <1>0 DEF Types
  <2>. QED
    BY <1>0, <1>1, <1>2, <1>4, <2>1 DEF Types
<1>7. HedgeOK' /\ CollectOK'
  BY <1>0, <1>4 DEF HedgeOK, CollectOK
<1>8. Justified'
  <2>1. kind' \in Sends!AllOf'
    BY <1>0 DEF Sends!AllOf
  <2>. QED
    BY <1>0, <1>2, <1>5, <2>1 DEF Justified, NilJustified, ErrorJustified
<1>. QED
  BY <1>0, <1>1, <1>2, <1>4, <1>6, <1>7, <1>8, AtOnceMoves

(* In a sequence, a step keeps the invariant if it keeps what the          *)
(* invariant says of those kinds.                                          *)
LEMMA SequenceMoves ==
  ASSUME SendInv, kind \in Sends!SequentialKinds, UNCHANGED kind, Types',
         \A a \in Sends!Attempt : AttemptOK(a)',
         Sends!Skipped' = Sends!Skipped,
         ResultsOK', SequenceOK', OneAtATime', Justified',
         pc' # "returned" => answer' = "none"
  PROVE  SendInv'
<1>1. Sends!Attempt' = Sends!Attempt
  BY DEF Sends!Attempt, Sends!H!Attempt
<1>2. kind # "hedge" /\ kind # "quorum" /\ kind # "fanout"
  BY DEF Sends!SequentialKinds
<1>3. SkippedOK'
  BY <1>1 DEF SendInv, SkippedOK
<1>4. HedgeOK' /\ CollectOK'
  BY <1>2 DEF HedgeOK, CollectOK
<1>. QED
  BY <1>1, <1>3, <1>4 DEF SendInv

(* Every target has yet to be called, is passed over, or is called.        *)
LEMMA OneOfThree ==
  \A a \in Sends!Attempt : a \in Sends!S!Untried \/ a \in Sends!Skipped \/ a \in Sends!Called
BY TotalFacts DEF Sends!S!Untried, Sends!Skipped, Sends!Called

(* The next target in the sequence is called.                              *)
LEMMA CallNextStep ==
  ASSUME SendInv, kind \in Sends!SequentialKinds, Sends!S!CallNext, UNCHANGED <<kind, i>>
  PROVE  SendInv'
<1>0. /\ Types /\ SequenceOK /\ ResultsOK /\ answer = "none" /\ pc = "ready" /\ OneAtATime
      /\ \A b \in Sends!Attempt : AttemptOK(b)
  BY DEF SendInv, Sends!S!CallNext
<1>1. PICK a \in Sends!S!Untried : (\A b \in Sends!S!Untried : a <= b) /\ Sends!S!Launch(a)
  BY DEF Sends!S!CallNext
<1>2. /\ a \in Sends!Attempt /\ attempts[a] = "none" /\ next[a] = "none"
      /\ Sends!S!Untried \subseteq Sends!Attempt
  BY <1>0, <1>1, TotalFacts DEF Sends!S!Untried, AttemptOK
<1>3. /\ attempts' = [attempts EXCEPT ![a] = "running"]
      /\ next' = [next EXCEPT ![a] = "running"] /\ pc' = "calling"
      /\ UNCHANGED <<err, results, taken, answer, cancelled, i, kind>>
  BY <1>1 DEF Sends!S!CallNext, Sends!S!Launch
<1>4. /\ attempts' \in [Sends!Attempt -> {"none", "running", "blocked", "done"}]
      /\ next' \in [Sends!Attempt -> {"none", "running", "nil", "fail"}]
      /\ attempts'[a] = "running" /\ next'[a] = "running"
      /\ \A b \in Sends!Attempt : b # a => attempts'[b] = attempts[b] /\ next'[b] = next[b]
  BY <1>0, <1>2, <1>3 DEF Types
<1>5. Sends!Attempt' = Sends!Attempt /\ Sends!S!Attempt = Sends!Attempt /\ Sends!S!Attempt' = Sends!Attempt
  BY DEF Sends!Attempt, Sends!H!Attempt, Sends!S!Attempt
<1>6. Sends!Called' = Sends!Called \cup {a} /\ a \notin Sends!Called
  BY <1>2, <1>4, <1>5 DEF Sends!Called
<1>7. Sends!S!Untried' = Sends!S!Untried \ {a}
  BY <1>2, <1>4, <1>5 DEF Sends!S!Untried
<1>8. Sends!Skipped' = Sends!Skipped
  BY <1>2, <1>4, <1>5 DEF Sends!Skipped
<1>9. Sends!Failed' = Sends!Failed
  BY <1>3, <1>5 DEF Sends!Failed
<1>10. Types'
  <2>1. pc' = "calling" /\ kind' \in Kinds /\ i' \in 0 .. Sends!Total
    BY <1>0, <1>3 DEF Types
  <2>2. /\ results' \in Seq(Sends!Attempt) /\ Len(results') <= Sends!Total
        /\ \A m, n \in DOMAIN results' : results'[m] = results'[n] => m = n
    BY <1>0, <1>3 DEF Types
  <2>3. /\ err' \in [Sends!Attempt -> {"", "nil", "fail", "timeout"}]
        /\ cancelled' \in BOOLEAN /\ answer' \in {"none", "nil", "ctx", "error"}
        /\ taken' \subseteq Sends!Attempt
    BY <1>0, <1>3 DEF Types
  <2>4. Sends!Total' = Sends!Total /\ Sends!MaxHedges' = Sends!MaxHedges
    BY DEF Sends!Total, Sends!MaxHedges
  <2>. QED
    BY <1>4, <1>5, <2>1, <2>2, <2>3, <2>4 DEF Types
<1>11. \A b \in Sends!Attempt : AttemptOK(b)'
  <2>. TAKE b \in Sends!Attempt
  <2>1. AttemptOK(b)
    BY <1>0
  <2>2. CASE b = a
    BY <1>2, <1>3, <1>4, <2>1, <2>2 DEF AttemptOK
  <2>3. CASE b # a
    BY <1>3, <1>4, <2>1, <2>3 DEF AttemptOK
  <2>. QED
    BY <2>2, <2>3
<1>12. ResultsOK'
  <2>1. Waiting' = Waiting /\ Waiting \subseteq Sends!Attempt /\ taken \subseteq Sends!Attempt
    BY <1>0, <1>3, WaitingFacts DEF Types
  <2>. QED
    BY <1>0, <1>2, <1>3, <1>4, <2>1 DEF ResultsOK
<1>13. /\ taken = {b \in Sends!Called : attempts[b] = "done"}
       /\ \A b \in Sends!Called, c \in Sends!S!Untried : b < c
       /\ \A b \in Sends!Called : Settled(b) /\ attempts[b] = "done"
       /\ Sends!Called \subseteq Sends!Attempt
  BY <1>0, SetFacts DEF SequenceOK
<1>14. \A b \in Sends!Called : Settled(b)' /\ attempts'[b] = "done" /\ b < a /\ b # a
  BY <1>1, <1>3, <1>4, <1>6, <1>9, <1>13 DEF Settled
<1>15. SequenceOK'
  <2>1. taken' = {b \in Sends!Called' : attempts'[b] = "done"}
    BY <1>3, <1>4, <1>6, <1>13, <1>14
  <2>2. \A b \in Sends!Called', c \in Sends!S!Untried' : b < c
    <3>1. \A c \in Sends!S!Untried : c # a => a < c
      BY <1>1, <1>2, TotalFacts
    <3>. QED
      BY <1>6, <1>7, <1>13, <3>1
  <2>3. \E b \in Sends!Called' :
           /\ attempts'[b] \in {"running", "blocked"}
           /\ \A c \in Sends!Called' \ {b} : Settled(c)' /\ attempts'[c] = "done" /\ c < b
    BY <1>4, <1>6, <1>14
  <2>. QED
    BY <1>3, <2>1, <2>2, <2>3 DEF SequenceOK
<1>16. OneAtATime'
  <2>1. \A b \in Sends!Called', c \in Sends!Called' : b < c => Settled(b)'
    <3>1. \A b \in Sends!Called : ~(a < b)
      BY <1>2, <1>13, <1>14, TotalFacts
    <3>2. ~(a < a)
      BY <1>2, TotalFacts
    <3>. QED
      BY <1>6, <1>14, <3>1, <3>2
  <2>. QED
    BY <2>1 DEF OneAtATime, Sends!OneAtATime, Settled
<1>17. Justified' /\ answer' = "none"
  BY <1>0, <1>3 DEF Justified
<1>. QED
  BY <1>3, <1>8, <1>10, <1>11, <1>12, <1>15, <1>16, <1>17, SequenceMoves

(* The caller returns or goes on, and no target is called.                 *)
LEMMA CallerMoves ==
  ASSUME SendInv, kind \in Sends!SequentialKinds,
         UNCHANGED <<kind, i, attempts, next, err, results, taken, cancelled>>,
         \/ pc = "waiting" /\ pc' = "ready" /\ UNCHANGED answer
         \/ pc \in {"ready", "waiting"} /\ pc' = "returned" /\ answer' = "ctx" /\ cancelled
         \/ /\ pc = "ready" /\ pc' = "returned" /\ answer' = "nil"
            /\ Sends!S!Untried = {}
  PROVE  SendInv'
<1>0. /\ Types /\ SequenceOK /\ ResultsOK /\ answer = "none" /\ OneAtATime /\ SkippedOK
      /\ pc \in {"ready", "waiting"}
      /\ pc' \in {"ready", "returned"} /\ answer' \in {"none", "ctx", "nil"}
      /\ \A b \in Sends!Attempt : AttemptOK(b)
  BY DEF SendInv
<1>1. /\ Sends!Skipped' = Sends!Skipped /\ Sends!Failed' = Sends!Failed
      /\ Sends!DeliveredTo' = Sends!DeliveredTo /\ Sends!Called' = Sends!Called
      /\ Sends!S!Untried' = Sends!S!Untried /\ Sends!Attempt' = Sends!Attempt
  BY SetsStay
<1>2. Types'
  <2>1. i \in 0 .. Sends!Total
    BY <1>0 DEF Types
  <2>. QED
    BY <1>0, <1>1, <2>1 DEF Types
<1>3. \A b \in Sends!Attempt : AttemptOK(b)'
  BY <1>0 DEF AttemptOK
<1>4. ResultsOK'
  BY <1>0, WaitingFacts DEF ResultsOK
<1>5. SequenceOK'
  <2>1. \A b \in Sends!Called : Settled(b)' <=> Settled(b)
    BY <1>1 DEF Settled
  <2>2. /\ taken = {b \in Sends!Called : attempts[b] = "done"}
        /\ \A b \in Sends!Called, c \in Sends!S!Untried : b < c
        /\ \A b \in Sends!Called : Settled(b) /\ attempts[b] = "done"
        /\ Sends!Called # {} => Sends!S!Untried # {}
    BY <1>0 DEF SequenceOK
  <2>. QED
    BY <1>0, <1>1, <2>1, <2>2 DEF SequenceOK
<1>6. OneAtATime'
  BY <1>0, <1>1, OneAtATimeStays
<1>7. Justified'
  <2>1. CASE answer' = "none" \/ (answer' = "ctx" /\ cancelled)
    BY <2>1 DEF Justified
  <2>2. CASE answer' = "nil" /\ Sends!S!Untried = {}
    <3>1. Sends!Called = {}
      BY <1>0, <2>2 DEF SequenceOK
    <3>2. Sends!Skipped = Sends!Attempt /\ Sends!DeliveredTo = {}
      BY <2>2, <3>1, OneOfThree, SetFacts
    <3>3. kind \in Sends!AllOf \/ kind \in Sends!OneOf
      BY <1>0, <3>2, TotalFacts DEF SkippedOK, Sends!AllOf, Sends!OneOf, Sends!SequentialKinds
    <3>4. NilJustified
      BY <3>1, <3>2, <3>3 DEF NilJustified
    <3>5. NilJustified'
      <4>1. (kind \in Sends!AllOf => kind' \in Sends!AllOf') /\ (kind \in Sends!OneOf => kind' \in Sends!OneOf')
        BY DEF Sends!AllOf, Sends!OneOf
      <4>. QED
        BY <1>1, <3>1, <3>2, <3>3, <4>1 DEF NilJustified
    <3>. QED
      BY <2>2, <3>5 DEF Justified
  <2>. QED
    BY <1>0, <2>1, <2>2
<1>. QED
  BY <1>0, <1>1, <1>2, <1>3, <1>4, <1>5, <1>6, <1>7, SequenceMoves

(* The target that was called has answered.                                *)
LEMMA AnsweredStep ==
  ASSUME SendInv, kind \in Sends!SequentialKinds, NEW a \in Sends!Attempt,
         Sends!S!Answered(a), UNCHANGED <<kind, i>>
  PROVE  SendInv'
<1>0. /\ Types /\ SequenceOK /\ ResultsOK /\ answer = "none" /\ OneAtATime /\ SkippedOK
      /\ pc = "calling" /\ attempts[a] = "blocked"
      /\ attempts' = [attempts EXCEPT ![a] = "done"] /\ taken' = taken \cup {a}
      /\ UNCHANGED <<next, err, results, cancelled, kind, i>>
      /\ \A b \in Sends!Attempt : AttemptOK(b)
  BY DEF SendInv, Sends!S!Answered
<1>1. /\ attempts' \in [Sends!Attempt -> {"none", "running", "blocked", "done"}]
      /\ attempts'[a] = "done" /\ \A b \in Sends!Attempt : b # a => attempts'[b] = attempts[b]
  BY <1>0 DEF Types
<1>2. a \in Sends!Called /\ err[a] \in {"nil", "fail", "timeout"}
  <2>1. AttemptOK(a) /\ err[a] \in {"", "nil", "fail", "timeout"}
    BY <1>0 DEF Types
  <2>. QED
    BY <1>0, <2>1 DEF AttemptOK, Sends!Called
<1>3. PICK w \in Sends!Called :
        /\ attempts[w] \in {"running", "blocked"}
        /\ \A b \in Sends!Called \ {w} : Settled(b) /\ attempts[b] = "done" /\ b < w
  BY <1>0 DEF SequenceOK
<1>4. a = w
  BY <1>0, <1>2, <1>3
<1>5. /\ Sends!Called \subseteq Sends!Attempt
      /\ \A b \in Sends!Called \ {a} : Settled(b) /\ attempts[b] = "done" /\ b < a
      /\ \A b \in Sends!Called : attempts'[b] = "done"
      /\ taken = {b \in Sends!Called : attempts[b] = "done"}
      /\ \A b \in Sends!Called, c \in Sends!S!Untried : b < c
  BY <1>0, <1>1, <1>3, <1>4, SetFacts DEF SequenceOK
<1>6. taken' = Sends!Called
  BY <1>0, <1>2, <1>5
<1>7. Sends!Attempt' = Sends!Attempt /\ Sends!S!Attempt = Sends!Attempt /\ Sends!S!Attempt' = Sends!Attempt
  BY DEF Sends!Attempt, Sends!H!Attempt, Sends!S!Attempt
<1>8. /\ Sends!Skipped' = Sends!Skipped /\ Sends!Failed' = Sends!Failed
      /\ Sends!DeliveredTo' = Sends!DeliveredTo /\ Sends!Called' = Sends!Called
      /\ Sends!S!Untried' = Sends!S!Untried
  <2>1. \A b \in Sends!Attempt : attempts'[b] = "none" <=> attempts[b] = "none"
    BY <1>0, <1>1
  <2>2. Sends!Skipped' = Sends!Skipped
    BY <1>0, <1>7, <2>1 DEF Sends!Skipped
  <2>3. Sends!Failed' = Sends!Failed
    BY <1>0, <1>7 DEF Sends!Failed
  <2>4. Sends!DeliveredTo' = Sends!DeliveredTo /\ Sends!Called' = Sends!Called
    BY <1>0, <1>7 DEF Sends!DeliveredTo, Sends!Called
  <2>5. Sends!S!Untried' = Sends!S!Untried
    BY <1>7, <2>1 DEF Sends!S!Untried
  <2>. QED
    BY <2>2, <2>3, <2>4, <2>5
<1>9. \/ /\ pc' \in {"ready", "waiting"} /\ answer' = "none"
         /\ Sends!S!GoesOn(a) /\ Sends!S!Untried # {}
      \/ /\ pc' = "returned" /\ answer' = Sends!S!Outcome(taken', a)
         /\ ~Sends!S!GoesOn(a) \/ Sends!S!Untried = {}
  <2>1. Sends!S!AfterAnswer(a)
    BY DEF Sends!S!Answered
  <2>2. CASE Sends!S!GoesOn(a) /\ Sends!S!Untried # {}
    BY <1>0, <2>1, <2>2 DEF Sends!S!AfterAnswer
  <2>3. CASE ~(Sends!S!GoesOn(a) /\ Sends!S!Untried # {})
    BY <2>1, <2>3 DEF Sends!S!AfterAnswer, Sends!S!Return
  <2>. QED
    BY <2>2, <2>3
<1>10. Sends!S!GoesOn(a) <=>
         \/ kind \in {"fallback", "retry"} /\ err[a] # "nil"
         \/ kind = "pipeline" /\ err[a] = "nil"
         \/ kind = "router"
  BY DEF Sends!S!GoesOn, Sends!S!FallsBack, Sends!S!TriesAgain, Sends!S!NextStage,
     Sends!S!NextRoute, Sends!S!IsSuccess
<1>11. Sends!S!Outcome(taken', a) =
         IF err[a] = "nil" /\ (kind = "router" => \A b \in Sends!Called : err[b] = "nil")
         THEN "nil" ELSE "error"
  BY <1>6 DEF Sends!S!Outcome, Sends!S!IsSuccess
<1>12. Sends!S!GoesOn(a) => Settled(a)
  BY <1>2, <1>5, <1>10 DEF Settled, Sends!Failed
<1>13. \A b \in Sends!Called : Settled(b)' <=> Settled(b)
  BY <1>0, <1>8 DEF Settled
<1>14. SequenceOK'
  <2>1. pc' \in {"ready", "waiting", "returned"}
    BY <1>9
  <2>2. taken' = {b \in Sends!Called' : attempts'[b] = "done"}
    BY <1>5, <1>6, <1>8
  <2>3. pc' \in {"ready", "waiting"} =>
         /\ \A b \in Sends!Called' : Settled(b)' /\ attempts'[b] = "done"
         /\ Sends!Called' # {} => Sends!S!Untried' # {}
    BY <1>5, <1>8, <1>9, <1>12, <1>13
  <2>. QED
    BY <1>5, <1>8, <2>1, <2>2, <2>3 DEF SequenceOK
<1>15. Types'
  <2>1. i \in 0 .. Sends!Total
    BY <1>0 DEF Types
  <2>2. answer' \in {"none", "nil", "error"} /\ pc' \in {"ready", "waiting", "returned"}
    BY <1>9, <1>11
  <2>. QED
    BY <1>0, <1>1, <1>7, <2>1, <2>2 DEF Types
<1>16. \A b \in Sends!Attempt : AttemptOK(b)'
  <2>. TAKE b \in Sends!Attempt
  <2>1. AttemptOK(b)
    BY <1>0
  <2>2. CASE b = a
    BY <1>0, <1>1, <2>1, <2>2 DEF AttemptOK
  <2>3. CASE b # a
    BY <1>0, <1>1, <2>1, <2>3 DEF AttemptOK
  <2>. QED
    BY <2>2, <2>3
<1>17. ResultsOK'
  <2>1. Waiting' = Waiting /\ Waiting \subseteq Sends!Attempt /\ taken \subseteq Sends!Attempt
    BY <1>0, WaitingFacts DEF Types
  <2>2. a \notin Waiting
    BY <1>0 DEF ResultsOK
  <2>. QED
    BY <1>0, <1>1, <2>1, <2>2 DEF ResultsOK
<1>18. OneAtATime'
  BY <1>0, <1>8, OneAtATimeStays
<1>19. \A b \in Sends!Called : err[b] # "" /\ (err[b] # "nil" => b \in Sends!Failed)
                                /\ (err[b] = "nil" => b \in Sends!DeliveredTo)
  <2>. TAKE b \in Sends!Called
  <2>1. AttemptOK(b) /\ err[b] \in {"", "nil", "fail", "timeout"} /\ b \in Sends!Attempt
    BY <1>0, <1>5 DEF Types
  <2>2. next[b] # "none" /\ attempts[b] \in {"blocked", "done"}
    BY <1>0, <1>5 DEF Sends!Called
  <2>. QED
    BY <2>1, <2>2 DEF AttemptOK, Sends!Failed, Sends!DeliveredTo
<1>20. ASSUME answer' = "nil" PROVE NilJustified
  <2>1. /\ err[a] = "nil" /\ a \in Sends!DeliveredTo
        /\ kind = "router" => \A b \in Sends!Called : err[b] = "nil"
        /\ ~Sends!S!GoesOn(a) \/ Sends!S!Untried = {}
    BY <1>2, <1>9, <1>11, <1>19, <1>20
  <2>2. CASE kind \in {"fallback", "retry"}
    BY <2>1, <2>2 DEF NilJustified, Sends!AnyOf
  <2>3. CASE kind \in {"pipeline", "router"}
    <3>1. Sends!S!Untried = {}
      BY <1>10, <2>1, <2>3
    <3>2. \A b \in Sends!Called : err[b] = "nil"
      BY <1>5, <2>1, <2>3 DEF Settled
    <3>3. Sends!DeliveredTo \cup Sends!Skipped = Sends!Attempt
      BY <1>19, <3>1, <3>2, OneOfThree, SetFacts
    <3>. QED
      BY <2>3, <3>3 DEF NilJustified, Sends!AllOf
  <2>4. CASE kind = "filter"
    <3>1. Sends!DeliveredTo \cup Sends!Skipped = Sends!Attempt
      <4>1. a \notin Sends!Skipped
        BY <1>2 DEF Sends!Called, Sends!Skipped
      <4>2. a = 1 /\ \A b \in Sends!Attempt : b = 1 \/ b \in Sends!Skipped
        BY <1>0, <2>4, <4>1 DEF SkippedOK
      <4>. QED
        BY <2>1, <4>2, SetFacts
    <3>. QED
      BY <2>4, <3>1 DEF NilJustified, Sends!AllOf
  <2>5. CASE kind \in {"mux", "jitter"}
    <3>0. \A b \in Sends!Called : ~Settled(b)
      BY <2>5 DEF Settled
    <3>1. \A b \in Sends!Called : b = a
      BY <1>5, <3>0
    <3>2. Sends!DeliveredTo = Sends!Called
      BY <1>2, <2>1, <3>1, SetFacts
    <3>. QED
      BY <2>5, <3>2 DEF NilJustified, Sends!OneOf
  <2>. QED
    BY <2>2, <2>3, <2>4, <2>5 DEF Sends!SequentialKinds
<1>21. ASSUME answer' = "error" PROVE ErrorJustified
  <2>1. /\ \/ err[a] # "nil"
           \/ kind = "router" /\ \E b \in Sends!Called : err[b] # "nil"
        /\ ~Sends!S!GoesOn(a) \/ Sends!S!Untried = {}
    BY <1>9, <1>11, <1>21
  <2>2. CASE kind \in {"fallback", "retry"}
    <3>1. Sends!S!Untried = {} /\ a \in Sends!Failed
      BY <1>2, <1>10, <1>19, <2>1, <2>2
    <3>2. Sends!Skipped = {}
      BY <1>0, <2>2 DEF SkippedOK
    <3>3. \A b \in Sends!Called : b \in Sends!Failed
      BY <1>5, <2>2, <3>1 DEF Settled
    <3>4. Sends!Failed = Sends!Attempt
      BY <3>1, <3>2, <3>3, OneOfThree, SetFacts
    <3>. QED
      BY <2>2, <3>4 DEF ErrorJustified, Sends!AnyOf
  <2>3. CASE kind \notin {"fallback", "retry"}
    <3>1. Sends!Failed # {}
      BY <1>2, <1>19, <2>1
    <3>2. kind \in Sends!AllOf \cup Sends!OneOf
      BY <2>3 DEF Sends!AllOf, Sends!OneOf, Sends!SequentialKinds
    <3>. QED
      BY <3>1, <3>2 DEF ErrorJustified
  <2>. QED
    BY <2>2, <2>3
<1>22. Justified'
  <2>1. answer' # "ctx"
    BY <1>9, <1>11
  <2>2. NilJustified' = NilJustified /\ ErrorJustified' = ErrorJustified
    BY <1>0, <1>7, <1>8 DEF NilJustified, ErrorJustified, QuorumMet, QuorumLost, Sends!AnyOf, Sends!AllOf, Sends!OneOf
  <2>. QED
    BY <1>20, <1>21, <2>1, <2>2 DEF Justified
<1>23. pc' # "returned" => answer' = "none"
  BY <1>9
<1>. QED
  BY <1>0, <1>8, <1>14, <1>15, <1>16, <1>17, <1>18, <1>22, <1>23, SequenceMoves

(* A set of attempts, one after the other.                                 *)
LEMMA SkippedInOrder ==
  ASSUME NEW S \in SUBSET Sends!Attempt, NEW s, s = Sends!F!SetToSeq(S)
  PROVE  /\ s \in Seq(S) /\ Len(s) <= Sends!Total
         /\ \A m, n \in DOMAIN s : s[m] = s[n] => m = n
<1>1. IsFiniteSet(S) /\ Cardinality(S) \in 0 .. Sends!Total
  BY AttemptSets
<1>2. PICK n \in Nat : ExistsBijection(1 .. n, S)
  BY <1>1, FS_NatBijection
<1>3. Cardinality(S) = n
  BY <1>2, FS_CountingElements
<1>4. PICK f : f \in Bijection(1 .. n, S)
  BY <1>2 DEF ExistsBijection
<1>5. f \in [1 .. n -> S] /\ \A m, k \in 1 .. n : f[m] = f[k] => m = k
  BY <1>4 DEF Bijection, Injection, Surjection, IsInjective
<1>6. /\ Sends!F!Cardinality(S) = n
      /\ \A g \in [1 .. n -> S] : Sends!F!IsInjective(g) <=> \A m, k \in 1 .. n : g[m] = g[k] => m = k
  BY <1>3 DEF Sends!F!Cardinality, Cardinality, Sends!F!IsInjective
<1>7. s = CHOOSE g \in [1 .. n -> S] : Sends!F!IsInjective(g)
  BY <1>6 DEF Sends!F!SetToSeq
<1>8. s \in [1 .. n -> S] /\ Sends!F!IsInjective(s)
  BY <1>5, <1>6, <1>7
<1>9. s \in Seq(S) /\ Len(s) = n /\ DOMAIN s = 1 .. n
  BY <1>8
<1>. QED
  BY <1>1, <1>3, <1>6, <1>8, <1>9

(* What starts: some attempts, some passed over, nothing received.         *)
Started(started, skipped) ==
  /\ attempts = [a \in Sends!Attempt |-> IF a \in started THEN "running"
                                          ELSE IF a \in skipped THEN "done" ELSE "none"]
  /\ next = [a \in Sends!Attempt |-> IF a \in started THEN "running" ELSE "none"]
  /\ err = [a \in Sends!Attempt |-> IF a \in skipped THEN "nil" ELSE ""]
  /\ taken = {} /\ answer = "none" /\ i = 0 /\ cancelled = FALSE

(* That is a state of the invariant, if the channel is.                    *)
LEMMA StartFacts ==
  ASSUME NEW started \in SUBSET Sends!Attempt, NEW skipped \in SUBSET Sends!Attempt,
         started \cap skipped = {}, Started(started, skipped), kind \in Kinds,
         pc \in {"select", "collect", "ready", "waiting"},
         results \in Seq(Sends!Attempt), Len(results) <= Sends!Total,
         \A m, n \in DOMAIN results : results[m] = results[n] => m = n
  PROVE  /\ Types /\ \A a \in Sends!Attempt : AttemptOK(a)
         /\ Sends!Skipped = skipped /\ Sends!Called = started
         /\ \A a \in skipped : attempts[a] = "done"
         /\ Justified
<1>1. \A a \in Sends!Attempt : AttemptOK(a)
  BY DEF AttemptOK, Started
<1>2. Sends!Skipped = skipped
  BY DEF Sends!Skipped, Started
<1>3. Sends!Called = started
  BY DEF Sends!Called, Started
<1>4. Justified
  BY DEF Justified, Started
<1>5. i \in 0 .. IF pc = "select" THEN Sends!MaxHedges - 1 ELSE Sends!Total
  <2>1. 0 \in 0 .. Sends!MaxHedges - 1 /\ 0 \in 0 .. Sends!Total
    BY TotalFacts
  <2>. QED
    BY <2>1 DEF Started
<1>6. Types
  BY <1>5 DEF Types, Started
<1>7. \A a \in skipped : attempts[a] = "done"
  BY DEF Started
<1>. QED
  BY <1>1, <1>2, <1>3, <1>4, <1>6, <1>7

(* Nothing is answered at the start.                                       *)
LEMMA SendInit == Sends!Init => SendInv
<1>. SUFFICES ASSUME Sends!Init PROVE SendInv
  OBVIOUS
<1>0. kind \in Kinds /\ kind \in Sends!AtOnce \cup Sends!SequentialKinds
  BY KindFacts DEF Sends!Init
<1>t. /\ Sends!Total \in Nat \ {0} /\ Sends!MaxHedges - 1 \in Nat /\ 1 \in Sends!Attempt
      /\ Sends!MaxHedges - 1 <= Sends!Total
      /\ Sends!H!Attempt = Sends!Attempt /\ Sends!Q!Attempt = Sends!Attempt
      /\ Sends!F!Attempt = Sends!Attempt /\ Sends!S!Attempt = Sends!Attempt
  BY TotalFacts
<1>e. ASSUME results = <<>>
      PROVE  /\ results \in Seq(Sends!Attempt) /\ Len(results) <= Sends!Total
             /\ \A m, n \in DOMAIN results : results[m] = results[n] => m = n
             /\ Waiting = {}
  <2>1. DOMAIN results = {} /\ Len(results) = 0
    BY <1>e
  <2>. QED
    BY <1>e, <1>t, <2>1 DEF Waiting
<1>1. CASE kind = "hedge"
  <2>1. Sends!H!Init
    BY <1>1 DEF Sends!Init, Sends!SequentialKinds
  <2>2. Started({1}, {}) /\ results = <<>> /\ pc = "select"
    BY <2>1, <1>t DEF Sends!H!Init, Sends!H!InitSend, Started
  <2>3. /\ Types /\ \A a \in Sends!Attempt : AttemptOK(a)
        /\ Sends!Skipped = {} /\ Justified
    <3>1. {1} \in SUBSET Sends!Attempt /\ {} \in SUBSET Sends!Attempt /\ {1} \cap {} = {}
      BY <1>t
    <3>. QED
      BY <1>0, <1>e, <2>2, <3>1, StartFacts
  <2>4. taken = {} /\ answer = "none" /\ i = 0
    BY <2>2 DEF Started
  <2>5. SkippedOK /\ ResultsOK /\ CollectOK
    BY <1>1, <1>e, <2>2, <2>3, <2>4 DEF SkippedOK, ResultsOK, CollectOK
  <2>6. HedgeOK
    BY <2>2, <2>4 DEF HedgeOK
  <2>7. SequenceOK /\ OneAtATime
    BY <1>1 DEF SequenceOK, OneAtATime, Sends!OneAtATime, Sends!SequentialKinds
  <2>. QED
    BY <2>2, <2>3, <2>4, <2>5, <2>6, <2>7 DEF SendInv
<1>2. CASE kind = "quorum"
  <2>1. Sends!Q!Init /\ i = 0 /\ cancelled = FALSE
    BY <1>2 DEF Sends!Init, Sends!SequentialKinds
  <2>2. Started(Sends!Attempt, {}) /\ results = <<>> /\ pc = "collect"
    BY <2>1, <1>t DEF Sends!Q!Init, Sends!Q!InitSend, Started
  <2>3. /\ Types /\ \A a \in Sends!Attempt : AttemptOK(a)
        /\ Sends!Skipped = {} /\ Justified
    <3>1. /\ Sends!Attempt \in SUBSET Sends!Attempt /\ {} \in SUBSET Sends!Attempt
          /\ Sends!Attempt \cap {} = {}
      BY <1>t
    <3>. QED
      BY <1>0, <1>e, <2>2, <3>1, StartFacts
  <2>4. taken = {} /\ answer = "none" /\ i = 0
    BY <2>2 DEF Started
  <2>5. SkippedOK /\ ResultsOK /\ CollectOK
    BY <1>2, <1>e, <2>2, <2>3, <2>4 DEF SkippedOK, ResultsOK, CollectOK
  <2>6. HedgeOK
    BY <1>2 DEF HedgeOK
  <2>7. SequenceOK /\ OneAtATime
    BY <1>2 DEF SequenceOK, OneAtATime, Sends!OneAtATime, Sends!SequentialKinds
  <2>. QED
    BY <2>2, <2>3, <2>4, <2>5, <2>6, <2>7 DEF SendInv
<1>3. CASE kind = "fanout"
  <2>1. Sends!F!Init /\ i = 0 /\ cancelled = FALSE
    BY <1>3 DEF Sends!Init, Sends!SequentialKinds
  <2>2. PICK skipped \in SUBSET Sends!Attempt :
          /\ Sends!F!InitSend(Sends!Attempt \ skipped, skipped)
          /\ results = Sends!F!SetToSeq(skipped)
    BY <2>1, <1>t DEF Sends!F!Init, Sends!F!NilResults
  <2>s. Started(Sends!Attempt \ skipped, skipped) /\ pc = "collect"
    BY <2>1, <2>2, <1>t DEF Sends!F!Init, Sends!F!InitSend, Started
  <2>r. /\ results \in Seq(skipped) /\ Len(results) <= Sends!Total
        /\ \A m, n \in DOMAIN results : results[m] = results[n] => m = n
    BY <2>2, SkippedInOrder
  <2>w. results \in Seq(Sends!Attempt) /\ Waiting \subseteq skipped
    <3>1. \A n \in 1 .. Len(results) : results[n] \in skipped /\ results[n] \in Sends!Attempt
      BY <2>r
    <3>2. Len(results) \in Nat /\ DOMAIN results = 1 .. Len(results)
      BY <2>r
    <3>. QED
      BY <2>r, <3>1, <3>2 DEF Waiting
  <2>3. /\ Types /\ \A a \in Sends!Attempt : AttemptOK(a)
        /\ Justified /\ \A a \in skipped : attempts[a] = "done"
    <3>1. Sends!Attempt \ skipped \in SUBSET Sends!Attempt /\ (Sends!Attempt \ skipped) \cap skipped = {}
      OBVIOUS
    <3>. QED
      BY <1>0, <2>s, <2>r, <2>w, <3>1, StartFacts
  <2>4. taken = {} /\ answer = "none"
    BY <2>s DEF Started
  <2>5. SkippedOK /\ ResultsOK /\ CollectOK
    BY <1>3, <2>s, <2>3, <2>4, <2>w DEF SkippedOK, ResultsOK, CollectOK
  <2>6. HedgeOK
    BY <1>3 DEF HedgeOK
  <2>7. SequenceOK /\ OneAtATime
    BY <1>3 DEF SequenceOK, OneAtATime, Sends!OneAtATime, Sends!SequentialKinds
  <2>. QED
    BY <2>3, <2>4, <2>5, <2>6, <2>7 DEF SendInv
<1>4. CASE kind \in Sends!SequentialKinds
  <2>1. Sends!S!Init /\ i = 0
    BY <1>4 DEF Sends!Init, Sends!SequentialKinds
  <2>2. PICK skipped \in IF kind = "filter" THEN Sends!S!Filtered ELSE Sends!S!RoutesPassedOver :
          Sends!S!InitSend({}, skipped)
    BY <2>1 DEF Sends!S!Init
  <2>3. Started({}, skipped)
    BY <2>1, <2>2, <1>t DEF Sends!S!Init, Sends!S!InitSend, Started
  <2>4. results = <<>> /\ cancelled = FALSE /\ pc \in {"waiting", "ready"}
    BY <2>1 DEF Sends!S!Init
  <2>5. /\ skipped \in SUBSET Sends!Attempt
        /\ kind = "filter" => \A a \in Sends!Attempt : a = 1 \/ a \in skipped
        /\ kind \notin {"filter", "router", "mux"} => skipped = {}
    <3>1. CASE kind = "filter"
      BY <1>t, <2>2, <3>1 DEF Sends!S!Filtered
    <3>2. CASE kind \in {"router", "mux"}
      BY <1>t, <2>2, <3>2 DEF Sends!S!RoutesPassedOver
    <3>3. CASE kind \notin {"filter", "router", "mux"}
      BY <2>2, <3>3 DEF Sends!S!RoutesPassedOver
    <3>. QED
      BY <3>1, <3>2, <3>3
  <2>6. /\ Types /\ \A a \in Sends!Attempt : AttemptOK(a)
        /\ Sends!Skipped = skipped /\ Sends!Called = {} /\ Justified
    <3>1. {} \in SUBSET Sends!Attempt /\ {} \cap skipped = {}
      OBVIOUS
    <3>. QED
      BY <1>0, <1>e, <2>3, <2>4, <2>5, <3>1, StartFacts
  <2>7. taken = {} /\ answer = "none"
    BY <2>3 DEF Started
  <2>8. SkippedOK
    BY <2>5, <2>6 DEF SkippedOK
  <2>9. ResultsOK
    BY <1>e, <2>4, <2>7 DEF ResultsOK
  <2>10. HedgeOK /\ CollectOK
    BY <1>4 DEF HedgeOK, CollectOK, Sends!SequentialKinds
  <2>11. SequenceOK
    BY <2>4, <2>6, <2>7 DEF SequenceOK
  <2>12. OneAtATime
    BY <2>6 DEF OneAtATime, Sends!OneAtATime
  <2>. QED
    BY <2>6, <2>7, <2>8, <2>9, <2>10, <2>11, <2>12 DEF SendInv
<1>. QED
  BY <1>0, <1>1, <1>2, <1>3, <1>4 DEF Sends!AtOnce

(* Every step of a Send keeps the invariant.                               *)
LEMMA SendStep == SendInv /\ [Sends!Next]_(Sends!vars) => SendInv'
<1>. SUFFICES ASSUME SendInv, [Sends!Next]_(Sends!vars) PROVE SendInv'
  OBVIOUS
<1>1. CASE Sends!Attempts \/ Sends!Cancel \/ UNCHANGED Sends!vars
  BY <1>1, AttemptsStep
<1>2. CASE Sends!HedgeSelect \/ Sends!HedgeDrain \/ Sends!HedgeGivesUp
  BY <1>2, HedgeStep
<1>3. CASE Sends!QuorumCollect
  BY <1>3, QuorumStep
<1>4. CASE Sends!FanoutCollect
  BY <1>4, FanoutStep
<1>5. ASSUME NEW a \in Sends!Attempt, Sends!Deliver(a) PROVE SendInv'
  BY <1>5, DeliverStep
<1>6. CASE Sends!InSequence
  <2>0. kind \in Sends!SequentialKinds /\ UNCHANGED <<kind, i>> /\ Sends!S!Sequential
    BY <1>6 DEF Sends!InSequence
  <2>1. CASE Sends!S!CallNext
    BY <2>0, <2>1, CallNextStep
  <2>2. CASE Sends!S!DropUnmatched
    <3>1. /\ pc = "ready" /\ pc' = "returned" /\ answer' = "nil" /\ Sends!S!Untried = {}
          /\ UNCHANGED <<attempts, next, err, results, taken, cancelled>>
      BY <2>2 DEF Sends!S!DropUnmatched, Sends!S!Return, Sends!S!goroutines
    <3>. QED
      BY <2>0, <3>1, CallerMoves
  <2>3. CASE Sends!S!WaitOver
    <3>1. /\ pc = "waiting" /\ pc' = "ready"
          /\ UNCHANGED <<attempts, next, err, results, taken, cancelled, answer>>
      BY <2>3 DEF Sends!S!WaitOver, Sends!S!goroutines
    <3>. QED
      BY <2>0, <3>1, CallerMoves
  <2>4. CASE Sends!S!WaitCancelled
    <3>1. /\ pc = "waiting" /\ pc' = "returned" /\ answer' = "ctx" /\ cancelled
          /\ UNCHANGED <<attempts, next, err, results, taken, cancelled>>
      BY <2>4 DEF Sends!S!WaitCancelled, Sends!S!Return, Sends!S!goroutines
    <3>. QED
      BY <2>0, <3>1, CallerMoves
  <2>5. ASSUME NEW a \in Sends!Attempt, Sends!S!Answered(a) PROVE SendInv'
    BY <2>0, <2>5, AnsweredStep
  <2>. QED
    BY <2>0, <2>1, <2>2, <2>3, <2>4, <2>5, TotalFacts DEF Sends!S!Sequential
<1>. QED
  BY <1>1, <1>2, <1>3, <1>4, <1>5, <1>6 DEF Sends!Next, Sends!Caller

(* The invariant of a Send, of whichever dispatcher.                       *)
THEOREM SendInductive == Sends!Spec => []SendInv
BY SendInit, SendStep, PTL DEF Sends!Spec

(* For any number of targets, any of which may hang for ever, and any      *)
(* quorum: whatever a Send of a hedge, a quorum, a fan-out or a sequence   *)
(* tells its caller is what the targets did.                               *)
THEOREM AnswersJustified == Sends!Spec => []AnswerJustified
<1>1. SendInv => AnswerJustified
  BY JustifiedMeans DEF SendInv
<1>. QED
  BY <1>1, SendInductive, PTL

(* No target in a sequence is called while or after one that ends it.      *)
THEOREM CalledOneAtATime == Sends!Spec => []OneAtATime
<1>1. SendInv => OneAtATime
  BY DEF SendInv
<1>. QED
  BY <1>1, SendInductive, PTL

-----------------------------------------------------------------------------
(* 5. All of them in one model.                                            *)

(* A behaviour of the model is one of a Send, of a batcher, of a queue, of *)
(* a digest and of a shadow dispatcher.                                    *)
THEOREM EachDelivers ==
  MCSpec => Sends!Spec /\ Batches!Spec /\ Spec /\ Digests!Spec /\ Shadows!Spec
<1>1. MCInit => Sends!Init /\ Batches!Init /\ Init /\ Digests!Init /\ Shadows!Init
  BY DEF MCInit
<1>2. ASSUME [MCNext]_all
      PROVE  /\ [Sends!Next]_(Sends!vars) /\ [Batches!Next]_(Batches!vars) /\ [Next]_vars
             /\ [Digests!Next]_(Digests!vars) /\ [Shadows!Next]_(Shadows!vars)
  <2>v. /\ UNCHANGED send => UNCHANGED Sends!vars
        /\ UNCHANGED batcher => UNCHANGED Batches!vars
        /\ UNCHANGED digest => UNCHANGED Digests!vars
        /\ UNCHANGED shadows => UNCHANGED Shadows!vars
    BY DEF send, batcher, digest, shadows, Sends!vars, Sends!hedging, Batches!vars,
       Digests!vars, Shadows!vars
  <2>1. CASE InSend(Sends!Next)
    BY <2>1, <2>v DEF InSend
  <2>2. CASE InBatcher(Batches!Next)
    BY <2>2, <2>v DEF InBatcher
  <2>3. CASE InQueue(Next)
    BY <2>3, <2>v DEF InQueue
  <2>4. CASE InDigest(Digests!Next)
    BY <2>4, <2>v DEF InDigest
  <2>5. CASE InShadow(Shadows!Next)
    BY <2>5, <2>v DEF InShadow
  <2>6. CASE UNCHANGED all
    <3>1. UNCHANGED send /\ UNCHANGED batcher /\ UNCHANGED vars /\ UNCHANGED digest /\ UNCHANGED shadows
      BY <2>6 DEF all
    <3>. QED
      BY <3>1, <2>v
  <2>. QED
    BY <1>2, <2>1, <2>2, <2>3, <2>4, <2>5, <2>6 DEF MCNext
<1>. QED
  BY <1>1, <1>2, PTL DEF MCSpec, Sends!Spec, Batches!Spec, Spec, Digests!Spec, Shadows!Spec

(* Whatever interleaves, a notification handed to a batcher, a priority    *)
(* queue or a digest is in one place, once.                                *)
THEOREM HandedOn == MCSpec => []HandedOnOnce
BY EachDelivers, BatchedOnce, NothingLost, DigestedOnce, PTL DEF HandedOnOnce

(* Every state of the five has its type.                                   *)
THEOREM DeliveryTypeCorrect == MCSpec => []DeliveryTypeOK
<1>1. SendInv /\ BatcherInv /\ IInv /\ DigestInv /\ ShadowInv => DeliveryTypeOK
  BY SendTypes DEF SendInv, BatcherInv, IInv, DigestInv, ShadowInv, DeliveryTypeOK
<1>2. Batches!Spec => []BatcherInv
  BY BatcherInit, BatcherStep, PTL DEF Batches!Spec
<1>3. Digests!Spec => []DigestInv
  BY DigestInit, DigestStep, PTL DEF Digests!Spec
<1>4. Shadows!Spec => []ShadowInv
  BY ShadowInit, ShadowStep, PTL DEF Shadows!Spec
<1>. QED
  BY <1>1, <1>2, <1>3, <1>4, EachDelivers, SendInductive, Inductive, PTL

-----------------------------------------------------------------------------
(* 6. What happens in the end.  The provers do not know ENABLED, so here   *)
(* fairness says what weak fairness means for these steps: whoever can     *)
(* take a step for ever, by the guard that the code has, takes it.         *)

(* An attempt ends by its deadline at the latest.                          *)
AttemptGoesOn(a) ==
  []([](attempts[a] = "running") => <><<Sends!AttemptGoesOn(a)>>_(Sends!vars))

(* A goroutine with an answer puts it on the channel when there is room.   *)
MayDeliver(a) ==
  kind \in Sends!AtOnce /\ attempts[a] = "blocked" /\ Len(results) < Sends!Total
DeliveryGoesOn(a) == []([]MayDeliver(a) => <><<Sends!Deliver(a)>>_(Sends!vars))

(* The caller of a sequence takes the answer that it waits for.            *)
MayTakeAnswer ==
  /\ kind \in Sends!SequentialKinds /\ pc = "calling"
  /\ \E a \in Sends!Attempt : attempts[a] = "blocked"
CallerGoesOn == []([]MayTakeAnswer => <><<Sends!Caller>>_(Sends!vars))

GoroutinesGoOn ==
  /\ \A a \in Sends!Attempt : AttemptGoesOn(a)
  /\ \A a \in Sends!Attempt : DeliveryGoesOn(a)
  /\ CallerGoesOn

(* A goroutine that has an answer finds room for it on the channel, or is  *)
(* the one that the caller waits for.                                      *)
LEMMA BlockedCanGoOn ==
  ASSUME SendInv, NEW a \in Sends!Attempt, attempts[a] = "blocked"
  PROVE  MayDeliver(a) \/ MayTakeAnswer
<1>1. Types /\ ResultsOK /\ SequenceOK /\ AttemptOK(a)
  BY DEF SendInv
<1>2. CASE kind \in Sends!SequentialKinds
  <2>1. a \in Sends!Called
    BY <1>1 DEF AttemptOK, Sends!Called
  <2>2. pc = "calling"
    BY <1>1, <1>2, <2>1 DEF SequenceOK
  <2>. QED
    BY <1>2, <2>2 DEF MayTakeAnswer
<1>3. CASE kind \in Sends!AtOnce
  <2>1. results \in Seq(Sends!Attempt) /\ Len(results) <= Sends!Total
    BY <1>1 DEF Types
  <2>2. Len(results) \in Nat /\ DOMAIN results = 1 .. Len(results)
    BY <2>1
  <2>3. CASE Len(results) = Sends!Total
    <3>1. \A n \in 1 .. Sends!Total : results[n] \in Sends!Attempt \ {a}
      <4>1. a \notin Waiting
        BY <1>1 DEF ResultsOK
      <4>. QED
        BY <2>1, <2>2, <2>3, <4>1 DEF Waiting
    <3>2. \A m, n \in 1 .. Sends!Total : results[m] = results[n] => m = n
      BY <1>1, <2>2, <2>3 DEF Types
    <3>3. /\ IsFiniteSet(Sends!Attempt) /\ Cardinality(Sends!Attempt) = Sends!Total
          /\ IsFiniteSet(1 .. Sends!Total) /\ Cardinality(1 .. Sends!Total) = Sends!Total
      BY TotalFacts, FS_Interval
    <3>4. IsFiniteSet(Sends!Attempt \ {a}) /\ Cardinality(Sends!Attempt \ {a}) = Sends!Total - 1
      BY <3>3, FS_RemoveElement
    <3>5. results \in [1 .. Sends!Total -> Sends!Attempt \ {a}]
      BY <2>1, <2>2, <2>3, <3>1
    <3>6. PICK m, n \in 1 .. Sends!Total : m # n /\ results[m] = results[n]
      BY <3>3, <3>4, <3>5, FS_PigeonHole, TotalFacts
    <3>. QED
      BY <3>2, <3>6
  <2>4. CASE Len(results) < Sends!Total
    BY <1>3, <2>4 DEF MayDeliver
  <2>5. Len(results) = Sends!Total \/ Len(results) < Sends!Total
    <3>1. Len(results) \in Nat /\ Sends!Total \in Nat /\ Len(results) <= Sends!Total
      BY <2>1, <2>2, TotalFacts
    <3>. QED
      BY <3>1
  <2>. QED
    BY <2>3, <2>4, <2>5
<1>. QED
  BY <1>1, <1>2, <1>3, KindFacts DEF Types

(* An attempt is launched, answers, and hands its answer over: no step of  *)
(* anybody takes it back or skips one of these.                            *)
LEMMA AttemptAdvances ==
  ASSUME SendInv, [Sends!Next]_(Sends!vars), NEW a \in Sends!Attempt
  PROVE  /\ kind' = kind
         /\ attempts[a] = "running" => attempts'[a] \in {"running", "blocked"}
         /\ attempts[a] = "blocked" => attempts'[a] \in {"blocked", "done"}
<1>0. attempts \in [Sends!Attempt -> {"none", "running", "blocked", "done"}]
  BY DEF SendInv, Types
<1>. DEFINE Sets(b, to) == attempts' = [attempts EXCEPT ![b] = to]
<1>1. ASSUME NEW b \in Sends!Attempt,
             \/ attempts[b] = "none" /\ Sets(b, "running")
             \/ attempts[b] = "running" /\ Sets(b, "blocked")
             \/ attempts[b] = "blocked" /\ Sets(b, "done"),
             kind' = kind
      PROVE  /\ kind' = kind
             /\ attempts[a] = "running" => attempts'[a] \in {"running", "blocked"}
             /\ attempts[a] = "blocked" => attempts'[a] \in {"blocked", "done"}
  BY <1>0, <1>1
<1>2. CASE Sends!Attempts
  <2>1. PICK b \in Sends!Attempt : \/ Sends!H!NextReturns(b)
                                   \/ Sends!H!PassOn(b) \/ Sends!H!TimeOut(b)
    BY <1>2, TotalFacts DEF Sends!Attempts, Sends!H!Attempts
  <2>2. kind' = kind
    BY <1>2 DEF Sends!Attempts
  <2>3. CASE Sends!H!NextReturns(b)
    BY <2>2, <2>3 DEF Sends!H!NextReturns
  <2>4. CASE Sends!H!PassOn(b) \/ Sends!H!TimeOut(b)
    <3>1. attempts[b] = "running" /\ Sets(b, "blocked")
      BY <2>4 DEF Sends!H!PassOn, Sends!H!TimeOut, Sends!H!Answer
    <3>. HIDE DEF Sets
    <3>. QED
      BY <1>1, <2>2, <3>1
  <2>. QED
    BY <2>1, <2>3, <2>4
<1>3. CASE Sends!HedgeSelect
  <2>1. kind' = kind
    BY <1>3 DEF Sends!HedgeSelect
  <2>2. CASE Sends!H!SelectDone \/ Sends!H!SelectResult
    BY <2>1, <2>2 DEF Sends!H!SelectDone, Sends!H!SelectResult, Sends!H!goroutines
  <2>3. CASE Sends!H!SelectTimer
    <3>1. PICK b \in Sends!Attempt : attempts[b] = "none" /\ Sets(b, "running")
      BY <2>3, TotalFacts DEF Sends!H!SelectTimer, Sends!H!Launch, Sends!H!Launched
    <3>. HIDE DEF Sets
    <3>. QED
      BY <1>1, <2>1, <3>1
  <2>. QED
    BY <1>3, <2>2, <2>3 DEF Sends!HedgeSelect, Sends!H!Select
<1>4. CASE \/ Sends!Cancel \/ Sends!HedgeDrain \/ Sends!HedgeGivesUp
           \/ Sends!QuorumCollect \/ Sends!FanoutCollect
  BY <1>4 DEF Sends!Cancel, Sends!H!Cancel, Sends!HedgeDrain, Sends!H!Drain,
     Sends!HedgeGivesUp, Sends!H!ReturnLastErr, Sends!QuorumCollect, Sends!Q!Collect,
     Sends!FanoutCollect, Sends!F!Collect, Sends!H!goroutines, Sends!Q!goroutines,
     Sends!F!goroutines
<1>5. CASE Sends!InSequence
  <2>1. kind' = kind /\ Sends!S!Sequential
    BY <1>5 DEF Sends!InSequence
  <2>2. CASE Sends!S!DropUnmatched \/ Sends!S!WaitOver \/ Sends!S!WaitCancelled
    BY <2>1, <2>2 DEF Sends!S!DropUnmatched, Sends!S!WaitOver, Sends!S!WaitCancelled,
       Sends!S!goroutines
  <2>3. CASE Sends!S!CallNext
    <3>1. PICK b \in Sends!Attempt : attempts[b] = "none" /\ Sets(b, "running")
      BY <2>3, TotalFacts DEF Sends!S!CallNext, Sends!S!Launch, Sends!S!Untried
    <3>. HIDE DEF Sets
    <3>. QED
      BY <1>1, <2>1, <3>1
  <2>4. ASSUME NEW b \in Sends!Attempt, Sends!S!Answered(b)
        PROVE  attempts[b] = "blocked" /\ Sets(b, "done")
    BY <2>4 DEF Sends!S!Answered
  <2>. HIDE DEF Sets
  <2>. QED
    BY <1>1, <2>1, <2>2, <2>3, <2>4, TotalFacts DEF Sends!S!Sequential
<1>6. ASSUME NEW b \in Sends!Attempt, Sends!Deliver(b)
      PROVE  attempts[b] = "blocked" /\ Sets(b, "done") /\ kind' = kind
  BY <1>6 DEF Sends!Deliver, Sends!H!Deliver
<1>7. CASE UNCHANGED Sends!vars
  BY <1>7 DEF Sends!vars
<1>. HIDE DEF Sets
<1>. QED
  BY <1>1, <1>2, <1>3, <1>4, <1>5, <1>6, <1>7 DEF Sends!Next, Sends!Caller

(* In a sequence, what the caller does while a target's answer is waiting  *)
(* is to take that answer.                                                 *)
LEMMA CallerTakesAnswer ==
  ASSUME SendInv, kind \in Sends!SequentialKinds, Sends!Caller,
         NEW a \in Sends!Attempt, attempts[a] = "blocked"
  PROVE  attempts'[a] = "done"
<1>1. Types /\ SequenceOK /\ AttemptOK(a) /\ a \in Sends!Called
  BY DEF SendInv, AttemptOK, Sends!Called
<1>2. pc = "calling" /\ \A b \in Sends!Called \ {a} : attempts[b] = "done"
  BY <1>1 DEF SequenceOK
<1>3. Sends!InSequence
  BY DEF Sends!Caller, Sends!SequentialKinds, Sends!HedgeSelect, Sends!HedgeDrain,
     Sends!HedgeGivesUp, Sends!QuorumCollect, Sends!FanoutCollect
<1>4. PICK b \in Sends!Attempt : Sends!S!Answered(b)
  BY <1>2, <1>3, TotalFacts DEF Sends!InSequence, Sends!S!Sequential, Sends!S!CallNext,
     Sends!S!DropUnmatched, Sends!S!WaitOver, Sends!S!WaitCancelled
<1>5. attempts[b] = "blocked" /\ attempts' = [attempts EXCEPT ![b] = "done"]
  BY <1>4 DEF Sends!S!Answered
<1>6. b \in Sends!Called
  <2>1. AttemptOK(b)
    BY DEF SendInv
  <2>. QED
    BY <1>5, <2>1 DEF AttemptOK, Sends!Called
<1>7. b = a
  BY <1>2, <1>5, <1>6
<1>. QED
  BY <1>1, <1>5, <1>7 DEF Types

AttemptEnds(a) == attempts[a] = "running" ~> attempts[a] = "done"

(* An attempt that is running answers, by its deadline if need be, and its *)
(* answer is received or finds room on the channel.                        *)
LEMMA EachAttemptEnds ==
  ASSUME NEW a \in Sends!Attempt
  PROVE  Sends!Spec /\ AttemptGoesOn(a) /\ DeliveryGoesOn(a) /\ CallerGoesOn => AttemptEnds(a)
<1>. DEFINE R == attempts[a] = "running"
            AtOnce == attempts[a] = "blocked" /\ kind \in Sends!AtOnce
            InTurn == attempts[a] = "blocked" /\ kind \in Sends!SequentialKinds
            D == attempts[a] = "done"
<1>0. Sends!AtOnce \cap Sends!SequentialKinds = {}
      /\ (SendInv => kind \in Sends!AtOnce \/ kind \in Sends!SequentialKinds)
      /\ Sends!AtOnce' = Sends!AtOnce /\ Sends!SequentialKinds' = Sends!SequentialKinds
  BY KindFacts DEF SendInv, Types, Sends!AtOnce, Sends!SequentialKinds
<1>1. SendInv /\ SendInv' /\ R /\ [Sends!Next]_(Sends!vars) => R' \/ AtOnce' \/ InTurn'
  BY <1>0, AttemptAdvances
<1>2. SendInv /\ SendInv' /\ R /\ <<Sends!AttemptGoesOn(a)>>_(Sends!vars) => AtOnce' \/ InTurn'
  <2>. SUFFICES ASSUME SendInv, SendInv', R, Sends!AttemptGoesOn(a) PROVE AtOnce' \/ InTurn'
    OBVIOUS
  <2>1. attempts' = [attempts EXCEPT ![a] = "blocked"] /\ kind' = kind
    BY DEF Sends!AttemptGoesOn, Sends!H!PassOn, Sends!H!TimeOut, Sends!H!Answer
  <2>2. attempts'[a] = "blocked"
    BY <2>1 DEF SendInv, Types
  <2>. QED
    BY <1>0, <2>1, <2>2
<1>3. SendInv /\ AtOnce /\ [Sends!Next]_(Sends!vars) => AtOnce' \/ D'
  BY <1>0, AttemptAdvances
<1>4. SendInv /\ AtOnce => MayDeliver(a)
  BY <1>0, BlockedCanGoOn DEF MayTakeAnswer
<1>5. SendInv /\ AtOnce /\ <<Sends!Deliver(a)>>_(Sends!vars) => D'
  BY DEF Sends!Deliver, Sends!H!Deliver, SendInv, Types
<1>6. SendInv /\ InTurn /\ [Sends!Next]_(Sends!vars) => InTurn' \/ D'
  BY <1>0, AttemptAdvances
<1>7. SendInv /\ InTurn => MayTakeAnswer
  BY <1>0, BlockedCanGoOn DEF MayDeliver
<1>8. SendInv /\ InTurn /\ <<Sends!Caller>>_(Sends!vars) => D'
  BY CallerTakesAnswer
<1>. HIDE DEF AtOnce, InTurn
<1>. QED
  BY <1>1, <1>2, <1>3, <1>4, <1>5, <1>6, <1>7, <1>8, SendInductive, PTL
     DEF Sends!Spec, AttemptGoesOn, DeliveryGoesOn, CallerGoesOn, AttemptEnds

(* No goroutine of a Send is left behind: whichever way and whenever the   *)
(* caller returned, and for any number of targets, each attempt ends.      *)
THEOREM AttemptsAllEnd == Sends!Spec /\ GoroutinesGoOn => AttemptsEnd
<1>. SUFFICES ASSUME NEW a \in Sends!Attempt
              PROVE  Sends!Spec /\ GoroutinesGoOn => AttemptEnds(a)
  BY DEF AttemptsEnd, Sends!AttemptsEnd, AttemptEnds
<1>1. GoroutinesGoOn => AttemptGoesOn(a) /\ DeliveryGoesOn(a) /\ CallerGoesOn
  BY DEF GoroutinesGoOn
<1>. QED
  BY <1>1, EachAttemptEnds, PTL

(* The batcher's ticker ticks while Run does not return, Run takes a case  *)
(* of its select that is ready, and the goroutine that has a notification  *)
(* in its batch calls flushFn, which returns.                              *)
Holds(s, n) == \E m \in DOMAIN s : s[m] = n
HandedOver(n) == \E k \in DOMAIN batches \ handled : Holds(batches[k], n)
FlushFnReturns(n) ==
  /\ \E k \in DOMAIN batches \ handled :
       Holds(batches[k], n) /\ handled' = handled \cup {k}
  /\ UNCHANGED <<buf, ticked, run, batches, added>>

MayTick == run # "returned" /\ ticked = "empty"
RunReady == run = "cancelled" \/ (run = "running" /\ ticked = "tick")
TickerGoesOn == []([]MayTick => <><<Batches!TickerFires>>_(Batches!vars))
RunGoesOn == []([]RunReady => <><<Batches!Run>>_(Batches!vars))
FlushFnGoesOn(n) == []([]HandedOver(n) => <><<FlushFnReturns(n)>>_(Batches!vars))

BatcherGoesOn == TickerGoesOn /\ RunGoesOn /\ \A n \in Nat : FlushFnGoesOn(n)

(* What was added while Run runs has not got lost on the way.              *)
LEMMA AddedIsSomewhere ==
  ASSUME BatcherInv, added # 0
  PROVE  Holds(buf, added) \/ HandedOver(added) \/ Batches!InBatches(added)
<1>1. /\ added = Batches!EndOfBatches + Len(buf) /\ Len(buf) \in Nat /\ DOMAIN buf = 1 .. Len(buf)
      /\ \A n \in DOMAIN buf : buf[n] = Batches!EndOfBatches + n
  BY DEF BatcherInv, Batches!EachInOneBatch, Batches!TypeOK
<1>2. Batches!EndOfBatches \in Nat
  BY EndFacts
<1>3. CASE Len(buf) > 0
  <2>1. Len(buf) \in DOMAIN buf /\ buf[Len(buf)] = added
    BY <1>1, <1>3
  <2>. QED
    BY <2>1 DEF Holds
<1>4. CASE Len(buf) = 0
  <2>1. added = Batches!EndOfBatches /\ batches # <<>>
    BY <1>1, <1>2, <1>4 DEF Batches!EndOfBatches
  <2>. DEFINE k == Len(batches)
              m == Len(batches[k])
  <2>0. batches \in Seq(Seq(Nat))
    BY DEF BatcherInv, Batches!TypeOK
  <2>2. k \in DOMAIN batches /\ DOMAIN batches = 1 .. k
    BY <2>0, <2>1
  <2>3. m \in DOMAIN batches[k]
    <3>1. batches[k] \in Seq(Nat) /\ m \in 1 .. Batches!MaxSize
      <4>1. m \in 1 .. Batches!MaxSize
        BY <2>2 DEF BatcherInv, Batches!EachInOneBatch
      <4>2. batches[k] \in Seq(Nat)
        <5>. HIDE DEF k
        <5>. QED
          BY <2>0, <2>2
      <4>. QED
        BY <4>1, <4>2
    <3>. QED
      BY <3>1, BatchSizeFacts
  <2>4. batches[k][m] = added
    BY <2>1 DEF Batches!EndOfBatches
  <2>. HIDE DEF k, m
  <2>. QED
    BY <2>2, <2>3, <2>4 DEF HandedOver, Holds, Batches!InBatches
<1>. QED
  BY <1>1, <1>3, <1>4

(* A flush hands over what is in the buffer, and nothing that has been     *)
(* handed over is taken back.                                              *)
LEMMA FlushHandsOver ==
  ASSUME BatcherInv, NEW s, s \in Seq(Nat), NEW n, Holds(s, n),
         Batches!Flush(s), UNCHANGED handled
  PROVE  HandedOver(n)'
<1>1. batches \in Seq(Seq(Nat)) /\ handled \subseteq DOMAIN batches /\ s # <<>>
  <2>1. s # <<>>
    BY DEF Holds
  <2>. QED
    BY <2>1 DEF BatcherInv, Batches!TypeOK
<1>2. batches' = Append(batches, s)
  BY <1>1 DEF Batches!Flush, Batches!FlushNonempty
<1>. DEFINE k == Len(batches) + 1
<1>3. k \in DOMAIN batches' /\ batches'[k] = s /\ k \notin DOMAIN batches
  BY <1>1, <1>2
<1>. HIDE DEF k
<1>. QED
  BY <1>1, <1>3 DEF HandedOver

(* The batches only become more.                                           *)
LEMMA BatchesStay ==
  ASSUME BatcherInv, [Batches!Next]_(Batches!vars)
  PROVE  /\ \A k \in DOMAIN batches : k \in DOMAIN batches' /\ batches'[k] = batches[k]
         /\ handled \subseteq handled'
<1>1. batches \in Seq(Seq(Nat))
  BY DEF BatcherInv, Batches!TypeOK
<1>2. ASSUME NEW s \in Seq(Nat), Batches!Flush(s)
      PROVE  \A k \in DOMAIN batches : k \in DOMAIN batches' /\ batches'[k] = batches[k]
  <2>1. batches' = batches \/ batches' = Append(batches, s)
    BY <1>2 DEF Batches!Flush, Batches!FlushNonempty
  <2>2. /\ DOMAIN Append(batches, s) = 1 .. Len(batches) + 1
        /\ \A k \in 1 .. Len(batches) : Append(batches, s)[k] = batches[k]
        /\ DOMAIN batches = 1 .. Len(batches) /\ Len(batches) \in Nat
    BY <1>1
  <2>3. \A k \in DOMAIN batches : k \in DOMAIN Append(batches, s)
    BY <2>2
  <2>. QED
    BY <2>1, <2>2, <2>3
<1>3. buf \in Seq(Nat) /\ added \in Nat /\ Append(buf, added + 1) \in Seq(Nat)
  BY BoundsAssumption DEF BatcherInv, Batches!TypeOK
<1>. QED
  BY <1>2, <1>3 DEF Batches!Next, Batches!Add, Batches!TickerFires, Batches!Cancel,
     Batches!Run, Batches!RunTick, Batches!RunDone, Batches!FlushFn, Batches!vars

BatchHandled(n) == (added = n /\ run # "returned") ~> Batches!InBatches(n)

(* A notification that was added leaves the buffer with the next tick, or  *)
(* when Run is told to stop, and its batch is handed on.                   *)
LEMMA EachHandled ==
  ASSUME NEW n \in Nat \ {0}
  PROVE  Batches!Spec /\ TickerGoesOn /\ RunGoesOn /\ FlushFnGoesOn(n) => BatchHandled(n)
<1>. DEFINE Added == added = n /\ run # "returned"
            Before == Holds(buf, n) /\ run # "returned" /\ ticked = "empty"
            Ticked == Holds(buf, n) /\ run # "returned" /\ ticked = "tick"
            Over == HandedOver(n)
            Done == Batches!InBatches(n)
<1>t. BatcherInv => /\ ticked \in {"tick", "empty"} /\ run \in {"running", "cancelled", "returned"}
                    /\ buf \in Seq(Nat) /\ added \in Nat /\ batches \in Seq(Seq(Nat))
  BY BoundsAssumption DEF BatcherInv, Batches!TypeOK
<1>1. BatcherInv /\ Added => Before \/ Ticked \/ Over \/ Done
  BY <1>t, AddedIsSomewhere
<1>2. ASSUME BatcherInv, [Batches!Next]_(Batches!vars), Holds(buf, n), run # "returned"
      PROVE  \/ Over'
             \/ /\ Holds(buf, n)' /\ run' # "returned"
                /\ ~ Batches!Run
                /\ ticked' = ticked \/ Batches!TickerFires
  <2>1. CASE Batches!Add
    <3>. DEFINE s == Append(buf, added + 1)
    <3>1. s \in Seq(Nat) /\ Holds(s, n)
      <4>1. buf \in Seq(Nat) /\ added + 1 \in Nat
        BY <1>2, <1>t
      <4>2. PICK m \in DOMAIN buf : buf[m] = n
        BY <1>2 DEF Holds
      <4>3. s \in Seq(Nat) /\ m \in DOMAIN s /\ s[m] = n
        BY <4>1, <4>2
      <4>. HIDE DEF s
      <4>. QED
        BY <4>3 DEF Holds
    <3>2. CASE Batches!Flush(s)
      BY <1>2, <2>1, <3>1, <3>2, FlushHandsOver DEF Batches!Add
    <3>3. CASE buf' = s
      <4>1. run' = run /\ ticked' = ticked /\ added' # added
        BY <1>2, <1>t, <2>1 DEF Batches!Add
      <4>2. ~ Batches!Run
        BY <4>1, <1>t, <1>2 DEF Batches!Run, Batches!RunTick, Batches!RunDone
      <4>. QED
        BY <1>2, <3>1, <3>3, <4>1, <4>2 DEF Holds
    <3>. QED
      BY <2>1, <3>2, <3>3 DEF Batches!Add
  <2>2. CASE Batches!Run
    BY <1>2, <1>t, <2>2, FlushHandsOver DEF Batches!Run, Batches!RunTick, Batches!RunDone
  <2>3. CASE ~ Batches!Run /\ (Batches!TickerFires \/ Batches!Cancel \/ Batches!FlushFn \/ UNCHANGED Batches!vars)
    BY <1>2, <2>3 DEF Batches!TickerFires, Batches!Cancel, Batches!FlushFn, Batches!vars, Holds
  <2>. QED
    BY <1>2, <2>1, <2>2, <2>3 DEF Batches!Next
<1>3. BatcherInv /\ Before /\ [Batches!Next]_(Batches!vars) => Before' \/ Ticked' \/ Over'
  BY <1>2 DEF Batches!TickerFires
<1>4. Before => MayTick
  BY DEF MayTick
<1>5. Before /\ <<Batches!TickerFires>>_(Batches!vars) => Ticked' \/ Over'
  BY DEF Batches!TickerFires, Holds
<1>6. BatcherInv /\ Ticked /\ [Batches!Next]_(Batches!vars) => Ticked' \/ Over'
  BY <1>2 DEF Batches!TickerFires
<1>7. BatcherInv /\ Ticked => RunReady
  BY <1>t DEF RunReady
<1>8. BatcherInv /\ Ticked /\ [Batches!Next]_(Batches!vars) /\ <<Batches!Run>>_(Batches!vars) => Over'
  BY <1>2
<1>9. BatcherInv /\ Over /\ [Batches!Next]_(Batches!vars) => Over' \/ Done'
  BY BatchesStay DEF HandedOver, Batches!InBatches, Holds
<1>10. BatcherInv /\ Over /\ <<FlushFnReturns(n)>>_(Batches!vars) => Done'
  BY DEF FlushFnReturns, Batches!InBatches, Holds
<1>11. Batches!Spec => []BatcherInv
  BY BatcherInit, BatcherStep, PTL DEF Batches!Spec
<1>. HIDE DEF Added, Before, Ticked, Done
<1>12. Batches!Spec /\ TickerGoesOn /\ RunGoesOn /\ FlushFnGoesOn(n) => (Added ~> Done)
  BY <1>1, <1>3, <1>4, <1>5, <1>6, <1>7, <1>8, <1>9, <1>10, <1>11, PTL
     DEF Batches!Spec, TickerGoesOn, RunGoesOn, FlushFnGoesOn
<1>. QED
  BY <1>12 DEF BatchHandled, Added, Done

(* Nothing stays in a batcher: what is added while Run runs is handled,    *)
(* full batch or not, for any batch size and any number of notifications.  *)
THEOREM BatchedInTheEnd == Batches!Spec /\ BatcherGoesOn => Batches!HandledInTheEnd
<1>. SUFFICES ASSUME NEW n \in 1 .. MaxAdds
              PROVE  Batches!Spec /\ BatcherGoesOn => BatchHandled(n)
  BY DEF Batches!HandledInTheEnd, BatchHandled
<1>1. n \in Nat \ {0}
  BY BoundsAssumption
<1>2. BatcherGoesOn => TickerGoesOn /\ RunGoesOn /\ FlushFnGoesOn(n)
  BY <1>1 DEF BatcherGoesOn
<1>. QED
  BY <1>1, <1>2, EachHandled, PTL
=============================================================================
