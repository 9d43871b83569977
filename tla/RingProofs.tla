----------------------------- MODULE RingProofs -----------------------------
(* The circular buffer implements the bounded log, for any capacity, any   *)
(* number of recorders and any events.                                     *)
EXTENDS Ring, SequenceTheorems, FiniteSetTheorems, WellFoundedInduction, TLAPS

(* Of the events retained for a port, the newest shows its latest state.   *)
NewestIsLatest ==
  \A k \in 1 .. count :
    (\A m \in k + 1 .. count : Snapshot[m].port # Snapshot[k].port) =>
      /\ Snapshot[k].port \in PortIds
      /\ Snapshot[k].state = latest[Snapshot[k].port]

(* As long as Record calls were apart: no retained event is older than one *)
(* recorded before it, and the event being recorded is the only one under  *)
(* way and not older than any of them.                                     *)
RecordedInTime ==
  apart = "yes" =>
    /\ Chronological(Snapshot)
    /\ \A k \in 1 .. count : Snapshot[k].time <= now
    /\ \A r \in Recorders : pending[r] # Idle =>
         /\ pending[r][1].time <= now
         /\ \A k \in 1 .. count : Snapshot[k].time <= pending[r][1].time
         /\ \A q \in Recorders : pending[q] # Idle => q = r

IInv == TypeOK /\ Snapshot \in Seq(Event) /\ NewestIsLatest /\ RecordedInTime

(* Every event has a time of the clock, or one that was given.             *)
LEMMA EventTimes == \A e \in Event : e.time \in Nat
<1>1. \A t \in GivenTimes \cup 1 .. MaxTime : t \in Nat
  BY RingAssumption
<1>. QED
  BY <1>1 DEF Event

(* The normalised capacity is positive.                                    *)
LEMMA CapacityFacts == Capacity \in Nat \ {0}
BY RingAssumption DEF Capacity

(* The remainder of a number below twice the divisor.                      *)
LEMMA ModOneWrap ==
  ASSUME NEW c \in Nat \ {0}, NEW n \in 0 .. 2 * c - 1
  PROVE  n % c = IF n < c THEN n ELSE n - c
<1>1. CASE n < c
  BY <1>1, Z3T(30)
<1>2. CASE n >= c
  BY <1>2, Z3T(30)
<1>. QED
  BY <1>1, <1>2

(* The slot of the k-th of n events before slot h.                         *)
SlotAt(h, n, k) == (((h - n + Capacity) % Capacity) + (k - 1)) % Capacity

(* That slot without remainders: k - 1 - n steps from h, wrapping once.    *)
LEMMA SlotWraps ==
  ASSUME NEW h \in Slots, NEW n \in 0 .. Capacity, NEW k \in 1 .. n
  PROVE  /\ SlotAt(h, n, k) = IF h - n + k - 1 < 0 THEN h - n + k - 1 + Capacity
                              ELSE h - n + k - 1
         /\ SlotAt(h, n, k) \in Slots
<1>. USE CapacityFacts
<1>. DEFINE first == IF h < n THEN h - n + Capacity ELSE h - n
<1>1. h - n + Capacity \in 0 .. 2 * Capacity - 1
  BY DEF Slots
<1>2. (h - n + Capacity) % Capacity = first
  BY <1>1, ModOneWrap DEF Slots
<1>3. first + (k - 1) \in 0 .. 2 * Capacity - 1
  BY DEF Slots
<1>. HIDE DEF first
<1>4. (first + (k - 1)) % Capacity = IF first + (k - 1) < Capacity
                                       THEN first + (k - 1) ELSE (first + (k - 1)) - Capacity
  <2>. DEFINE m == first + (k - 1)
  <2>. HIDE DEF m
  <2>1. m \in 0 .. 2 * Capacity - 1
    BY <1>3 DEF m
  <2>2. m % Capacity = IF m < Capacity THEN m ELSE m - Capacity
    BY <2>1, ModOneWrap
  <2>. QED
    BY <2>2 DEF m
<1>5. SlotAt(h, n, k) = IF first + (k - 1) < Capacity
                          THEN first + (k - 1) ELSE (first + (k - 1)) - Capacity
  BY <1>2, <1>4 DEF SlotAt
<1>. QED
  BY <1>5 DEF first, Slots

(* Where the writer goes next, without a remainder.                        *)
LEMMA HeadWraps ==
  ASSUME NEW h \in Slots
  PROVE  (h + 1) % Capacity = IF h + 1 = Capacity THEN 0 ELSE h + 1
<1>. DEFINE m == h + 1
<1>1. m \in 0 .. 2 * Capacity - 1 /\ m <= Capacity
  BY CapacityFacts DEF Slots
<1>2. m < Capacity \/ m = Capacity
  BY <1>1, CapacityFacts
<1>. HIDE DEF m
<1>3. m % Capacity = IF m < Capacity THEN m ELSE m - Capacity
  BY <1>1, ModOneWrap, CapacityFacts
<1>4. m % Capacity = IF m = Capacity THEN 0 ELSE m
  BY <1>1, <1>2, <1>3, CapacityFacts
<1>. QED
  BY <1>4 DEF m

(* The events Snapshot returns, by slot.                                   *)
LEMMA SnapshotSlots ==
  Snapshot = [k \in 1 .. count |-> events[SlotAt(head, count, k)]]
BY DEF Snapshot, SlotAt, Oldest

(* One Insert is one Add of the bounded log.                               *)
LEMMA InsertAdds ==
  ASSUME TypeOK, Snapshot \in Seq(Event), NEW r \in Recorders, Insert(r)
  PROVE  /\ pending[r][1] \in Event
         /\ Snapshot' = IF count < Capacity
                          THEN Append(Snapshot, pending[r][1])
                          ELSE Append(Tail(Snapshot), pending[r][1])
         /\ TypeOK'
         /\ Len(Snapshot) = count
<1>. USE CapacityFacts
<1>. DEFINE e == pending[r][1]
<1>1. e \in Event
  BY DEF Insert, TypeOK
<1>2. head \in Slots /\ head \in Int /\ count \in 0 .. Capacity
  BY DEF TypeOK, Slots
<1>3. head' = (IF head + 1 = Capacity THEN 0 ELSE head + 1) /\ head' \in Slots
  BY <1>2, HeadWraps DEF Insert, NextHead, Slots
<1>4. count' = (IF count < Capacity THEN count + 1 ELSE Capacity)
  BY <1>2 DEF Insert, NextCount
<1>5. TypeOK'
  <2>1. events' \in [Slots -> Event \cup {ZeroEvent}]
    BY <1>1, <1>2 DEF Insert, TypeOK
  <2>2. pending' \in [Recorders -> {Idle} \cup {<<x>> : x \in Event}]
    BY DEF Insert, TypeOK
  <2>3. latest' \in [PortIds -> {"open", "closed", "unknown"}]
    BY <1>1 DEF Insert, TypeOK, Event
  <2>4. count' \in 0 .. Capacity
    BY <1>2, <1>4
  <2>. QED
    BY <1>3, <2>1, <2>2, <2>3, <2>4 DEF Insert, TypeOK
<1>6. /\ Len(Snapshot) = count
      /\ \A k \in 1 .. count : Snapshot[k] = events[SlotAt(head, count, k)]
  BY <1>2, SnapshotSlots
<1>7. Snapshot' = [k \in 1 .. count' |-> events'[SlotAt(head', count', k)]]
  BY DEF Snapshot, SlotAt, Oldest
<1>8. \A s \in Slots : events'[s] = IF s = head THEN e ELSE events[s]
  BY <1>2 DEF Insert, TypeOK
<1>9. /\ Len(Snapshot') = count'
      /\ \A k \in 1 .. count' : /\ Snapshot'[k] = events'[SlotAt(head', count', k)]
                                /\ SlotAt(head', count', k) \in Slots
  <2>1. count' \in 0 .. Capacity
    BY <1>5 DEF TypeOK
  <2>. QED
    BY <1>3, <1>7, <2>1, SlotWraps
<1>a. \A k \in 1 .. count :
        SlotAt(head, count, k) = IF head - count + k - 1 < 0
                                   THEN head - count + k - 1 + Capacity
                                   ELSE head - count + k - 1
  BY <1>2, SlotWraps
<1>b. \A k \in 1 .. count' :
        SlotAt(head', count', k) = IF head' - count' + k - 1 < 0
                                     THEN head' - count' + k - 1 + Capacity
                                     ELSE head' - count' + k - 1
  <2>1. count' \in 0 .. Capacity
    BY <1>5 DEF TypeOK
  <2>. QED
    BY <1>3, <2>1, SlotWraps
<1>10. CASE count < Capacity
  <2>1. \A k \in 1 .. count : SlotAt(head', count', k) = SlotAt(head, count, k)
    BY <1>2, <1>3, <1>4, <1>10, <1>a, <1>b DEF Slots
  <2>2. SlotAt(head', count', count + 1) = head
    BY <1>2, <1>3, <1>4, <1>10, <1>a, <1>b DEF Slots
  <2>3. \A k \in 1 .. count : SlotAt(head, count, k) # head
    BY <1>2, <1>10, <1>a, <1>b DEF Slots
  <2>4. ASSUME NEW k \in 1 .. count PROVE Snapshot'[k] = Snapshot[k]
    <3>1. k \in 1 .. count'
      BY <1>2, <1>4, <1>10
    <3>2. Snapshot'[k] = events'[SlotAt(head, count, k)] /\ SlotAt(head, count, k) \in Slots
      BY <1>9, <2>1, <3>1
    <3>. QED
      BY <1>6, <1>8, <2>3, <3>2
  <2>5. Snapshot'[count + 1] = e
    BY <1>2, <1>4, <1>8, <1>9, <1>10, <2>2
  <2>6. Snapshot' = Append(Snapshot, e)
    <3>1. Append(Snapshot, e) = [k \in 1 .. count + 1 |->
                                   IF k <= count THEN Snapshot[k] ELSE e]
      BY <1>1, <1>6
    <3>2. \A k \in 1 .. count + 1 : Snapshot'[k] = IF k <= count THEN Snapshot[k] ELSE e
      BY <1>2, <2>4, <2>5
    <3>. QED
      BY <1>2, <1>4, <1>7, <1>10, <3>1, <3>2
  <2>. QED
    BY <1>1, <1>5, <1>6, <1>10, <2>6
<1>11. CASE count = Capacity
  <2>1. ASSUME NEW k \in 1 .. count - 1
        PROVE  SlotAt(head', count', k) = SlotAt(head, count, k + 1)
    <3>1. k \in 1 .. count' /\ k + 1 \in 1 .. count /\ count' = count
      BY <1>2, <1>4, <1>11
    <3>2. SlotAt(head', count', k) = IF head' - count + k - 1 < 0
                                       THEN head' - count + k - 1 + Capacity
                                       ELSE head' - count + k - 1
      BY <1>b, <3>1
    <3>3. SlotAt(head, count, k + 1) = IF head - count + k < 0
                                         THEN head - count + k + Capacity
                                         ELSE head - count + k
      BY <1>a, <1>2, <3>1
    <3>. QED
      BY <1>2, <1>3, <1>11, <3>1, <3>2, <3>3 DEF Slots
  <2>2. SlotAt(head', count', count) = head
    BY <1>2, <1>3, <1>4, <1>11, <1>a, <1>b DEF Slots
  <2>3. \A k \in 2 .. count : SlotAt(head, count, k) # head
    BY <1>2, <1>11, <1>a, <1>b DEF Slots
  <2>4. ASSUME NEW k \in 1 .. count - 1 PROVE Snapshot'[k] = Snapshot[k + 1]
    <3>1. k \in 1 .. count' /\ k + 1 \in 2 .. count /\ k + 1 \in 1 .. count
      BY <1>2, <1>4, <1>11
    <3>2. /\ Snapshot'[k] = events'[SlotAt(head, count, k + 1)]
          /\ SlotAt(head, count, k + 1) \in Slots
      BY <1>9, <2>1, <3>1
    <3>. QED
      BY <1>6, <1>8, <2>3, <3>1, <3>2
  <2>5. Snapshot'[count] = e
    BY <1>2, <1>4, <1>8, <1>9, <1>11, <2>2
  <2>6. Snapshot' = Append(Tail(Snapshot), e)
    <3>1. Snapshot # <<>>
      BY <1>6, <1>11
    <3>2. /\ Tail(Snapshot) \in Seq(Event) /\ Len(Tail(Snapshot)) = count - 1
          /\ \A k \in 1 .. count - 1 : Tail(Snapshot)[k] = Snapshot[k + 1]
      BY <1>6, <3>1, HeadTailProperties
    <3>3. Append(Tail(Snapshot), e) = [k \in 1 .. count |->
                                         IF k <= count - 1 THEN Snapshot[k + 1] ELSE e]
      BY <1>1, <1>2, <1>11, <3>2
    <3>4. \A k \in 1 .. count : Snapshot'[k] = IF k <= count - 1 THEN Snapshot[k + 1] ELSE e
      BY <1>2, <1>11, <2>4, <2>5
    <3>5. count' = count
      BY <1>4, <1>11
    <3>6. Snapshot' = [k \in 1 .. count |-> Snapshot'[k]]
      BY <1>7, <3>5
    <3>. QED
      BY <3>3, <3>4, <3>6
  <2>. QED
    BY <1>1, <1>2, <1>5, <1>6, <1>11, <2>6
<1>. QED
  BY <1>2, <1>10, <1>11

(* An empty ring satisfies the invariant.                                  *)
LEMMA InitHolds == Init => IInv
<1>. SUFFICES ASSUME Init PROVE IInv
  OBVIOUS
<1>1. TypeOK
  BY CapacityFacts, RingAssumption DEF Init, TypeOK, Slots
<1>2. Snapshot = <<>>
  BY DEF Init, Snapshot
<1>. QED
  BY <1>1, <1>2 DEF Init, IInv, NewestIsLatest, RecordedInTime, Chronological

(* Every step keeps it; only Insert changes what readers see.              *)
LEMMA StepHolds == IInv /\ [Next]_vars => IInv'
<1>. SUFFICES ASSUME IInv, [Next]_vars PROVE IInv'
  OBVIOUS
<1>0. TypeOK /\ Snapshot \in Seq(Event) /\ NewestIsLatest /\ RecordedInTime
  BY DEF IInv
<1>1. ASSUME UNCHANGED <<ring, latest>>, TypeOK', RecordedInTime' PROVE IInv'
  <2>1. Snapshot' = Snapshot
    BY <1>1 DEF ring, Snapshot, Oldest
  <2>. QED
    BY <1>0, <1>1, <2>1 DEF IInv, NewestIsLatest, ring
<1>t. /\ now \in Nat /\ count \in Nat /\ count <= Capacity /\ Len(Snapshot) = count
      /\ \A k \in 1 .. count : Snapshot[k] \in Event /\ Snapshot[k].time \in Nat
  <2>1. count \in Nat /\ count <= Capacity /\ now \in Nat
    BY <1>0, CapacityFacts DEF TypeOK
  <2>2. Len(Snapshot) = count
    BY <2>1 DEF Snapshot
  <2>3. \A k \in 1 .. count : Snapshot[k] \in Event
    BY <1>0, <2>1, <2>2
  <2>. QED
    BY <2>1, <2>2, <2>3, EventTimes
<1>p. \A r \in Recorders : pending[r] # Idle => pending[r][1] \in Event
                                              /\ pending[r][1].time \in Nat
  BY <1>0, EventTimes DEF TypeOK
<1>2. CASE Tick
  <2>1. UNCHANGED <<ring, latest>> /\ Snapshot' = Snapshot
    BY <1>2 DEF Tick, ring, Snapshot, Oldest
  <2>2. now' \in 1 .. MaxTime
    BY <1>0, <1>2, RingAssumption DEF Tick, TypeOK
  <2>3. TypeOK'
    BY <1>0, <1>2, <2>2 DEF Tick, TypeOK, ring
  <2>4. RecordedInTime'
    <3>. SUFFICES ASSUME apart = "yes" PROVE RecordedInTime'
      BY <1>2 DEF Tick, RecordedInTime
    <3>1. now' = now + 1 /\ pending' = pending /\ count' = count
      BY <1>2 DEF Tick, ring
    <3>2. Chronological(Snapshot)'
      BY <1>0, <2>1 DEF RecordedInTime, Chronological
    <3>3. \A k \in 1 .. count : Snapshot[k].time <= now + 1
      BY <1>0, <1>t DEF RecordedInTime
    <3>4. \A r \in Recorders : pending[r] # Idle => pending[r][1].time <= now + 1
      BY <1>0, <1>t, <1>p DEF RecordedInTime
    <3>. QED
      BY <1>0, <2>1, <3>1, <3>2, <3>3, <3>4 DEF RecordedInTime
  <2>. QED
    BY <1>1, <2>1, <2>3, <2>4
<1>3. ASSUME NEW r \in Recorders, Stamp(r) PROVE IInv'
  <2>1. PICK x \in Event :
          /\ pending' = [pending EXCEPT ![r] = <<x>>]
          /\ apart' = IF x.time = now /\ \A q \in Recorders : pending[q] = Idle
                        THEN apart ELSE "no"
    <3>1. now \in GivenTimes \cup 1 .. MaxTime
      BY <1>0 DEF TypeOK
    <3>2. PICK p \in PortIds, s \in {"open", "closed"}, u \in GivenTimes \cup {now} :
            /\ pending' = [pending EXCEPT ![r] = <<[port |-> p, state |-> s, time |-> u]>>]
            /\ apart' = IF u = now /\ \A q \in Recorders : pending[q] = Idle
                          THEN apart ELSE "no"
      BY <1>3 DEF Stamp
    <3>. DEFINE x == [port |-> p, state |-> s, time |-> u]
    <3>3. x \in Event /\ x.time = u
      BY <3>1 DEF Event
    <3>. QED
      BY <3>2, <3>3
  <2>2. TypeOK'
    BY <1>0, <1>3, <2>1 DEF Stamp, TypeOK, ring
  <2>3. RecordedInTime'
    <3>. SUFFICES ASSUME apart' = "yes" PROVE RecordedInTime'
      BY DEF RecordedInTime
    <3>1. apart = "yes" /\ x.time = now /\ \A q \in Recorders : pending[q] = Idle
      BY <2>1
    <3>2. Snapshot' = Snapshot /\ count' = count /\ now' = now
      BY <1>3 DEF Stamp, ring, Snapshot, Oldest
    <3>3. Chronological(Snapshot)' /\ \A k \in 1 .. count : Snapshot[k].time <= now
      BY <1>0, <3>1, <3>2 DEF RecordedInTime, Chronological
    <3>4. \A q \in Recorders : pending'[q] # Idle => q = r /\ pending'[q] = <<x>>
      BY <1>0, <2>1, <3>1 DEF TypeOK
    <3>5. x.time <= now
      BY <1>t, <3>1
    <3>6. \A q \in Recorders : pending'[q] # Idle => pending'[q][1].time = now
      BY <3>1, <3>4
    <3>. QED
      BY <1>t, <3>2, <3>3, <3>4, <3>6 DEF RecordedInTime
  <2>. QED
    BY <1>1, <1>3, <2>2, <2>3 DEF Stamp
<1>4. ASSUME NEW r \in Recorders, Insert(r) PROVE IInv'
  <2>. DEFINE e == pending[r][1]
  <2>1. /\ e \in Event /\ TypeOK' /\ Len(Snapshot) = count
        /\ Snapshot' = IF count < Capacity THEN Append(Snapshot, e)
                       ELSE Append(Tail(Snapshot), e)
    BY <1>0, <1>4, InsertAdds
  <2>2. count \in 0 .. Capacity /\ count' = (IF count < Capacity THEN count + 1 ELSE Capacity)
    BY <1>0, <1>4, CapacityFacts DEF Insert, NextCount, TypeOK
  <2>3. latest' = [latest EXCEPT ![e.port] = e.state] /\ e.port \in PortIds
    BY <1>4, <2>1 DEF Insert, Event
  <2>. DEFINE d == IF count < Capacity THEN 0 ELSE 1
  <2>4. /\ Snapshot' \in Seq(Event)
        /\ Snapshot'[count'] = e
        /\ \A k \in 1 .. count' - 1 : k + d \in 1 .. count /\ Snapshot'[k] = Snapshot[k + d]
    <3>1. CASE count < Capacity
      BY <1>0, <2>1, <2>2, <3>1, AppendProperties
    <3>2. CASE count = Capacity
      <4>1. Snapshot # <<>>
        BY <2>1, <3>2, CapacityFacts
      <4>2. /\ Tail(Snapshot) \in Seq(Event) /\ Len(Tail(Snapshot)) = count - 1
            /\ \A k \in 1 .. count - 1 : Tail(Snapshot)[k] = Snapshot[k + 1]
        BY <1>0, <2>1, <4>1, HeadTailProperties
      <4>. QED
        BY <2>1, <2>2, <3>2, <4>2, AppendProperties, CapacityFacts
    <3>3. count < Capacity \/ count = Capacity
      BY <2>2, CapacityFacts
    <3>. QED
      BY <3>1, <3>2, <3>3
  <2>5. NewestIsLatest'
    <3>. SUFFICES ASSUME NEW k \in 1 .. count',
                         \A m \in k + 1 .. count' : Snapshot'[m].port # Snapshot'[k].port
                  PROVE  /\ Snapshot'[k].port \in PortIds
                         /\ Snapshot'[k].state = latest'[Snapshot'[k].port]
      BY DEF NewestIsLatest
    <3>1. CASE k = count'
      BY <1>0, <2>1, <2>3, <2>4, <3>1 DEF TypeOK
    <3>2. CASE k < count'
      <4>1. k \in 1 .. count' - 1 /\ k + d \in 1 .. count /\ Snapshot'[k] = Snapshot[k + d]
        BY <2>2, <2>4, <3>2, CapacityFacts
      <4>2. Snapshot[k + d].port # e.port
        BY <2>2, <2>4, <3>2, <4>1, CapacityFacts
      <4>3. ASSUME NEW m \in k + d + 1 .. count PROVE Snapshot[m].port # Snapshot[k + d].port
        <5>1. m - d \in k + 1 .. count' - 1 /\ m - d \in 1 .. count' - 1 /\ (m - d) + d = m
          BY <2>2, <4>1, CapacityFacts
        <5>2. Snapshot'[m - d] = Snapshot[m]
          BY <2>4, <5>1
        <5>3. m - d \in k + 1 .. count'
          BY <2>2, <5>1, CapacityFacts
        <5>4. Snapshot'[m - d].port # Snapshot'[k].port
          BY <5>3
        <5>. QED
          BY <4>1, <5>2, <5>4
      <4>4. /\ Snapshot[k + d].port \in PortIds
            /\ Snapshot[k + d].state = latest[Snapshot[k + d].port]
        BY <1>0, <4>1, <4>3 DEF NewestIsLatest
      <4>. QED
        BY <1>0, <2>3, <4>1, <4>2, <4>4 DEF TypeOK
    <3>. QED
      BY <2>2, <3>1, <3>2, CapacityFacts
  <2>6. RecordedInTime'
    <3>. SUFFICES ASSUME apart = "yes" PROVE RecordedInTime'
      BY <1>4 DEF Insert, RecordedInTime
    <3>1. /\ now' = now /\ pending[r] # Idle
          /\ pending' = [pending EXCEPT ![r] = Idle]
          /\ pending \in [Recorders -> {Idle} \cup {<<y>> : y \in Event}]
      BY <1>0, <1>4 DEF Insert, TypeOK
    <3>2. /\ e.time \in Nat /\ e.time <= now
          /\ \A k \in 1 .. count : Snapshot[k].time <= e.time
      BY <1>0, <1>p, <3>1 DEF RecordedInTime
    <3>3. \A q \in Recorders : pending'[q] = Idle
      BY <1>0, <3>1 DEF RecordedInTime
    <3>4. DOMAIN Snapshot = 1 .. count /\ DOMAIN Snapshot' = 1 .. count'
      BY <2>2, <1>t, CapacityFacts DEF Snapshot
    <3>5. \A m, n \in 1 .. count : m < n => Snapshot[m].time <= Snapshot[n].time
      BY <1>0, <3>4 DEF RecordedInTime, Chronological
    <3>. HIDE DEF e, d
    <3>6. d \in {0, 1}
      BY DEF d
    <3>c. PICK c \in Nat : c = count' /\ c >= 1
      <4>1. count' \in Nat /\ count' >= 1
        BY <1>t, <2>2, CapacityFacts
      <4>. QED
        BY <4>1
    <3>7. \A m, n \in 1 .. c : m < n => Snapshot'[m].time <= Snapshot'[n].time
      <4>. SUFFICES ASSUME NEW m \in 1 .. c, NEW n \in 1 .. c, m < n
                    PROVE  Snapshot'[m].time <= Snapshot'[n].time
        OBVIOUS
      <4>0. m \in 1 .. c - 1
        OBVIOUS
      <4>1. m + d \in 1 .. count /\ Snapshot'[m] = Snapshot[m + d]
        BY <2>4, <3>c, <4>0
      <4>2. CASE n = c
        BY <2>4, <3>2, <3>c, <4>1, <4>2
      <4>3. CASE n # c
        <5>0. n \in 1 .. c - 1
          BY <4>3
        <5>1. n + d \in 1 .. count /\ Snapshot'[n] = Snapshot[n + d]
          BY <2>4, <3>c, <5>0
        <5>2. m + d < n + d
          BY <3>6
        <5>. QED
          BY <3>5, <4>1, <5>1, <5>2
      <4>. QED
        BY <4>2, <4>3
    <3>8. \A k \in 1 .. c : Snapshot'[k].time <= now
      <4>. TAKE k \in 1 .. c
      <4>1. CASE k = c
        BY <2>4, <3>2, <3>c, <4>1
      <4>2. CASE k # c
        <5>0. k \in 1 .. c - 1
          BY <4>2
        <5>1. k + d \in 1 .. count /\ Snapshot'[k] = Snapshot[k + d]
          BY <2>4, <3>c, <5>0
        <5>. QED
          BY <1>0, <5>1 DEF RecordedInTime
      <4>. QED
        BY <4>1, <4>2
    <3>9. Chronological(Snapshot)'
      BY <3>4, <3>7, <3>c DEF Chronological
    <3>. QED
      BY <3>1, <3>3, <3>8, <3>9, <3>c DEF RecordedInTime
  <2>. QED
    BY <2>1, <2>4, <2>5, <2>6 DEF IInv
<1>5. CASE UNCHANGED vars
  <2>1. UNCHANGED <<ring, latest>> /\ TypeOK' /\ Snapshot' = Snapshot
    BY <1>0, <1>5 DEF vars, TypeOK, ring, Snapshot, Oldest
  <2>2. RecordedInTime'
    BY <1>0, <1>5, <2>1 DEF vars, ring, RecordedInTime, Chronological
  <2>. QED
    BY <1>1, <2>1, <2>2
<1>. QED
  BY <1>2, <1>3, <1>4, <1>5 DEF Next

(* The strengthened invariant holds in every reachable state.              *)
THEOREM Inductive == Spec => []IInv
BY InitHolds, StepHolds, PTL DEF Spec

(* head and count never leave the buffer, for any capacity.                *)
THEOREM TypeCorrect == Spec => []TypeOK
BY Inductive, PTL DEF IInv

(* Readers of the ring see the Capacity events recorded last, in order:    *)
(* every behaviour of the ring is one of the bounded log.                  *)
THEOREM Refinement == Spec => ImplementsLog
<1>1. Init => Log!Init
  BY DEF Init, Log!Init, Snapshot
<1>2. ASSUME IInv, [Next]_vars PROVE [Log!Next]_Snapshot
  <2>0. TypeOK /\ Snapshot \in Seq(Event)
    BY <1>2 DEF IInv
  <2>1. ASSUME NEW r \in Recorders, Insert(r) PROVE Log!Next
    <3>1. pending[r][1] \in Event /\ Log!Add(pending[r][1])
      BY <2>0, <2>1, InsertAdds DEF Log!Add
    <3>. QED
      BY <3>1 DEF Log!Next
  <2>2. ASSUME UNCHANGED ring PROVE Snapshot' = Snapshot
    BY <2>2 DEF ring, Snapshot, Oldest
  <2>. QED
    BY <1>2, <2>1, <2>2 DEF Next, Tick, Stamp, vars
<1>3. IInv /\ [Next]_vars => [Log!Next]_Snapshot
  BY <1>2
<1>. QED
  BY Inductive, <1>1, <1>3, PTL DEF Spec, ImplementsLog, Log!Spec

(* A nonempty set of indices has a greatest element.                       *)
LEMMA GreatestIndex ==
  ASSUME NEW n \in Nat, NEW T, T \subseteq 1 .. n, T # {}
  PROVE  \E k \in T : \A m \in T : m <= k
<1>. DEFINE R == {ss \in Nat \X Nat : ss[1] < ss[2]}
            U == {n - k : k \in T}
<1>1. IsWellFoundedOn(R, Nat)
  BY NatLessThanWellFounded DEF OpToRel
<1>2. U \subseteq Nat /\ U # {}
  <2>1. PICK k \in T : TRUE
    OBVIOUS
  <2>2. n - k \in U
    BY <2>1
  <2>3. \A y \in U : y \in Nat
    OBVIOUS
  <2>. QED
    BY <2>2, <2>3
<1>3. PICK x \in U : \A y \in U : ~ (<<y, x>> \in R)
  <2>. HIDE DEF R, U
  <2>. QED
    BY <1>1, <1>2, WFMin
<1>4. PICK k \in T : x = n - k
  OBVIOUS
<1>5. \A m \in T : m <= k
  <2>. SUFFICES ASSUME NEW m \in T, m > k PROVE FALSE
    OBVIOUS
  <2>1. n - m \in U /\ n - m \in Nat /\ x \in Nat /\ n - m < x
    BY <1>4
  <2>2. <<n - m, x>> \in Nat \X Nat
    BY <2>1
  <2>3. <<n - m, x>> \in R
    BY <2>1, <2>2
  <2>. QED
    BY <1>3, <2>1, <2>3
<1>. QED
  BY <1>5

(* Eviction drops only the oldest events: a port's summary is its latest   *)
(* recorded state, or unknown when none of its events is retained.         *)
THEOREM SummaryCurrent == Spec => []SummaryNeverStale
<1>1. ASSUME IInv PROVE SummaryNeverStale
  <2>. SUFFICES ASSUME NEW p \in PortIds PROVE Summary[p] \in {"unknown", latest[p]}
    BY DEF SummaryNeverStale
  <2>. DEFINE at == {k \in 1 .. count : Snapshot[k].port = p}
  <2>1. CASE at = {}
    BY <2>1 DEF Summary
  <2>2. CASE at # {}
    <3>1. count \in Nat /\ at \subseteq 1 .. count
      BY <1>1, CapacityFacts DEF IInv, TypeOK
    <3>2. \E k \in at : \A m \in at : m <= k
      <4>. HIDE DEF at
      <4>. QED
        BY <2>2, <3>1, GreatestIndex
    <3>. DEFINE last == CHOOSE k \in at : \A m \in at : m <= k
    <3>3. last \in at /\ \A m \in at : m <= last
      BY <3>2
    <3>4. Summary[p] = Snapshot[last].state
      BY <2>2 DEF Summary
    <3>. HIDE DEF last
    <3>5. \A m \in last + 1 .. count : Snapshot[m].port # Snapshot[last].port
      BY <3>1, <3>3
    <3>6. Snapshot[last].state = latest[p]
      BY <1>1, <3>3, <3>5 DEF IInv, NewestIsLatest
    <3>. QED
      BY <3>4, <3>6
  <2>. QED
    BY <2>1, <2>2
<1>2. IInv => SummaryNeverStale
  BY <1>1
<1>. QED
  BY Inductive, <1>2, PTL

(* Induction over positions, for a set instead of a predicate: a set that  *)
(* holds 0 and with a position the next one holds them all.                *)
LEMMA PositionInduction ==
  ASSUME NEW n \in Nat, NEW T, 0 \in T,
         \A k \in 0 .. n - 1 : k \in T => k + 1 \in T
  PROVE  \A k \in 0 .. n : k \in T
<1>. SUFFICES ASSUME \E k \in 0 .. n : k \notin T PROVE FALSE
  OBVIOUS
<1>. DEFINE R == {ss \in Nat \X Nat : ss[1] < ss[2]}
            U == {k \in 0 .. n : k \notin T}
<1>1. IsWellFoundedOn(R, Nat)
  BY NatLessThanWellFounded DEF OpToRel
<1>2. U \subseteq Nat /\ U # {}
  OBVIOUS
<1>3. PICK x \in U : \A y \in U : ~ (<<y, x>> \in R)
  <2>. HIDE DEF R, U
  <2>. QED
    BY <1>1, <1>2, WFMin
<1>4. x \in 1 .. n /\ x \notin T
  OBVIOUS
<1>5. x - 1 \in 0 .. n - 1 /\ x - 1 \notin T
  BY <1>4
<1>6. x - 1 \in U /\ <<x - 1, x>> \in Nat \X Nat /\ x - 1 < x
  BY <1>4, <1>5
<1>7. <<x - 1, x>> \in R
  BY <1>6
<1>. QED
  BY <1>3, <1>6, <1>7

(* The positions of s that the filter matches, up to n.                    *)
Matching(s, f, n) == {k \in 1 .. n : Matches(f, s[k])}

(* How many elements of A are not beyond k.                                *)
Rank(A, k) == Cardinality({m \in A : m <= k})

(* What one turn of Query's loop makes of the results so far.              *)
Turn(s, f, r, n) ==
  IF n = 0 THEN <<>>
  ELSE IF Matches(f, s[n]) THEN Append(r[n - 1], s[n])
  ELSE r[n - 1]

(* The loop of Query is well defined: there are results for every prefix.  *)
LEMMA ResultsExist ==
  ASSUME NEW E, NEW s \in Seq(E), NEW f
  PROVE  \E r : /\ r = [n \in 0 .. Len(s) |-> Turn(s, f, r, n)]
                /\ Results(s, f) = r[Len(s)]
<1>. DEFINE N == Len(s)
            Fits(g, n) == /\ g = [m \in 0 .. n |-> g[m]]
                          /\ \A m \in 0 .. n : g[m] = Turn(s, f, g, m)
            T == {n \in 0 .. N : \E g : Fits(g, n)}
<1>0. N \in Nat
  OBVIOUS
<1>1. 0 \in T
  <2>. DEFINE g == [m \in 0 .. 0 |-> <<>>]
  <2>1. Fits(g, 0)
    BY DEF Turn
  <2>. QED
    BY <1>0, <2>1
<1>2. ASSUME NEW k \in 0 .. N - 1, k \in T PROVE k + 1 \in T
  <2>1. PICK g : Fits(g, k)
    BY <1>2
  <2>. DEFINE h == [m \in 0 .. k + 1 |-> IF m <= k THEN g[m] ELSE Turn(s, f, g, k + 1)]
  <2>2. \A m \in 0 .. k + 1 : h[m] = Turn(s, f, h, m)
    <3>. TAKE m \in 0 .. k + 1
    <3>1. m # 0 => m - 1 \in 0 .. k /\ h[m - 1] = g[m - 1]
      OBVIOUS
    <3>2. CASE m <= k
      <4>1. h[m] = g[m] /\ g[m] = Turn(s, f, g, m)
        BY <2>1, <3>2
      <4>. HIDE DEF h
      <4>. QED
        BY <3>1, <4>1 DEF Turn
    <3>3. CASE m = k + 1
      <4>1. h[m] = Turn(s, f, g, m)
        BY <3>3
      <4>. HIDE DEF h
      <4>. QED
        BY <3>1, <4>1 DEF Turn
    <3>. QED
      BY <3>2, <3>3
  <2>3. h = [m \in 0 .. k + 1 |-> h[m]]
    OBVIOUS
  <2>4. Fits(h, k + 1)
    <3>. HIDE DEF h
    <3>. QED
      BY <2>2, <2>3
  <2>5. k + 1 \in 0 .. N
    BY <1>0
  <2>. QED
    BY <2>4, <2>5
<1>3. \A n \in 0 .. N : n \in T
  <2>. HIDE DEF T, N
  <2>. QED
    BY <1>0, <1>1, <1>2, PositionInduction
<1>4. PICK g : Fits(g, N)
  BY <1>0, <1>3
<1>. DEFINE P(r) == r = [n \in 0 .. Len(s) |-> Turn(s, f, r, n)]
            results == CHOOSE r : P(r)
<1>5. P(g)
  <2>1. /\ g = [m \in 0 .. Len(s) |-> g[m]]
        /\ \A m \in 0 .. Len(s) : g[m] = Turn(s, f, g, m)
    BY <1>4
  <2>. QED
    BY <2>1
<1>6. P(results)
  <2>. HIDE DEF P
  <2>. QED
    BY <1>5
<1>7. Results(s, f) = results[Len(s)]
  BY DEF Results, Turn
<1>. QED
  BY <1>6, <1>7
(* Counting the elements of a set of positions from below.                 *)
LEMMA RankFacts ==
  ASSUME NEW n \in Nat, NEW A, A \subseteq 1 .. n
  PROVE  /\ IsFiniteSet(A) /\ Cardinality(A) \in Nat
         /\ \A k : Rank(A, k) \in Nat /\ Rank(A, k) <= Cardinality(A)
         /\ \A k \in A : Rank(A, k) >= 1
         /\ \A j, k \in Int : j <= k =>
              Cardinality({m \in A : j < m /\ m <= k}) = Rank(A, k) - Rank(A, j)
<1>1. IsFiniteSet(A)
  <2>1. IsFiniteSet(1 .. n)
    BY FS_Interval
  <2>. QED
    BY <2>1, FS_Subset
<1>2. \A B : B \subseteq A => IsFiniteSet(B) /\ Cardinality(B) \in Nat
                              /\ Cardinality(B) <= Cardinality(A)
  BY <1>1, FS_Subset, FS_CardinalityType
<1>3. Cardinality(A) \in Nat
  BY <1>2
<1>4. ASSUME NEW k PROVE Rank(A, k) \in Nat /\ Rank(A, k) <= Cardinality(A)
  BY <1>2 DEF Rank
<1>5. ASSUME NEW k \in A PROVE Rank(A, k) >= 1
  <2>1. k \in {m \in A : m <= k}
    OBVIOUS
  <2>2. Rank(A, k) # 0
    <3>1. IsFiniteSet({m \in A : m <= k})
      BY <1>2
    <3>. QED
      BY <2>1, <3>1, FS_EmptySet DEF Rank
  <2>. QED
    BY <1>4, <2>2
<1>6. ASSUME NEW j \in Int, NEW k \in Int, j <= k
      PROVE  Cardinality({m \in A : j < m /\ m <= k}) = Rank(A, k) - Rank(A, j)
  <2>. DEFINE B == {m \in A : m <= k}
              C == {m \in A : m <= j}
  <2>0. \A m \in A : m \in Int
    OBVIOUS
  <2>1. {m \in A : j < m /\ m <= k} = B \ C
    <3>1. \A m \in A : j < m /\ m <= k <=> m <= k /\ ~ (m <= j)
      BY <2>0
    <3>. QED
      BY <3>1, Zenon
  <2>2. B \cap C = C
    <3>1. \A m \in A : m <= j => m <= k
      BY <1>6, <2>0
    <3>. QED
      BY <3>1, Zenon
  <2>3. IsFiniteSet(B)
    BY <1>2
  <2>4. Cardinality(B \ C) = Cardinality(B) - Cardinality(B \cap C)
    <3>. HIDE DEF B, C
    <3>. QED
      BY <2>3, FS_Difference
  <2>5. Cardinality(B) = Rank(A, k) /\ Cardinality(C) = Rank(A, j)
    BY DEF Rank
  <2>. QED
    BY <2>1, <2>2, <2>4, <2>5
<1>. QED
  BY <1>1, <1>3, <1>4, <1>5, <1>6

(* What Query's loop collects: the matching events, in their order.        *)
LEMMA LoopCollects ==
  ASSUME NEW E, NEW s \in Seq(E), NEW f
  PROVE  LET all == Matching(s, f, Len(s))
         IN  /\ Results(s, f) \in Seq(E)
             /\ Len(Results(s, f)) = Cardinality(all)
             /\ \A k \in all : Results(s, f)[Rank(all, k)] = s[k]
             /\ \A i \in 1 .. Cardinality(all) : \E k \in all : Rank(all, k) = i
<1>. DEFINE N == Len(s)
            M(n) == Matching(s, f, n)
<1>1. PICK r : /\ r = [n \in 0 .. Len(s) |-> Turn(s, f, r, n)]
               /\ Results(s, f) = r[Len(s)]
  BY ResultsExist
<1>2. N \in Nat
  OBVIOUS
<1>3. \A n \in 0 .. N : r[n] = Turn(s, f, r, n)
  BY <1>1
<1>. DEFINE Good(n) == /\ r[n] \in Seq(E)
                       /\ Len(r[n]) = Cardinality(M(n))
                       /\ \A k \in M(n) : r[n][Rank(M(n), k)] = s[k]
                       /\ \A i \in 1 .. Cardinality(M(n)) : \E k \in M(n) : Rank(M(n), k) = i
            T == {n \in 0 .. N : Good(n)}
<1>4. 0 \in T
  <2>1. M(0) = {} /\ Cardinality(M(0)) = 0
    BY FS_EmptySet DEF Matching
  <2>2. r[0] = <<>>
    BY <1>2, <1>3 DEF Turn
  <2>3. r[0] \in Seq(E) /\ Len(r[0]) = 0
    BY <2>2
  <2>4. Good(0)
    BY <2>1, <2>3
  <2>. QED
    BY <1>2, <2>4
<1>5. ASSUME NEW n \in 0 .. N - 1, n \in T PROVE n + 1 \in T
  <2>1. Good(n)
    BY <1>5
  <2>2. r[n + 1] = IF Matches(f, s[n + 1]) THEN Append(r[n], s[n + 1]) ELSE r[n]
    BY <1>2, <1>3 DEF Turn
  <2>3. M(n) \subseteq 1 .. n
    BY DEF Matching
  <2>4. s[n + 1] \in E
    OBVIOUS
  <2>5. CASE ~ Matches(f, s[n + 1])
    <3>1. M(n + 1) = M(n)
      BY <2>5 DEF Matching
    <3>2. r[n + 1] = r[n]
      BY <2>2, <2>5
    <3>3. Good(n + 1)
      <4>. HIDE DEF M
      <4>. QED
        BY <2>1, <3>1, <3>2
    <3>. QED
      BY <1>2, <3>3
  <2>6. CASE Matches(f, s[n + 1])
    <3>1. M(n + 1) = M(n) \cup {n + 1} /\ n + 1 \notin M(n)
      BY <2>6 DEF Matching
    <3>2. r[n + 1] = Append(r[n], s[n + 1])
      BY <2>2, <2>6
    <3>. DEFINE C == Cardinality(M(n))
    <3>3. IsFiniteSet(M(n)) /\ C \in Nat
      BY <2>3, RankFacts
    <3>4. Cardinality(M(n + 1)) = C + 1
      BY <3>1, <3>3, FS_AddElement
    <3>5. ASSUME NEW k \in M(n) PROVE Rank(M(n + 1), k) = Rank(M(n), k)
      <4>1. {m \in M(n + 1) : m <= k} = {m \in M(n) : m <= k}
        BY <2>3, <3>1
      <4>. QED
        BY <4>1 DEF Rank
    <3>6. Rank(M(n + 1), n + 1) = C + 1
      <4>1. {m \in M(n + 1) : m <= n + 1} = M(n + 1)
        BY <2>3, <3>1
      <4>. QED
        BY <3>4, <4>1 DEF Rank
    <3>7. \A k \in M(n) : Rank(M(n), k) \in 1 .. C
      BY <2>3, <3>3, RankFacts
    <3>. HIDE DEF M
    <3>8. /\ r[n + 1] \in Seq(E) /\ Len(r[n + 1]) = C + 1
          /\ \A i \in 1 .. C : r[n + 1][i] = r[n][i]
          /\ r[n + 1][C + 1] = s[n + 1]
      BY <2>1, <2>4, <3>2, <3>3
    <3>9. \A k \in M(n + 1) : r[n + 1][Rank(M(n + 1), k)] = s[k]
      <4>. TAKE k \in M(n + 1)
      <4>1. CASE k \in M(n)
        BY <2>1, <3>5, <3>7, <3>8, <4>1
      <4>2. CASE k = n + 1
        BY <3>6, <3>8, <4>2
      <4>. QED
        BY <3>1, <4>1, <4>2
    <3>10. ASSUME NEW i \in 1 .. C + 1 PROVE \E k \in M(n + 1) : Rank(M(n + 1), k) = i
      <4>1. CASE i = C + 1
        BY <3>1, <3>6, <4>1
      <4>2. CASE i # C + 1
        <5>1. i \in 1 .. C
          BY <3>3, <4>2
        <5>2. PICK k \in M(n) : Rank(M(n), k) = i
          BY <2>1, <5>1
        <5>. QED
          BY <3>1, <3>5, <5>2
      <4>. QED
        BY <4>1, <4>2
    <3>11. Good(n + 1)
      BY <3>4, <3>8, <3>9, <3>10
    <3>. QED
      BY <1>2, <3>11
  <2>. QED
    BY <2>5, <2>6
<1>6. \A n \in 0 .. N : n \in T
  <2>. HIDE DEF T, N
  <2>. QED
    BY <1>2, <1>4, <1>5, PositionInduction
<1>7. Good(N)
  BY <1>2, <1>6
<1>. QED
  BY <1>1, <1>7

(* The last limit results, or all of them, are the matching events with    *)
(* fewer than limit matching events after them: for any log and filter.    *)
LEMMA LastOfResults ==
  ASSUME NEW E, NEW s \in Seq(E), NEW f, f.limit \in Nat
  PROVE  LET all == Matching(s, f, Len(s))
             kept == {k \in all : \/ f.limit = 0
                                  \/ Cardinality({m \in all : m > k}) < f.limit}
             answer == LastOf(Results(s, f), f.limit)
         IN  /\ Len(answer) = Cardinality(kept)
             /\ \A k \in kept : answer[Rank(kept, k)] = s[k]
<1>. DEFINE N == Len(s)
            all == Matching(s, f, Len(s))
            C == Cardinality(all)
            r == Results(s, f)
            L == f.limit
            kept == {k \in all : L = 0 \/ Cardinality({m \in all : m > k}) < L}
            answer == LastOf(r, L)
<1>1. N \in Nat /\ L \in Nat
  OBVIOUS
<1>2. all \subseteq 1 .. N
  BY DEF Matching
<1>3. /\ r \in Seq(E) /\ Len(r) = C
      /\ \A k \in all : r[Rank(all, k)] = s[k]
      /\ \A i \in 1 .. C : \E k \in all : Rank(all, k) = i
  BY LoopCollects
<1>. HIDE DEF all, r, N, L
<1>4. /\ IsFiniteSet(all) /\ C \in Nat
      /\ \A k : Rank(all, k) \in Nat /\ Rank(all, k) <= C
      /\ \A k \in all : Rank(all, k) >= 1
      /\ \A j, k \in Int : j <= k =>
           Cardinality({m \in all : j < m /\ m <= k}) = Rank(all, k) - Rank(all, j)
  BY <1>1, <1>2, RankFacts
<1>5. \A k \in all : k \in Int /\ k <= N
  BY <1>1, <1>2
<1>6. ASSUME NEW k \in all
      PROVE  Cardinality({m \in all : m > k}) = C - Rank(all, k)
  <2>1. {m \in all : m > k} = {m \in all : k < m /\ m <= N}
    BY <1>1, <1>5
  <2>2. {m \in all : m <= N} = all
    BY <1>5
  <2>3. Rank(all, N) = C
    BY <2>2 DEF Rank
  <2>4. k \in Int /\ N \in Int /\ k <= N
    BY <1>1, <1>5
  <2>. QED
    BY <1>4, <2>1, <2>3, <2>4
<1>7. kept = {k \in all : L = 0 \/ C - Rank(all, k) < L}
  BY <1>6
<1>8. CASE L = 0 \/ C <= L
  <2>1. kept = all
    BY <1>1, <1>4, <1>7, <1>8
  <2>2. answer = r
    BY <1>1, <1>3, <1>4, <1>8 DEF LastOf
  <2>. HIDE DEF kept, answer
  <2>. QED
    BY <1>3, <2>1, <2>2 DEF r, all, L, kept, answer
<1>9. CASE L # 0 /\ L < C
  <2>1. C - L \in 1 .. C
    BY <1>1, <1>4, <1>9
  <2>2. PICK first \in all : Rank(all, first) = C - L
    BY <1>3, <2>1
  <2>3. ASSUME NEW k \in all PROVE k \in kept <=> first < k
    <3>1. k \in kept <=> Rank(all, k) > C - L
      BY <1>1, <1>4, <1>7, <1>9
    <3>2. k \in Int /\ first \in Int
      BY <1>5, <2>2
    <3>3. CASE k <= first
      <4>1. Cardinality({m \in all : k < m /\ m <= first}) = Rank(all, first) - Rank(all, k)
        BY <1>4, <3>2, <3>3
      <4>2. Cardinality({m \in all : k < m /\ m <= first}) \in Nat
        <5>1. IsFiniteSet({m \in all : k < m /\ m <= first})
          BY <1>4, FS_Subset
        <5>. QED
          BY <5>1, FS_CardinalityType
      <4>. QED
        BY <1>4, <2>1, <2>2, <3>1, <3>2, <3>3, <4>1, <4>2
    <3>4. CASE first < k
      <4>1. Cardinality({m \in all : first < m /\ m <= k}) = Rank(all, k) - Rank(all, first)
        BY <1>4, <3>2, <3>4
      <4>2. Cardinality({m \in all : first < m /\ m <= k}) >= 1
        <5>1. IsFiniteSet({m \in all : first < m /\ m <= k})
          BY <1>4, FS_Subset
        <5>2. k \in {m \in all : first < m /\ m <= k}
          BY <3>2, <3>4
        <5>3. /\ Cardinality({m \in all : first < m /\ m <= k}) \in Nat
              /\ Cardinality({m \in all : first < m /\ m <= k}) # 0
          BY <5>1, <5>2, FS_EmptySet, FS_CardinalityType, Zenon
        <5>. QED
          BY <5>3
      <4>. QED
        BY <1>4, <2>1, <2>2, <3>1, <3>4, <4>1, <4>2
    <3>. QED
      BY <3>2, <3>3, <3>4
  <2>4. Cardinality(kept) = L
    <3>1. kept = {m \in all : m > first}
      <4>1. \A k \in all : k \in kept <=> k > first
        BY <2>3, <1>5, <2>2
      <4>2. kept \subseteq all
        OBVIOUS
      <4>. HIDE DEF kept
      <4>. QED
        BY <4>1, <4>2, Zenon
    <3>2. Cardinality({m \in all : m > first}) = C - (C - L)
      BY <1>6, <2>2
    <3>. HIDE DEF kept, C
    <3>. QED
      BY <1>1, <1>4, <3>1, <3>2
  <2>5. ASSUME NEW k \in kept PROVE Rank(kept, k) = Rank(all, k) - (C - L)
    <3>1. k \in all /\ first < k /\ k \in Int /\ first \in Int
      BY <2>3, <1>5, <2>2
    <3>2. {m \in kept : m <= k} = {m \in all : first < m /\ m <= k}
      BY <2>3
    <3>3. Rank(kept, k) = Cardinality({m \in all : first < m /\ m <= k})
      BY <3>2 DEF Rank
    <3>4. first <= k
      BY <3>1
    <3>. HIDE DEF kept
    <3>. QED
      BY <1>4, <2>2, <3>1, <3>3, <3>4
  <2>6. answer = SubSeq(r, C - L + 1, C)
    <3>1. Len(r) = C /\ L > 0 /\ C > L
      BY <1>1, <1>3, <1>4, <1>9
    <3>. HIDE DEF C
    <3>. QED
      BY <3>1 DEF LastOf
  <2>7. /\ Len(answer) = L
        /\ \A i \in 1 .. L : answer[i] = r[C - L + i]
    <3>. HIDE DEF C, answer
    <3>. QED
      BY <1>1, <1>3, <1>4, <1>9, <2>1, <2>6
  <2>8. ASSUME NEW k \in kept PROVE answer[Rank(kept, k)] = s[k]
    <3>1. k \in all /\ Rank(all, k) > C - L /\ Rank(all, k) <= C
      BY <1>1, <1>4, <1>7, <1>9
    <3>2. Rank(kept, k) \in 1 .. L /\ C - L + Rank(kept, k) = Rank(all, k)
      BY <1>1, <1>4, <2>5, <3>1
    <3>3. r[Rank(all, k)] = s[k]
      BY <1>3, <3>1
    <3>. HIDE DEF answer, kept
    <3>. QED
      BY <2>7, <3>2, <3>3
  <2>. QED
    BY <2>4, <2>7, <2>8 DEF r, all, L
<1>. QED
  BY <1>1, <1>4, <1>8, <1>9

(* Every filter a caller can build, also those the runs do not enumerate.  *)
AnyFilter == [port : Nat, state : {"", "open", "closed"}, since : Nat, limit : Nat]

(* In every state that can be reached, Query's answer to any filter is the *)
(* last Limit matching events in recording order.                          *)
LEMMA AnswerIsLastMatching ==
  ASSUME IInv, NEW f \in AnyFilter
  PROVE  IsLastMatching(Query(f), f)
<1>1. /\ count \in Nat /\ Len(Snapshot) = count /\ Snapshot \in Seq(Event)
      /\ \A k \in 1 .. count : Snapshot[k] \in Event
  <2>1. count \in Nat
    BY CapacityFacts DEF IInv, TypeOK
  <2>2. Len(Snapshot) = count
    BY <2>1 DEF Snapshot
  <2>. QED
    BY <2>1, <2>2 DEF IInv
<1>2. \A e \in Event : e.time \in Nat
  BY EventTimes
<1>3. Selected(f) = Matching(Snapshot, f, Len(Snapshot))
  <2>1. ASSUME NEW k \in 1 .. count
        PROVE  Matches(f, Snapshot[k]) <=> /\ f.port \in {0, Snapshot[k].port}
                                           /\ f.state \in {"", Snapshot[k].state}
                                           /\ Snapshot[k].time >= f.since
    <3>1. Snapshot[k].time \in Nat
      BY <1>1, <1>2
    <3>2. f.since \in Nat
      BY DEF AnyFilter
    <3>3. (f.since = 0 \/ Snapshot[k].time >= f.since) <=> Snapshot[k].time >= f.since
      BY <3>1, <3>2
    <3>. QED
      BY <3>3 DEF Matches
  <2>. QED
    BY <1>1, <2>1 DEF Selected, Matching
<1>4. f.limit \in Nat
  BY DEF AnyFilter
<1>5. LET kept == {k \in Selected(f) :
                     \/ f.limit = 0
                     \/ Cardinality({m \in Selected(f) : m > k}) < f.limit}
      IN  /\ Len(Query(f)) = Cardinality(kept)
          /\ \A k \in kept : Query(f)[Rank(kept, k)] = Snapshot[k]
  <2>1. LET all == Matching(Snapshot, f, Len(Snapshot))
            kept == {k \in all : \/ f.limit = 0
                                 \/ Cardinality({m \in all : m > k}) < f.limit}
            answer == LastOf(Results(Snapshot, f), f.limit)
        IN  /\ Len(answer) = Cardinality(kept)
            /\ \A k \in kept : answer[Rank(kept, k)] = Snapshot[k]
    BY <1>1, <1>4, LastOfResults
  <2>. QED
    BY <1>3, <2>1 DEF Query
<1>. QED
  BY <1>5 DEF IsLastMatching, Rank

(* Ranks leave no gap, and a smaller rank is a smaller position.           *)
LEMMA RanksOrder ==
  ASSUME NEW n \in Nat, NEW A, A \subseteq 1 .. n
  PROVE  /\ \A i \in 1 .. Cardinality(A) : \E k \in A : Rank(A, k) = i
         /\ \A j, k \in A : Rank(A, j) < Rank(A, k) => j < k
<1>1. /\ IsFiniteSet(A) /\ Cardinality(A) \in Nat
      /\ \A k : Rank(A, k) \in Nat
      /\ \A j, k \in Int : j <= k =>
           Cardinality({m \in A : j < m /\ m <= k}) = Rank(A, k) - Rank(A, j)
  BY RankFacts
<1>2. \A m \in A : m \in Int /\ 1 <= m /\ m <= n /\ ~ (m <= 0)
  OBVIOUS
<1>. DEFINE T == {j \in 0 .. n : \A i \in 1 .. Rank(A, j) : \E k \in A : Rank(A, k) = i}
<1>3. 0 \in T
  <2>1. {m \in A : m <= 0} = {}
    BY <1>2, Zenon
  <2>2. Rank(A, 0) = 0
    BY <2>1, FS_EmptySet DEF Rank
  <2>. QED
    BY <2>2
<1>4. ASSUME NEW j \in 0 .. n - 1, j \in T PROVE j + 1 \in T
  <2>. DEFINE S == {m \in A : j < m /\ m <= j + 1}
  <2>0. \A m \in A : j < m /\ m <= j + 1 <=> m = j + 1
    BY <1>2
  <2>1. Cardinality(S) = Rank(A, j + 1) - Rank(A, j)
    BY <1>1
  <2>2. \A i \in 1 .. Rank(A, j) : \E k \in A : Rank(A, k) = i
    BY <1>4
  <2>3. CASE j + 1 \in A
    <3>1. S = {j + 1}
      BY <2>0, <2>3, Zenon
    <3>2. Cardinality(S) = 1
      BY <3>1, FS_Singleton
    <3>. HIDE DEF S
    <3>3. Rank(A, j + 1) = Rank(A, j) + 1
      BY <1>1, <2>1, <3>2
    <3>. QED
      BY <1>1, <2>2, <2>3, <3>3
  <2>4. CASE j + 1 \notin A
    <3>1. S = {}
      BY <2>0, <2>4, Zenon
    <3>2. Rank(A, j + 1) = Rank(A, j)
      BY <1>1, <2>1, <3>1, FS_EmptySet
    <3>. QED
      BY <2>2, <3>2
  <2>. QED
    BY <2>3, <2>4
<1>5. n \in T
  <2>. HIDE DEF T
  <2>. QED
    BY <1>3, <1>4, PositionInduction
<1>6. Rank(A, n) = Cardinality(A)
  <2>1. {m \in A : m <= n} = A
    BY <1>2
  <2>. QED
    BY <2>1 DEF Rank
<1>7. ASSUME NEW j \in A, NEW k \in A, Rank(A, j) < Rank(A, k) PROVE j < k
  <2>. SUFFICES ASSUME k <= j PROVE FALSE
    BY <1>2
  <2>1. Cardinality({m \in A : k < m /\ m <= j}) = Rank(A, j) - Rank(A, k)
    BY <1>1, <1>2
  <2>2. Cardinality({m \in A : k < m /\ m <= j}) \in Nat
    <3>1. IsFiniteSet({m \in A : k < m /\ m <= j})
      BY <1>1, FS_Subset
    <3>. QED
      BY <3>1, FS_CardinalityType
  <2>. QED
    BY <1>1, <1>7, <2>1, <2>2
<1>. QED
  BY <1>5, <1>6, <1>7

(* An answer is chronological as long as Record calls were apart.          *)
LEMMA AnswerIsChronological ==
  ASSUME IInv, apart = "yes", NEW f \in AnyFilter
  PROVE  Chronological(Query(f))
<1>1. /\ count \in Nat /\ Len(Snapshot) = count /\ Snapshot \in Seq(Event)
      /\ DOMAIN Snapshot = 1 .. count
  <2>1. count \in Nat
    BY CapacityFacts DEF IInv, TypeOK
  <2>. QED
    BY <2>1 DEF Snapshot, IInv
<1>2. \A j, k \in 1 .. count : j < k => Snapshot[j].time <= Snapshot[k].time
  BY <1>1 DEF IInv, RecordedInTime, Chronological
<1>3. Query(f) \in Seq(Event)
  <2>1. Results(Snapshot, f) \in Seq(Event)
    BY <1>1, LoopCollects
  <2>2. f.limit \in Nat
    BY DEF AnyFilter
  <2>. HIDE DEF Results
  <2>. QED
    BY <2>1, <2>2 DEF Query, LastOf
<1>. DEFINE all == Selected(f)
            kept == {k \in all : f.limit = 0 \/ Cardinality({m \in all : m > k}) < f.limit}
<1>4. /\ Len(Query(f)) = Cardinality(kept)
      /\ \A k \in kept : Query(f)[Rank(kept, k)] = Snapshot[k]
  BY AnswerIsLastMatching DEF IsLastMatching, Rank
<1>5. kept \subseteq 1 .. count
  BY DEF Selected
<1>. HIDE DEF kept
<1>. SUFFICES ASSUME NEW m \in DOMAIN Query(f), NEW n \in DOMAIN Query(f), m < n
              PROVE  Query(f)[m].time <= Query(f)[n].time
  BY DEF Chronological
<1>6. m \in 1 .. Cardinality(kept) /\ n \in 1 .. Cardinality(kept)
  BY <1>3, <1>4
<1>7. PICK j \in kept : Rank(kept, j) = m
  BY <1>1, <1>5, <1>6, RanksOrder
<1>8. PICK k \in kept : Rank(kept, k) = n
  BY <1>1, <1>5, <1>6, RanksOrder
<1>9. j < k
  BY <1>1, <1>5, <1>7, <1>8, RanksOrder
<1>. QED
  BY <1>2, <1>4, <1>5, <1>7, <1>8, <1>9

(* A query is answered exactly, for any filter, capacity, number of        *)
(* recorders and wrapping of the buffer; and chronologically as long as    *)
(* Record calls were apart.                                                *)
THEOREM AnyQueryExact ==
  Spec => [](\A f \in AnyFilter : /\ IsLastMatching(Query(f), f)
                                  /\ apart = "yes" => Chronological(Query(f)))
<1>1. IInv => \A f \in AnyFilter : /\ IsLastMatching(Query(f), f)
                                   /\ apart = "yes" => Chronological(Query(f))
  BY AnswerIsLastMatching, AnswerIsChronological
<1>. QED
  BY Inductive, <1>1, PTL

(* The same of the filters that the run enumerates.                        *)
THEOREM QueryExact == Spec => []QueryAnswers
<1>1. Filter \subseteq AnyFilter
  <2>1. /\ PortIds \cup {0} \subseteq Nat /\ {0, MaxTime} \subseteq Nat
        /\ 0 .. Capacity - 1 \subseteq Nat
    BY RingAssumption, CapacityFacts
  <2>. QED
    BY <2>1 DEF Filter, AnyFilter
<1>2. IInv => QueryAnswers
  BY <1>1, AnswerIsLastMatching, AnswerIsChronological DEF QueryAnswers
<1>. QED
  BY Inductive, <1>2, PTL
=============================================================================
