------------------------------ MODULE LogsProofs ------------------------------
(* What is kept in memory of notifications and events, for any goroutines, *)
(* capacities and ages: the replay buffer, the chain of recorders, and the *)
(* two beside the history ring.                                            *)
EXTENDS MCLogs, RingProofs, FiniteSetTheorems

(* 1. The replay buffer.                                                   *)

(* One entry was recorded before another.                                  *)
Earlier(e, f) == e.id < f.id /\ e.storedAt <= f.storedAt
InOrder(s) == \A m, n \in DOMAIN s : m < n => Earlier(s[m], s[n])
Before(s, t) == \A m \in DOMAIN s, n \in DOMAIN t : Earlier(s[m], t[n])

(* The entries of s have been recorded.                                    *)
Recorded(s) == \A k \in DOMAIN s : s[k].id <= recorded /\ s[k].storedAt <= clock

ReplayTyped ==
  /\ Buffer!TypeOK
  /\ recorded \in Nat
  /\ replay \in [Goroutines -> [pc : {"idle", "copied", "sending"},
                                todo : Seq(Buffer!Entry), failed : Seq(Buffer!Entry),
                                at : 0 .. OtherMaxTime]]

(* The buffer and what each Replay still holds of its copy are in the      *)
(* order of recording, failed entries first.                               *)
CopyInOrder(p) ==
  /\ InOrder(replay[p].todo) /\ InOrder(replay[p].failed)
  /\ Before(replay[p].failed, replay[p].todo)
  /\ Recorded(replay[p].todo) /\ Recorded(replay[p].failed)
  /\ ~Buffer!Running(p) => replay[p].todo = <<>> /\ replay[p].failed = <<>>

ReplayInOrder ==
  /\ InOrder(buf) /\ Recorded(buf)
  /\ \A p \in Goroutines : CopyInOrder(p)

Held(p) == Buffer!Ids(replay[p].todo) \cup Buffer!Ids(replay[p].failed)
Done == delivered \cup discarded

(* As long as no call ran into a Replay: at most one runs, the buffer is   *)
(* what it copied, and that is what it still holds and what it is done     *)
(* with.                                                                   *)
ReplayAlone ==
  overlapped = "no" =>
    /\ \A p, q \in Goroutines : Buffer!Running(p) /\ Buffer!Running(q) => p = q
    /\ \A p \in Goroutines :
         Buffer!Running(p) => Buffer!Ids(buf) \subseteq Held(p) \cup Done
    /\ \A p \in Goroutines : Buffer!Running(p) => Held(p) \cap Done = {}
    /\ (\A p \in Goroutines : ~Buffer!Running(p)) => Buffer!Ids(buf) \cap Done = {}
    /\ 1 .. recorded \subseteq Buffer!Ids(buf) \cup Done
    /\ delivered \cap discarded = {}

ReplayInv == ReplayTyped /\ ReplayInOrder /\ ReplayAlone

(* The normalised capacity is positive.                                    *)
LEMMA EventsFacts == Buffer!MaxEvents \in Nat \ {0} /\ Buffer!MaxAge \in Nat \ {0}
BY PoliciesAssumption DEF Buffer!MaxEvents, Buffer!MaxAge

(* What the entries of a sequence are.                                     *)
LEMMA EntryFacts ==
  ASSUME NEW s \in Seq(Buffer!Entry), NEW k \in DOMAIN s
  PROVE  s[k] \in Buffer!Entry /\ s[k].id \in Nat \ {0} /\ s[k].storedAt \in Nat
<1>1. s[k] \in Buffer!Entry
  OBVIOUS
<1>. QED
  BY <1>1, PoliciesAssumption DEF Buffer!Entry

(* Orders and ids of a sequence with an entry more.                        *)
LEMMA AppendEntry ==
  ASSUME NEW s \in Seq(Buffer!Entry), NEW e \in Buffer!Entry
  PROVE  /\ Append(s, e) \in Seq(Buffer!Entry) /\ Len(Append(s, e)) = Len(s) + 1
         /\ Buffer!Ids(Append(s, e)) = Buffer!Ids(s) \cup {e.id}
         /\ InOrder(s) /\ (\A k \in DOMAIN s : Earlier(s[k], e)) => InOrder(Append(s, e))
         /\ \A k \in DOMAIN Append(s, e) : \/ k \in DOMAIN s /\ Append(s, e)[k] = s[k]
                                           \/ Append(s, e)[k] = e
<1>1. /\ Append(s, e) \in Seq(Buffer!Entry) /\ Len(Append(s, e)) = Len(s) + 1
      /\ DOMAIN Append(s, e) = 1 .. Len(s) + 1 /\ DOMAIN s = 1 .. Len(s) /\ Len(s) \in Nat
      /\ \A k \in 1 .. Len(s) : Append(s, e)[k] = s[k]
      /\ Append(s, e)[Len(s) + 1] = e
  OBVIOUS
<1>2. Buffer!Ids(Append(s, e)) = Buffer!Ids(s) \cup {e.id}
  BY <1>1 DEF Buffer!Ids
<1>3. InOrder(s) /\ (\A k \in DOMAIN s : Earlier(s[k], e)) => InOrder(Append(s, e))
  BY <1>1 DEF InOrder
<1>. QED
  BY <1>1, <1>2, <1>3

(* And of one without its first.                                           *)
LEMMA TailEntries ==
  ASSUME NEW s \in Seq(Buffer!Entry), s # <<>>
  PROVE  /\ Tail(s) \in Seq(Buffer!Entry) /\ Len(Tail(s)) = Len(s) - 1
         /\ Len(s) \in Nat \ {0}
         /\ Head(s) \in Buffer!Entry /\ Head(s) = s[1] /\ 1 \in DOMAIN s
         /\ Buffer!Ids(s) = Buffer!Ids(Tail(s)) \cup {Head(s).id}
         /\ InOrder(s) => InOrder(Tail(s)) /\ \A k \in DOMAIN Tail(s) : Earlier(Head(s), Tail(s)[k])
         /\ \A k \in DOMAIN Tail(s) : k + 1 \in DOMAIN s /\ Tail(s)[k] = s[k + 1]
<1>1. /\ Tail(s) \in Seq(Buffer!Entry) /\ Len(Tail(s)) = Len(s) - 1
      /\ Len(s) \in Nat \ {0}
      /\ DOMAIN Tail(s) = 1 .. Len(s) - 1 /\ DOMAIN s = 1 .. Len(s)
      /\ Head(s) \in Buffer!Entry /\ Head(s) = s[1] /\ 1 \in DOMAIN s
      /\ \A k \in 1 .. Len(s) - 1 : k + 1 \in DOMAIN s /\ Tail(s)[k] = s[k + 1]
  OBVIOUS
<1>2. Buffer!Ids(s) = Buffer!Ids(Tail(s)) \cup {Head(s).id}
  <2>1. \A k \in DOMAIN s : k = 1 \/ (k - 1 \in DOMAIN Tail(s) /\ Tail(s)[k - 1] = s[k])
    BY <1>1
  <2>2. Buffer!Ids(s) \subseteq Buffer!Ids(Tail(s)) \cup {Head(s).id}
    <3>. SUFFICES ASSUME NEW k \in DOMAIN s
                  PROVE  s[k].id \in Buffer!Ids(Tail(s)) \cup {Head(s).id}
      BY DEF Buffer!Ids
    <3>. QED
      BY <1>1, <2>1 DEF Buffer!Ids
  <2>3. Buffer!Ids(Tail(s)) \cup {Head(s).id} \subseteq Buffer!Ids(s)
    BY <1>1 DEF Buffer!Ids
  <2>. QED
    BY <2>2, <2>3
<1>3. InOrder(s) => InOrder(Tail(s)) /\ \A k \in DOMAIN Tail(s) : Earlier(Head(s), Tail(s)[k])
  BY <1>1 DEF InOrder
<1>. QED
  BY <1>1, <1>2, <1>3

(* The empty sequence is in order whatever its entries.                    *)
LEMMA EmptyFacts ==
  /\ <<>> \in Seq(Buffer!Entry) /\ Len(<<>>) = 0 /\ DOMAIN <<>> = {}
  /\ InOrder(<<>>) /\ Buffer!Ids(<<>>) = {}
  /\ Recorded(<<>>)
  /\ \A s : Before(<<>>, s) /\ Before(s, <<>>)
<1>1. <<>> \in Seq(Buffer!Entry) /\ Len(<<>>) = 0 /\ DOMAIN <<>> = {}
  OBVIOUS
<1>. QED
  BY <1>1 DEF InOrder, Buffer!Ids, Recorded, Before

(* An empty buffer satisfies the invariant.                                *)
LEMMA ReplayInitHolds == Buffer!Init => ReplayInv
<1>. SUFFICES ASSUME Buffer!Init PROVE ReplayInv
  OBVIOUS
<1>1. /\ buf = <<>> /\ clock = 0 /\ recorded = 0 /\ delivered = {} /\ discarded = {}
      /\ overlapped = "no"
      /\ \A p \in Goroutines : /\ replay[p].pc = "idle" /\ replay[p].todo = <<>>
                               /\ replay[p].failed = <<>> /\ replay[p].at = 0
      /\ replay \in [Goroutines -> [pc : {"idle", "copied", "sending"},
                                todo : Seq(Buffer!Entry), failed : Seq(Buffer!Entry),
                                at : 0 .. OtherMaxTime]]
  BY EmptyFacts, PoliciesAssumption DEF Buffer!Init, Buffer!Idle
<1>2. ReplayTyped
  <2>1. Buffer!MaxEvents \in Nat /\ 0 \in 0 .. OtherMaxTime /\ 0 \in 0 .. MaxRecords
    BY EventsFacts, PoliciesAssumption
  <2>2. \A p \in Goroutines :
          /\ replay[p].todo \in Seq(Buffer!Entry) /\ replay[p].failed \in Seq(Buffer!Entry)
          /\ Len(replay[p].todo) = 0 /\ Len(replay[p].failed) = 0
    BY <1>1, EmptyFacts
  <2>3. buf \in Seq(Buffer!Entry) /\ Len(buf) = 0
    BY <1>1, EmptyFacts
  <2>4. Buffer!TypeOK
    <3>1. buf \in Seq(Buffer!Entry) /\ Len(buf) <= Buffer!MaxEvents
      BY <2>1, <2>3
    <3>2. \A p \in Goroutines :
       /\ replay[p].pc \in {"idle", "copied", "sending"}
       /\ replay[p].todo \in Seq(Buffer!Entry) /\ replay[p].failed \in Seq(Buffer!Entry)
       /\ Len(replay[p].todo) + Len(replay[p].failed) <= Buffer!MaxEvents
       /\ replay[p].at \in 0 .. OtherMaxTime
      <4>. TAKE p \in Goroutines
      <4>1. replay[p].todo = <<>> /\ replay[p].failed = <<>>
        BY <1>1
      <4>2. Len(<<>>) + Len(<<>>) <= Buffer!MaxEvents
        BY <2>1, EmptyFacts
      <4>3. Len(replay[p].todo) + Len(replay[p].failed) <= Buffer!MaxEvents
        BY <4>1, <4>2
      <4>. QED
        BY <1>1, <2>1, <2>2, <4>3
    <3>. QED
      BY <1>1, <2>1, <3>1, <3>2 DEF Buffer!TypeOK
  <2>. QED
    BY <1>1, <2>4 DEF ReplayTyped
<1>3. ReplayInOrder
  BY <1>1, EmptyFacts DEF ReplayInOrder, CopyInOrder
<1>4. ReplayAlone
  BY <1>1, EmptyFacts DEF ReplayAlone, Done, Buffer!Running
<1>. QED
  BY <1>2, <1>3, <1>4 DEF ReplayInv

(* Evicting the oldest entry makes room for one.                           *)
LEMMA EvictFacts ==
  ASSUME NEW s \in Seq(Buffer!Entry), Len(s) <= Buffer!MaxEvents
  PROVE  /\ Buffer!Evict(s) \in Seq(Buffer!Entry)
         /\ Len(Buffer!Evict(s)) < Buffer!MaxEvents
         /\ Buffer!Ids(Buffer!Evict(s)) \subseteq Buffer!Ids(s)
         /\ InOrder(s) => InOrder(Buffer!Evict(s))
         /\ Recorded(s) => Recorded(Buffer!Evict(s))
<1>1. CASE Len(s) >= Buffer!MaxEvents
  <2>1. s # <<>>
    BY <1>1, EventsFacts
  <2>. QED
    BY <1>1, <2>1, TailEntries, EventsFacts DEF Buffer!Evict, Recorded
<1>2. CASE ~(Len(s) >= Buffer!MaxEvents)
  BY <1>2, EventsFacts DEF Buffer!Evict
<1>. QED
  BY <1>1, <1>2

(* One Record.                                                             *)
LEMMA RecordKeeps ==
  ASSUME ReplayInv, Buffer!Record
  PROVE  ReplayInv'
<1>. DEFINE e == [id |-> recorded + 1, storedAt |-> clock]
            b == Buffer!Evict(buf)
<1>1. /\ recorded < MaxRecords /\ recorded' = recorded + 1
      /\ buf' = Append(b, e)
      /\ discarded' = discarded \cup (Buffer!Ids(buf) \ Buffer!Ids(buf'))
      /\ overlapped' = IF \E p \in Goroutines : Buffer!Running(p) THEN "yes" ELSE overlapped
      /\ replay' = replay /\ clock' = clock /\ delivered' = delivered
  BY DEF Buffer!Record
<1>2. /\ buf \in Seq(Buffer!Entry) /\ Len(buf) <= Buffer!MaxEvents
      /\ clock \in 0 .. OtherMaxTime /\ recorded \in Nat /\ MaxRecords \in Nat
      /\ delivered \subseteq 1 .. recorded /\ discarded \subseteq 1 .. recorded
      /\ overlapped \in {"yes", "no"} /\ OtherMaxTime \in Nat
  BY PoliciesAssumption DEF ReplayInv, ReplayTyped, Buffer!TypeOK
<1>3. e \in Buffer!Entry
  BY <1>1, <1>2 DEF Buffer!Entry
<1>4. /\ b \in Seq(Buffer!Entry) /\ Len(b) < Buffer!MaxEvents
      /\ Buffer!Ids(b) \subseteq Buffer!Ids(buf)
      /\ InOrder(b) /\ Recorded(b)
  BY <1>2, EvictFacts DEF ReplayInv, ReplayInOrder
<1>5. ASSUME NEW s \in Seq(Buffer!Entry), Recorded(s)
      PROVE  \A k \in DOMAIN s : s[k].id <= recorded' /\ s[k].storedAt <= clock'
  BY <1>1, <1>2, <1>5, EntryFacts DEF Recorded
<1>. HIDE DEF b
<1>6. \A k \in DOMAIN b : Earlier(b[k], e) /\ b[k] \in Buffer!Entry
  BY <1>2, <1>4, EntryFacts DEF Recorded, Earlier
<1>7. /\ buf' \in Seq(Buffer!Entry) /\ Len(buf') <= Buffer!MaxEvents
      /\ InOrder(buf')
      /\ Buffer!Ids(buf') = Buffer!Ids(b) \cup {recorded + 1}
      /\ \A k \in DOMAIN buf' : (k \in DOMAIN b /\ buf'[k] = b[k]) \/ buf'[k] = e
  BY <1>1, <1>3, <1>4, <1>6, AppendEntry, EventsFacts
<1>8. Recorded(buf)'
  <2>1. \A k \in DOMAIN b : b[k].id <= recorded /\ b[k].storedAt <= clock
    BY <1>4 DEF Recorded
  <2>2. \A k \in DOMAIN b : b[k].id <= recorded' /\ b[k].storedAt <= clock'
    BY <1>4, <1>5
  <2>3. e.id <= recorded' /\ e.storedAt <= clock'
    BY <1>1, <1>2
  <2>4. \A k \in DOMAIN buf' : buf'[k].id <= recorded' /\ buf'[k].storedAt <= clock'
    BY <1>7, <2>2, <2>3
  <2>. QED
    BY <2>4 DEF Recorded
<1>9. Buffer!Ids(buf) \subseteq 1 .. recorded
  <2>1. Recorded(buf)
    BY DEF ReplayInv, ReplayInOrder
  <2>. QED
    BY <1>2, <2>1, EntryFacts DEF Recorded, Buffer!Ids
<1>10. ReplayTyped'
  <2>1. recorded' \in Nat /\ recorded' \in 0 .. MaxRecords /\ 1 .. recorded \subseteq 1 .. recorded'
    BY <1>1, <1>2
  <2>2. delivered' \subseteq 1 .. recorded' /\ discarded' \subseteq 1 .. recorded'
    BY <1>1, <1>2, <1>9, <2>1
  <2>3. overlapped' \in {"yes", "no"}
    BY <1>1, <1>2
  <2>. QED
    BY <1>1, <1>2, <1>7, <2>1, <2>2, <2>3 DEF ReplayInv, ReplayTyped, Buffer!TypeOK
<1>11. ReplayInOrder'
  <2>1. \A p \in Goroutines : CopyInOrder(p)'
    BY <1>1, <1>5 DEF ReplayInv, ReplayTyped, ReplayInOrder, CopyInOrder, Recorded, Buffer!Running
  <2>. QED
    BY <1>7, <1>8, <2>1 DEF ReplayInOrder
<1>12. ReplayAlone'
  <2>. SUFFICES ASSUME overlapped' = "no" PROVE ReplayAlone'
    BY DEF ReplayAlone
  <2>1. overlapped = "no" /\ \A p \in Goroutines : ~Buffer!Running(p) /\ ~Buffer!Running(p)'
    BY <1>1 DEF Buffer!Running
  <2>2. /\ Buffer!Ids(buf) \cap Done = {} /\ delivered \cap discarded = {}
        /\ 1 .. recorded \subseteq Buffer!Ids(buf) \cup Done
    BY <2>1 DEF ReplayInv, ReplayAlone
  <2>3. Buffer!Ids(buf)' = Buffer!Ids(buf') 
    BY DEF Buffer!Ids
  <2>4. 1 .. recorded' = 1 .. recorded \cup {recorded + 1} /\ recorded + 1 \notin 1 .. recorded
    BY <1>1, <1>2
  <2>5. Buffer!Ids(buf)' \cap Done' = {} /\ delivered' \cap discarded' = {}
    <3>. DEFINE ids == Buffer!Ids(buf)
                new == Buffer!Ids(buf')
    <3>1. recorded + 1 \notin Done
      BY <1>2, <2>4 DEF Done
    <3>2. /\ delivered' = delivered /\ discarded' = discarded \cup (ids \ new)
          /\ ids \cap (delivered \cup discarded) = {} /\ delivered \cap discarded = {}
          /\ new \subseteq ids \cup {recorded + 1}
      BY <1>1, <1>4, <1>7, <2>2 DEF Done
    <3>. HIDE DEF ids, new
    <3>3. new \cap (delivered' \cup discarded') = {} /\ delivered' \cap discarded' = {}
      BY <3>1, <3>2 DEF Done
    <3>. QED
      BY <2>3, <3>3 DEF Done, new
  <2>6. 1 .. recorded' \subseteq Buffer!Ids(buf)' \cup Done'
    BY <1>1, <1>7, <2>2, <2>3, <2>4 DEF Done
  <2>. QED
    BY <2>1, <2>5, <2>6 DEF ReplayAlone
<1>. QED
  BY <1>10, <1>11, <1>12 DEF ReplayInv

(* What a step of one Replay leaves alone.                                 *)
LEMMA OthersKeep ==
  ASSUME ReplayInv, NEW p \in Goroutines, NEW r,
         replay' = [replay EXCEPT ![p] = r],
         UNCHANGED <<recorded, clock>>,
         r \in [pc : {"idle", "copied", "sending"}, todo : Seq(Buffer!Entry),
                failed : Seq(Buffer!Entry), at : 0 .. OtherMaxTime],
         Len(r.todo) + Len(r.failed) <= Buffer!MaxEvents,
         InOrder(r.todo), InOrder(r.failed), Before(r.failed, r.todo),
         Recorded(r.todo), Recorded(r.failed),
         r.pc = "idle" => r.todo = <<>> /\ r.failed = <<>>,
         buf' \in Seq(Buffer!Entry), Len(buf') <= Buffer!MaxEvents,
         InOrder(buf'), Recorded(buf'),
         delivered' \subseteq 1 .. recorded, discarded' \subseteq 1 .. recorded,
         overlapped' \in {"yes", "no"}
  PROVE  ReplayTyped' /\ ReplayInOrder'
<1>1. \A q \in Goroutines : replay'[q] = IF q = p THEN r ELSE replay[q]
  BY DEF ReplayInv, ReplayTyped
<1>2. ReplayTyped'
  BY <1>1 DEF ReplayInv, ReplayTyped, Buffer!TypeOK
<1>3. ASSUME NEW q \in Goroutines PROVE CopyInOrder(q)'
  <2>1. CASE q = p
    BY <1>1, <2>1 DEF CopyInOrder, Recorded, Buffer!Running
  <2>2. CASE q # p
    BY <1>1, <2>2 DEF CopyInOrder, Recorded, Buffer!Running, ReplayInv, ReplayInOrder
  <2>. QED
    BY <2>1, <2>2
<1>. QED
  BY <1>2, <1>3 DEF ReplayInOrder, Recorded

(* One Copy.                                                               *)
LEMMA CopyKeeps ==
  ASSUME ReplayInv, NEW p \in Goroutines, Buffer!Copy(p)
  PROVE  ReplayInv'
<1>. DEFINE r == [Buffer!Idle EXCEPT !.pc = "copied", !.todo = buf]
<1>1. /\ replay' = [replay EXCEPT ![p] = r] /\ ~Buffer!Running(p)
      /\ overlapped' = IF \E q \in Goroutines : Buffer!Running(q) THEN "yes" ELSE overlapped
      /\ UNCHANGED <<buf, clock, recorded, delivered, discarded>>
  BY DEF Buffer!Copy
<1>2. /\ buf \in Seq(Buffer!Entry) /\ Len(buf) <= Buffer!MaxEvents
      /\ InOrder(buf) /\ Recorded(buf) /\ overlapped \in {"yes", "no"}
      /\ delivered \subseteq 1 .. recorded /\ discarded \subseteq 1 .. recorded
  BY DEF ReplayInv, ReplayTyped, ReplayInOrder, Buffer!TypeOK
<1>3. /\ r \in [pc : {"idle", "copied", "sending"}, todo : Seq(Buffer!Entry),
                failed : Seq(Buffer!Entry), at : 0 .. OtherMaxTime]
      /\ r.pc = "copied" /\ r.todo = buf /\ r.failed = <<>>
  <2>1. Buffer!Idle \in [pc : {"idle", "copied", "sending"}, todo : Seq(Buffer!Entry),
                         failed : Seq(Buffer!Entry), at : 0 .. OtherMaxTime]
        /\ Buffer!Idle.failed = <<>>
    BY EmptyFacts, PoliciesAssumption DEF Buffer!Idle
  <2>. QED
    BY <1>2, <2>1
<1>c. Len(r.todo) + Len(r.failed) <= Buffer!MaxEvents
  BY <1>2, <1>3, EmptyFacts, EventsFacts
<1>4. ReplayTyped' /\ ReplayInOrder'
  <2>. HIDE DEF r
  <2>1. InOrder(r.todo) /\ InOrder(r.failed) /\ Before(r.failed, r.todo)
        /\ Recorded(r.todo) /\ Recorded(r.failed)
    BY <1>2, <1>3, EmptyFacts
  <2>2. InOrder(buf') /\ Recorded(buf')
    BY <1>1, <1>2
  <2>. QED
    BY <1>1, <1>2, <1>3, <1>c, <2>1, <2>2, OthersKeep
<1>5. ReplayAlone'
  <2>. SUFFICES ASSUME overlapped' = "no" PROVE ReplayAlone'
    BY DEF ReplayAlone
  <2>1. overlapped = "no" /\ \A q \in Goroutines : ~Buffer!Running(q)
    BY <1>1
  <2>2. \A q \in Goroutines : replay'[q] = IF q = p THEN r ELSE replay[q]
    BY <1>1 DEF ReplayInv, ReplayTyped
  <2>3. \A q \in Goroutines : Buffer!Running(q)' <=> q = p
    BY <1>3, <2>1, <2>2 DEF Buffer!Running
  <2>4. Held(p)' = Buffer!Ids(buf) /\ Buffer!Ids(buf)' = Buffer!Ids(buf) /\ Done' = Done
    <3>1. replay'[p].todo = buf /\ replay'[p].failed = <<>>
      BY <1>3, <2>2
    <3>2. Held(p)' = Buffer!Ids(buf) \cup Buffer!Ids(<<>>)
      BY <3>1 DEF Held, Buffer!Ids
    <3>. QED
      BY <1>1, <3>2, EmptyFacts DEF Buffer!Ids, Done
  <2>5. /\ Buffer!Ids(buf) \cap Done = {} /\ delivered \cap discarded = {}
        /\ 1 .. recorded \subseteq Buffer!Ids(buf) \cup Done
    BY <2>1 DEF ReplayInv, ReplayAlone
  <2>. QED
    BY <1>1, <2>3, <2>4, <2>5 DEF ReplayAlone
<1>. QED
  BY <1>4, <1>5 DEF ReplayInv

(* One read of the clock.                                                  *)
LEMMA ReadClockKeeps ==
  ASSUME ReplayInv, NEW p \in Goroutines, Buffer!ReadClock(p)
  PROVE  ReplayInv'
<1>. DEFINE r == [replay[p] EXCEPT !.pc = "sending", !.at = clock]
<1>1. /\ replay' = [replay EXCEPT ![p] = r] /\ replay[p].pc = "copied"
      /\ UNCHANGED <<buf, clock, recorded, delivered, discarded, overlapped>>
  BY DEF Buffer!ReadClock, Buffer!history
<1>2. /\ buf \in Seq(Buffer!Entry) /\ Len(buf) <= Buffer!MaxEvents
      /\ InOrder(buf) /\ Recorded(buf) /\ overlapped \in {"yes", "no"}
      /\ delivered \subseteq 1 .. recorded /\ discarded \subseteq 1 .. recorded
      /\ clock \in 0 .. OtherMaxTime
      /\ replay[p] \in [pc : {"idle", "copied", "sending"}, todo : Seq(Buffer!Entry),
                        failed : Seq(Buffer!Entry), at : 0 .. OtherMaxTime]
      /\ Len(replay[p].todo) + Len(replay[p].failed) <= Buffer!MaxEvents
      /\ CopyInOrder(p)
  BY DEF ReplayInv, ReplayTyped, ReplayInOrder, Buffer!TypeOK
<1>3. /\ r \in [pc : {"idle", "copied", "sending"}, todo : Seq(Buffer!Entry),
                failed : Seq(Buffer!Entry), at : 0 .. OtherMaxTime]
      /\ r.pc = "sending" /\ r.todo = replay[p].todo /\ r.failed = replay[p].failed
  BY <1>2
<1>4. ReplayTyped' /\ ReplayInOrder'
  BY <1>1, <1>2, <1>3, OthersKeep DEF CopyInOrder
<1>5. ReplayAlone'
  <2>1. \A q \in Goroutines : replay'[q] = IF q = p THEN r ELSE replay[q]
    BY <1>1 DEF ReplayInv, ReplayTyped
  <2>2. \A q \in Goroutines : Held(q)' = Held(q) /\ (Buffer!Running(q)' <=> Buffer!Running(q))
    BY <1>1, <1>3, <2>1 DEF Held, Buffer!Ids, Buffer!Running
  <2>3. Buffer!Ids(buf)' = Buffer!Ids(buf) /\ Done' = Done
    BY <1>1 DEF Buffer!Ids, Done
  <2>. QED
    BY <1>1, <2>2, <2>3 DEF ReplayInv, ReplayAlone
<1>. QED
  BY <1>4, <1>5 DEF ReplayInv

(* One candidate sent or dropped.                                          *)
LEMMA SendNextKeeps ==
  ASSUME ReplayInv, NEW p \in Goroutines, Buffer!SendNext(p)
  PROVE  ReplayInv'
<1>. DEFINE e == Head(replay[p].todo)
            f == replay'[p].failed
            T == [pc : {"idle", "copied", "sending"}, todo : Seq(Buffer!Entry),
                  failed : Seq(Buffer!Entry), at : 0 .. OtherMaxTime]
<1>1. /\ replay[p].pc = "sending" /\ replay[p].todo # <<>>
      /\ UNCHANGED <<buf, clock, recorded, overlapped>>
  BY DEF Buffer!SendNext
<1>2. /\ replay \in [Goroutines -> T] /\ replay[p] \in T
      /\ Len(replay[p].todo) + Len(replay[p].failed) <= Buffer!MaxEvents
      /\ CopyInOrder(p)
      /\ buf \in Seq(Buffer!Entry) /\ Len(buf) <= Buffer!MaxEvents
      /\ InOrder(buf) /\ Recorded(buf) /\ overlapped \in {"yes", "no"}
      /\ delivered \subseteq 1 .. recorded /\ discarded \subseteq 1 .. recorded
      /\ recorded \in Nat /\ clock \in Nat
  <2>1. replay \in [Goroutines -> T] /\ replay[p] \in T
    BY DEF ReplayInv, ReplayTyped
  <2>2. clock \in Nat
    BY PoliciesAssumption DEF ReplayInv, ReplayTyped, Buffer!TypeOK
  <2>. QED
    BY <2>1, <2>2 DEF ReplayInv, ReplayTyped, ReplayInOrder, Buffer!TypeOK
<1>3. /\ Tail(replay[p].todo) \in Seq(Buffer!Entry)
      /\ Len(Tail(replay[p].todo)) = Len(replay[p].todo) - 1
      /\ Len(replay[p].todo) \in Nat \ {0} /\ Len(replay[p].failed) \in Nat
      /\ e \in Buffer!Entry /\ e = replay[p].todo[1] /\ 1 \in DOMAIN replay[p].todo
      /\ Buffer!Ids(replay[p].todo) = Buffer!Ids(Tail(replay[p].todo)) \cup {e.id}
      /\ InOrder(Tail(replay[p].todo))
      /\ \A k \in DOMAIN Tail(replay[p].todo) : Earlier(e, Tail(replay[p].todo)[k])
      /\ \A k \in DOMAIN Tail(replay[p].todo) :
           k + 1 \in DOMAIN replay[p].todo
           /\ Tail(replay[p].todo)[k] = replay[p].todo[k + 1]
  BY <1>1, <1>2, TailEntries DEF CopyInOrder
<1>4. e.id \in 1 .. recorded /\ e.storedAt <= clock /\ e.id \in Nat
  BY <1>2, <1>3, EntryFacts DEF CopyInOrder, Recorded
<1>5. /\ \/ f = replay[p].failed /\ delivered' = delivered /\ discarded' = discarded \cup {e.id}
         \/ f = replay[p].failed /\ delivered' = delivered \cup {e.id} /\ discarded' = discarded
         \/ f = Append(replay[p].failed, e) /\ delivered' = delivered /\ discarded' = discarded
      /\ replay' \in [Goroutines -> T]
  <2>. DEFINE rest == [replay EXCEPT ![p].todo = Tail(@)]
  <2>1. \/ replay' = rest /\ delivered' = delivered /\ discarded' = discarded \cup {e.id}
        \/ replay' = rest /\ delivered' = delivered \cup {e.id} /\ discarded' = discarded
        \/ /\ replay' = [rest EXCEPT ![p].failed = Append(@, e)]
           /\ delivered' = delivered /\ discarded' = discarded
    BY DEF Buffer!SendNext, Buffer!KeepFailed
  <2>2. rest \in [Goroutines -> T] /\ rest[p].failed = replay[p].failed
    BY <1>2, <1>3
  <2>3. ASSUME replay' = [rest EXCEPT ![p].failed = Append(@, e)]
        PROVE  f = Append(replay[p].failed, e) /\ replay' \in [Goroutines -> T]
    <3>1. Append(replay[p].failed, e) \in Seq(Buffer!Entry)
      BY <1>2, <1>3
    <3>. QED
      BY <2>2, <2>3, <3>1
  <2>. QED
    BY <2>1, <2>2, <2>3
<1>6. /\ replay' = [replay EXCEPT ![p] = replay'[p]]
      /\ replay'[p].pc = "sending" /\ replay'[p].todo = Tail(replay[p].todo)
      /\ replay'[p].at = replay[p].at
  BY <1>1, <1>2 DEF Buffer!SendNext
<1>7. /\ f \in Seq(Buffer!Entry) /\ Len(f) \in {Len(replay[p].failed), Len(replay[p].failed) + 1}
      /\ IF f = replay[p].failed THEN Buffer!Ids(f) = Buffer!Ids(replay[p].failed)
         ELSE Buffer!Ids(f) = Buffer!Ids(replay[p].failed) \cup {e.id}
      /\ InOrder(f)
      /\ \A k \in DOMAIN f : \/ k \in DOMAIN replay[p].failed /\ f[k] = replay[p].failed[k]
                             \/ f[k] = e
  <2>1. \A k \in DOMAIN replay[p].failed : Earlier(replay[p].failed[k], e)
    BY <1>2, <1>3 DEF CopyInOrder, Before
  <2>2. replay[p].failed \in Seq(Buffer!Entry) /\ InOrder(replay[p].failed)
    BY <1>2 DEF CopyInOrder
  <2>3. CASE f = replay[p].failed
    BY <2>2, <2>3
  <2>4. CASE f = Append(replay[p].failed, e)
    <3>. HIDE DEF e, f
    <3>1. \A s \in Seq(Buffer!Entry) : InOrder(s) /\ (\A k \in DOMAIN s : Earlier(s[k], e))
            => /\ Append(s, e) \in Seq(Buffer!Entry) /\ Len(Append(s, e)) = Len(s) + 1
               /\ Buffer!Ids(Append(s, e)) = Buffer!Ids(s) \cup {e.id}
               /\ InOrder(Append(s, e))
               /\ \A k \in DOMAIN Append(s, e) : \/ k \in DOMAIN s /\ Append(s, e)[k] = s[k]
                                                 \/ Append(s, e)[k] = e
      BY <1>3, AppendEntry
    <3>. QED
      BY <2>1, <2>2, <2>4, <3>1
  <2>. QED
    BY <1>5, <2>3, <2>4
<1>8. /\ Before(f, Tail(replay[p].todo)) /\ Recorded(f) /\ Recorded(Tail(replay[p].todo))
      /\ replay'[p] \in T
  <2>. HIDE DEF e, f
  <2>1. Before(replay[p].failed, replay[p].todo) /\ Recorded(replay[p].failed)
        /\ Recorded(replay[p].todo)
    BY <1>2 DEF CopyInOrder
  <2>2. Before(f, Tail(replay[p].todo))
    BY <1>3, <1>7, <2>1 DEF Before
  <2>3. Recorded(f) /\ Recorded(Tail(replay[p].todo))
    BY <1>3, <1>4, <1>7, <2>1 DEF Recorded
  <2>. QED
    BY <1>5, <2>2, <2>3 DEF f
<1>9. ReplayTyped' /\ ReplayInOrder'
  <2>. DEFINE r == replay'[p]
  <2>1. r \in T /\ r.pc = "sending" /\ InOrder(r.todo) /\ InOrder(r.failed)
        /\ Before(r.failed, r.todo) /\ Recorded(r.todo) /\ Recorded(r.failed)
    <3>1. r.todo = Tail(replay[p].todo) /\ r.failed = f /\ r.pc = "sending" /\ r \in T
      BY <1>6, <1>8
    <3>2. InOrder(Tail(replay[p].todo)) /\ InOrder(f) /\ Before(f, Tail(replay[p].todo))
          /\ Recorded(f) /\ Recorded(Tail(replay[p].todo))
      BY <1>3, <1>7, <1>8
    <3>. HIDE DEF r, f
    <3>. QED
      BY <3>1, <3>2
  <2>2. Len(r.todo) + Len(r.failed) <= Buffer!MaxEvents
    BY <1>2, <1>3, <1>6, <1>7, EventsFacts
  <2>3. delivered' \subseteq 1 .. recorded /\ discarded' \subseteq 1 .. recorded
    BY <1>2, <1>4, <1>5
  <2>4. replay' = [replay EXCEPT ![p] = r]
    BY <1>6
  <2>. HIDE DEF r
  <2>. QED
    BY <1>1, <1>2, <2>1, <2>2, <2>3, <2>4, OthersKeep
<1>10. ReplayAlone'
  <2>. SUFFICES ASSUME overlapped' = "no" PROVE ReplayAlone'
    BY DEF ReplayAlone
  <2>1. \A q \in Goroutines : Buffer!Running(q)' <=> Buffer!Running(q)
    BY <1>1, <1>2, <1>6 DEF Buffer!Running
  <2>2. /\ Buffer!Running(p) /\ \A q \in Goroutines : Buffer!Running(q) => q = p
        /\ Buffer!Ids(buf) \subseteq Held(p) \cup Done
        /\ Held(p) \cap Done = {}
        /\ 1 .. recorded \subseteq Buffer!Ids(buf) \cup Done
        /\ delivered \cap discarded = {}
    BY <1>1 DEF ReplayInv, ReplayAlone, Buffer!Running
  <2>3. e.id \notin Buffer!Ids(Tail(replay[p].todo)) \cup Buffer!Ids(replay[p].failed)
    <3>1. \A k \in DOMAIN replay[p].failed : Earlier(replay[p].failed[k], e)
      BY <1>2, <1>3 DEF CopyInOrder, Before
    <3>2. \A n \in Buffer!Ids(Tail(replay[p].todo)) : n > e.id
      BY <1>3, <1>4 DEF Earlier, Buffer!Ids
    <3>3. \A n \in Buffer!Ids(replay[p].failed) : n < e.id
      BY <1>4, <3>1 DEF Earlier, Buffer!Ids
    <3>. QED
      BY <1>4, <3>2, <3>3
  <2>4. Held(p)' = Buffer!Ids(Tail(replay[p].todo)) \cup Buffer!Ids(f)
    BY <1>6 DEF Held, Buffer!Ids
  <2>5. Held(p) = Buffer!Ids(Tail(replay[p].todo)) \cup Buffer!Ids(replay[p].failed) \cup {e.id}
    BY <1>3 DEF Held
  <2>6. Buffer!Ids(buf)' = Buffer!Ids(buf)
    BY <1>1 DEF Buffer!Ids
  <2>. HIDE DEF e, f
  <2>7. \/ Held(p)' = Held(p) /\ UNCHANGED <<delivered, discarded>>
        \/ /\ Held(p)' = Held(p) \ {e.id}
           /\ \/ delivered' = delivered /\ discarded' = discarded \cup {e.id}
              \/ delivered' = delivered \cup {e.id} /\ discarded' = discarded
    <3>1. CASE f = replay[p].failed
      BY <1>5, <1>7, <2>3, <2>4, <2>5, <3>1
    <3>2. CASE f # replay[p].failed
      BY <1>5, <1>7, <2>3, <2>4, <2>5, <3>2
    <3>. QED
      BY <3>1, <3>2
  <2>8. /\ Buffer!Ids(buf)' \subseteq Held(p)' \cup Done' /\ Held(p)' \cap Done' = {}
        /\ delivered' \cap discarded' = {}
        /\ 1 .. recorded' \subseteq Buffer!Ids(buf)' \cup Done'
    BY <1>1, <2>2, <2>5, <2>6, <2>7 DEF Done
  <2>. QED
    BY <2>1, <2>2, <2>8 DEF ReplayAlone
<1>. QED
  BY <1>9, <1>10 DEF ReplayInv

(* The second critical section: what failed becomes the buffer.            *)
LEMMA StoreKeeps ==
  ASSUME ReplayInv, NEW p \in Goroutines, Buffer!Store(p)
  PROVE  ReplayInv'
<1>. DEFINE r == Buffer!Idle
            T == [pc : {"idle", "copied", "sending"}, todo : Seq(Buffer!Entry),
                  failed : Seq(Buffer!Entry), at : 0 .. OtherMaxTime]
<1>1. /\ replay' = [replay EXCEPT ![p] = r]
      /\ replay[p].pc = "sending" /\ replay[p].todo = <<>>
      /\ buf' = replay[p].failed
      /\ UNCHANGED <<clock, recorded, delivered, discarded, overlapped>>
  BY DEF Buffer!Store, Buffer!AfterReplay, Buffer!history
<1>2. /\ replay \in [Goroutines -> T] /\ replay[p].failed \in Seq(Buffer!Entry)
      /\ Len(replay[p].todo) + Len(replay[p].failed) <= Buffer!MaxEvents
      /\ InOrder(replay[p].failed) /\ Recorded(replay[p].failed) /\ overlapped \in {"yes", "no"}
      /\ delivered \subseteq 1 .. recorded /\ discarded \subseteq 1 .. recorded
  BY DEF ReplayInv, ReplayTyped, ReplayInOrder, CopyInOrder, Buffer!TypeOK
<1>3. /\ r \in T /\ r.pc = "idle" /\ r.todo = <<>> /\ r.failed = <<>>
  BY EmptyFacts, PoliciesAssumption DEF Buffer!Idle
<1>4. Len(buf') <= Buffer!MaxEvents /\ Len(r.todo) + Len(r.failed) <= Buffer!MaxEvents
  <2>1. Len(<<>>) = 0 /\ Len(replay[p].failed) \in Nat
    BY <1>2, EmptyFacts
  <2>. QED
    BY <1>1, <1>2, <1>3, <2>1, EventsFacts
<1>. HIDE DEF r
<1>5. ReplayTyped' /\ ReplayInOrder'
  <2>1. InOrder(r.todo) /\ InOrder(r.failed) /\ Before(r.failed, r.todo)
        /\ Recorded(r.todo) /\ Recorded(r.failed)
    BY <1>3, EmptyFacts
  <2>2. InOrder(buf') /\ Recorded(buf') /\ buf' \in Seq(Buffer!Entry)
    BY <1>1, <1>2
  <2>. QED
    BY <1>1, <1>2, <1>3, <1>4, <2>1, <2>2, OthersKeep
<1>6. ReplayAlone'
  <2>. SUFFICES ASSUME overlapped' = "no" PROVE ReplayAlone'
    BY DEF ReplayAlone
  <2>1. \A q \in Goroutines : replay'[q] = IF q = p THEN r ELSE replay[q]
    BY <1>1, <1>2
  <2>2. /\ Buffer!Running(p) /\ \A q \in Goroutines : Buffer!Running(q) => q = p
        /\ Buffer!Ids(buf) \subseteq Held(p) \cup Done
        /\ Held(p) \cap Done = {}
        /\ 1 .. recorded \subseteq Buffer!Ids(buf) \cup Done
        /\ delivered \cap discarded = {}
    BY <1>1 DEF ReplayInv, ReplayAlone, Buffer!Running
  <2>3. \A q \in Goroutines : ~Buffer!Running(q)'
    BY <1>3, <2>1, <2>2 DEF Buffer!Running
  <2>4. Held(p) = Buffer!Ids(<<>>) \cup Buffer!Ids(replay[p].failed)
    BY <1>1 DEF Held
  <2>5. Buffer!Ids(buf)' = Held(p) /\ Done' = Done
    BY <1>1, <2>4, EmptyFacts DEF Buffer!Ids, Done
  <2>. QED
    BY <1>1, <2>2, <2>3, <2>5 DEF ReplayAlone
<1>. QED
  BY <1>5, <1>6 DEF ReplayInv

(* Time passes; it may pass for another of the three as well.              *)
LEMMA TimeKeeps ==
  ASSUME ReplayInv, clock' \in 0 .. OtherMaxTime, clock' >= clock, UNCHANGED buffer
  PROVE  ReplayInv'
<1>1. UNCHANGED <<buf, replay, recorded, delivered, discarded, overlapped>>
  BY DEF buffer
<1>2. clock \in 0 .. OtherMaxTime /\ OtherMaxTime \in Nat
  BY PoliciesAssumption DEF ReplayInv, ReplayTyped, Buffer!TypeOK
<1>3. ReplayTyped'
  BY <1>1 DEF ReplayInv, ReplayTyped, Buffer!TypeOK
<1>4. ASSUME NEW s \in Seq(Buffer!Entry), Recorded(s)
      PROVE  \A k \in DOMAIN s : s[k].id <= recorded' /\ s[k].storedAt <= clock'
  BY <1>1, <1>2, <1>4, EntryFacts DEF Recorded
<1>5. ReplayInOrder'
  <2>1. \A p \in Goroutines : CopyInOrder(p)'
    BY <1>1, <1>4 DEF ReplayInv, ReplayTyped, ReplayInOrder, CopyInOrder, Recorded,
       Buffer!Running
  <2>2. Recorded(buf)'
    BY <1>1, <1>4 DEF ReplayInv, ReplayTyped, Buffer!TypeOK, ReplayInOrder, Recorded
  <2>. QED
    BY <1>1, <2>1, <2>2 DEF ReplayInv, ReplayInOrder
<1>6. ReplayAlone'
  BY <1>1 DEF ReplayInv, ReplayAlone, Held, Done, Buffer!Ids, Buffer!Running
<1>. QED
  BY <1>3, <1>5, <1>6 DEF ReplayInv

(* Every step of the replayers and the recording dispatcher.               *)
LEMMA ReplayStep == ReplayInv /\ [Buffer!Next]_(Buffer!vars) => ReplayInv'
<1>. SUFFICES ASSUME ReplayInv, [Buffer!Next]_(Buffer!vars) PROVE ReplayInv'
  OBVIOUS
<1>0. clock \in 0 .. OtherMaxTime /\ OtherMaxTime \in Nat
  BY PoliciesAssumption DEF ReplayInv, ReplayTyped, Buffer!TypeOK
<1>1. CASE Buffer!Tick
  BY <1>0, <1>1, TimeKeeps DEF Buffer!Tick, Buffer!history, buffer
<1>2. CASE UNCHANGED Buffer!vars
  BY <1>0, <1>2, TimeKeeps DEF Buffer!vars, Buffer!history, buffer
<1>. QED
  BY <1>1, <1>2, RecordKeeps, CopyKeeps, ReadClockKeeps, SendNextKeeps, StoreKeeps
     DEF Buffer!Next

(* The strengthened invariant holds in every reachable state.              *)
THEOREM ReplayInductive == Buffer!Spec => []ReplayInv
BY ReplayInitHolds, ReplayStep, PTL DEF Buffer!Spec

(* The buffer keeps the recording order whatever runs into what, and as    *)
(* long as no call runs into a Replay every notification is buffered,      *)
(* delivered, evicted or expired, and none is sent again: for any number   *)
(* of goroutines, any capacity and any age.                                *)
THEOREM NothingLostAlone == Buffer!Spec => []ReplayAccounted
<1>1. ReplayInv => ReplayAccounted
  <2>. SUFFICES ASSUME ReplayInv PROVE ReplayAccounted
    OBVIOUS
  <2>1. Buffer!BufferInOrder
    BY DEF ReplayInv, ReplayInOrder, InOrder, Earlier, Buffer!BufferInOrder
  <2>2. Buffer!AccountedAlone
    BY DEF ReplayInv, ReplayAlone, Done, Buffer!AccountedAlone, Buffer!RecordedIsKept
  <2>. QED
    BY <2>1, <2>2 DEF ReplayAccounted, Buffer!ReplayAccounted
<1>. QED
  BY <1>1, ReplayInductive, PTL

-----------------------------------------------------------------------------
(* 2. The chain of recorders.                                              *)

InSend == {"next", "checkpoint", "bury", "audit", "observe"}
Answering == InSend \ {"next"}
At(pcs) == {s \in Goroutines : sender[s].pc \in pcs}

ChainTyped ==
  /\ Chain!TypeOK
  /\ sender \in [Goroutines -> {Chain!Idle} \cup [pc : InSend, id : Chain!Id, key : Keys]]
  /\ sent \subseteq [id : Chain!Id, key : Keys, ok : BOOLEAN, at : 0 .. clock]
  /\ IsFiniteSet(sent)

(* A notification has one number, one sender at most, and one answer.      *)
Numbered ==
  /\ \A e, f \in sent : e.id = f.id => e = f
  /\ \A s, t \in At(InSend) : sender[s].id = sender[t].id => s = t
  /\ \A e \in sent : e.id <= Chain!Started
  /\ \A s \in At(InSend) : sender[s].id <= Chain!Started
  /\ \A s \in At({"next"}) : \A e \in sent : e.id # sender[s].id

(* A sender on the way back from next knows its answer.                    *)
AnswerOf(s, e) == e.id = sender[s].id /\ e.key = sender[s].key
Answered ==
  \A s \in At(Answering) : \E e \in sent :
    /\ AnswerOf(s, e)
    /\ sender[s].pc = "checkpoint" => e.ok
    /\ sender[s].pc = "bury" => ~e.ok

SendsInv == ChainTyped /\ Numbered /\ Answered

(* A checkpoint is of a delivery of its key, and, unless the store was     *)
(* emptied, no older than any such delivery that passed the checkpointer.  *)
Checkpointed ==
  /\ \A key \in Keys : store[key] # Chain!Nothing =>
       \E e \in sent : e.id = store[key].id /\ e.key = key /\ e.ok
  /\ resets = "no" =>
       \A e \in sent : e.ok /\ e.id \notin Chain!InFlight({"checkpoint"})
         => store[e.key] # Chain!Nothing /\ store[e.key].at >= e.at

Buried == Chain!Ids(Chain!FailedSends) \ Chain!InFlight({"bury"})
Returned == {e \in sent : e.id \notin Chain!InFlight(Answering)}

(* The dead letters are distinct failures, as many as fit.                 *)
DeadLetters ==
  /\ \A m, n \in DOMAIN dead : dead[m] = dead[n] => m = n
  /\ \A n \in DOMAIN dead : dead[n] \in Buried
  /\ Len(dead) = IF Cardinality(Buried) < Chain!DeadCapacity
                 THEN Cardinality(Buried) ELSE Chain!DeadCapacity

Audited == \A n \in DOMAIN audit : \E e \in sent : e.id = audit[n].id /\ e.ok = audit[n].ok
Observed == resets = "no" => /\ total = Cardinality(Returned)
                             /\ errors = Cardinality(Returned \cap Chain!FailedSends)

ChainInv == SendsInv /\ Checkpointed /\ DeadLetters /\ Audited /\ Observed

(* The normalised capacities are positive.                                 *)
LEMMA CapacitiesFacts ==
  /\ Chain!TapCapacity \in Nat \ {0} /\ Chain!AuditCapacity \in Nat \ {0}
  /\ Chain!DeadCapacity \in Nat \ {0} /\ MaxSends \in Nat
BY PoliciesAssumption DEF Chain!TapCapacity, Chain!AuditCapacity, Chain!DeadCapacity

(* The operators the chain takes from the libraries.                       *)
LEMMA ChainOperators ==
  /\ \A S : Chain!Cardinality(S) = Cardinality(S)
  /\ \A S, s : \A c \in Nat : s \in Chain!BoundedSeq(S, c) <=> s \in Seq(S) /\ Len(s) <= c
  /\ \A s : Chain!ToSet(s) = {s[n] : n \in DOMAIN s}
<1>1. \A S : Chain!Cardinality(S) = Cardinality(S)
  BY DEF Chain!Cardinality, Cardinality
<1>2. ASSUME NEW S, NEW s, NEW c \in Nat
      PROVE  s \in Chain!BoundedSeq(S, c) <=> s \in Seq(S) /\ Len(s) <= c
  <2>1. s \in Chain!BoundedSeq(S, c) <=> \E m \in 0 .. c : s \in [1 .. m -> S]
    BY DEF Chain!BoundedSeq, Chain!SeqOf
  <2>2. ASSUME NEW m \in 0 .. c, s \in [1 .. m -> S] PROVE s \in Seq(S) /\ Len(s) <= c
    BY <2>2
  <2>3. ASSUME s \in Seq(S), Len(s) <= c PROVE Len(s) \in 0 .. c /\ s \in [1 .. Len(s) -> S]
    BY <2>3
  <2>. QED
    BY <2>1, <2>2, <2>3
<1>. QED
  BY <1>1, <1>2 DEF Chain!ToSet

(* A log with an entry more: the entry last, after those that stay.        *)
LEMMA RecordFacts ==
  ASSUME NEW S, NEW cap \in Nat \ {0}, NEW log \in Seq(S), Len(log) <= cap, NEW e \in S,
         NEW new, new = Chain!Record(log, cap, e),
         NEW shift, shift = IF Len(log) < cap THEN 0 ELSE 1
  PROVE  /\ new \in Seq(S)
         /\ Len(new) = Len(log) + 1 - shift /\ Len(new) \in 1 .. cap
         /\ Len(log) \in Nat
         /\ new[Len(new)] = e
         /\ new = IF Len(log) < cap THEN Append(log, e) ELSE Append(Tail(log), e)
<1>1. CASE Len(log) < cap
  BY <1>1 DEF Chain!Record
<1>2. CASE ~(Len(log) < cap)
  <2>1. log # <<>> /\ Len(log) = cap
    BY <1>2
  <2>2. Tail(log) \in Seq(S) /\ Len(Tail(log)) = Len(log) - 1 /\ Len(log) \in Nat
    BY <2>1
  <2>3. new = Append(Tail(log), e) /\ shift = 1
    BY <1>2, <2>1 DEF Chain!Record
  <2>4. new \in Seq(S) /\ Len(new) = Len(log) /\ new[Len(new)] = e
    BY <2>1, <2>2, <2>3
  <2>. QED
    BY <1>2, <2>1, <2>2, <2>3, <2>4
<1>. QED
  BY <1>1, <1>2

(* So that a log stays one and within its capacity.                        *)
LEMMA RecordTyped ==
  ASSUME NEW S, NEW cap \in Nat \ {0}, NEW log \in Seq(S), Len(log) <= cap, NEW e \in S
  PROVE  Chain!Record(log, cap, e) \in Seq(S) /\ Len(Chain!Record(log, cap, e)) <= cap
<1>1. PICK new : new = Chain!Record(log, cap, e)
  OBVIOUS
<1>2. PICK shift : shift = IF Len(log) < cap THEN 0 ELSE 1
  OBVIOUS
<1>3. new \in Seq(S) /\ Len(new) \in 1 .. cap
  BY <1>1, <1>2, RecordFacts
<1>. QED
  BY <1>1, <1>3

(* The entries that stay.                                                  *)
LEMMA RecordShifts ==
  ASSUME NEW S, NEW cap \in Nat \ {0}, NEW log \in Seq(S), Len(log) <= cap, NEW e \in S,
         NEW new, new = Chain!Record(log, cap, e),
         NEW shift, shift = IF Len(log) < cap THEN 0 ELSE 1,
         NEW n \in 1 .. Len(new) - 1
  PROVE  n + shift \in 1 .. Len(log) /\ new[n] = log[n + shift]
<1>1. CASE Len(log) < cap
  BY <1>1 DEF Chain!Record
<1>2. CASE ~(Len(log) < cap)
  <2>1. log # <<>> /\ Len(log) = cap
    BY <1>2
  <2>2. /\ Tail(log) \in Seq(S) /\ Len(Tail(log)) = Len(log) - 1 /\ Len(log) \in Nat
        /\ \A k \in 1 .. Len(log) - 1 : Tail(log)[k] = log[k + 1]
    BY <2>1
  <2>3. new = Append(Tail(log), e) /\ shift = 1
    BY <1>2, <2>1 DEF Chain!Record
  <2>. QED
    BY <2>1, <2>2, <2>3
<1>. QED
  BY <1>1, <1>2

(* What counts as started.                                                 *)
LEMMA StartedCount == Chain!Started = Cardinality(sent) + Cardinality(At({"next"}))
<1>1. {s \in Goroutines : sender[s].pc = "next"} = At({"next"})
  BY DEF At
<1>. QED
  BY <1>1, ChainOperators DEF Chain!Started

(* The senders at some places are finitely many, and how a step of one of  *)
(* them changes which they are.                                            *)
LEMMA StartedFacts ==
  ASSUME ChainTyped
  PROVE  /\ \A pcs : IsFiniteSet(At(pcs)) /\ Cardinality(At(pcs)) \in Nat
         /\ Cardinality(sent) \in Nat
         /\ Chain!Started = Cardinality(sent) + Cardinality(At({"next"}))
         /\ Chain!Started \in Nat
<1>1. ASSUME NEW pcs PROVE IsFiniteSet(At(pcs)) /\ Cardinality(At(pcs)) \in Nat
  <2>1. At(pcs) \subseteq Goroutines
    BY DEF At
  <2>. QED
    BY <2>1, GoroutinesAssumption, FS_Subset, FS_CardinalityType
<1>2. Cardinality(sent) \in Nat
  BY FS_CardinalityType DEF ChainTyped
<1>. QED
  BY <1>1, <1>2, StartedCount

(* A step of one sender moves no other.                                    *)
LEMMA SenderMoves ==
  ASSUME ChainTyped, NEW s \in Goroutines, NEW r, sender' = [sender EXCEPT ![s] = r]
  PROVE  /\ \A t \in Goroutines : sender'[t] = IF t = s THEN r ELSE sender[t]
         /\ \A pcs : At(pcs)' = IF r.pc \in pcs THEN At(pcs) \cup {s} ELSE At(pcs) \ {s}
<1>1. \A t \in Goroutines : sender'[t] = IF t = s THEN r ELSE sender[t]
  BY DEF ChainTyped
<1>. QED
  BY <1>1 DEF At

(* Goto changes where a sender is, not what it sends.                      *)
LEMMA GotoMoves ==
  ASSUME ChainTyped, NEW s \in At(InSend), NEW pc \in InSend, Chain!Goto(s, pc)
  PROVE  LET r == [pc |-> pc, id |-> sender[s].id, key |-> sender[s].key]
         IN  /\ sender' = [sender EXCEPT ![s] = r]
             /\ r \in [pc : InSend, id : Chain!Id, key : Keys]
             /\ sender[s] \in [pc : InSend, id : Chain!Id, key : Keys]
<1>. DEFINE r == [pc |-> pc, id |-> sender[s].id, key |-> sender[s].key]
<1>1. s \in Goroutines /\ sender[s].pc \in InSend
  BY DEF At
<1>2. sender[s] \in [pc : InSend, id : Chain!Id, key : Keys]
  <2>1. Chain!Idle.pc \notin InSend
    BY DEF Chain!Idle, InSend
  <2>. QED
    BY <1>1, <2>1 DEF ChainTyped
<1>3. [sender[s] EXCEPT !.pc = pc] = r
  BY <1>2
<1>4. sender' = [sender EXCEPT ![s] = r]
  BY <1>1, <1>3 DEF Chain!Goto
<1>. QED
  BY <1>2, <1>4

(* What the type invariant of the chain says, without the library's        *)
(* operators.                                                              *)
LEMMA ChainTypes ==
  Chain!TypeOK <=>
    /\ tap \in Seq(Chain!Id) /\ Len(tap) <= Chain!TapCapacity
    /\ dead \in Seq(Chain!Id) /\ Len(dead) <= Chain!DeadCapacity
    /\ audit \in Seq([id : Chain!Id, ok : BOOLEAN]) /\ Len(audit) <= Chain!AuditCapacity
    /\ store \in [Keys -> {Chain!Nothing} \cup [id : Chain!Id, at : 0 .. clock]]
    /\ errors \in 0 .. total /\ total \in Nat
    /\ clock \in 0 .. OtherMaxTime /\ resets \in {"yes", "no"}
BY ChainOperators, CapacitiesFacts DEF Chain!TypeOK

(* The notification that the tap numbers next is a new one.                *)
LEMMA NextNumber ==
  ASSUME ChainTyped, Chain!Started < MaxSends
  PROVE  Chain!Started + 1 \in Chain!Id
BY StartedFacts, CapacitiesFacts DEF Chain!Id

(* The chain starts well typed.                                            *)
LEMMA ChainTypedInit == Chain!Init => ChainTyped
<1>. SUFFICES ASSUME Chain!Init PROVE ChainTyped
  OBVIOUS
<1>1. /\ tap = <<>> /\ audit = <<>> /\ dead = <<>> /\ total = 0 /\ errors = 0 /\ clock = 0
      /\ sent = {} /\ resets = "no" /\ store = [key \in Keys |-> Chain!Nothing]
      /\ sender = [s \in Goroutines |-> Chain!Idle]
  BY DEF Chain!Init
<1>2. \A S : <<>> \in Seq(S) /\ Len(<<>>) = 0
  OBVIOUS
<1>3. Chain!TypeOK
  BY <1>1, <1>2, ChainTypes, CapacitiesFacts, PoliciesAssumption
<1>. QED
  BY <1>1, <1>3, FS_EmptySet DEF ChainTyped

(* Every step of the senders and of the resets keeps the types.            *)
LEMMA ChainTypedStep ==
  ASSUME ChainTyped, [Chain!Next]_(Chain!vars)
  PROVE  ChainTyped'
<1>. USE DEF ChainTyped
<1>0. /\ tap \in Seq(Chain!Id) /\ Len(tap) <= Chain!TapCapacity
      /\ dead \in Seq(Chain!Id) /\ Len(dead) <= Chain!DeadCapacity
      /\ audit \in Seq([id : Chain!Id, ok : BOOLEAN]) /\ Len(audit) <= Chain!AuditCapacity
      /\ store \in [Keys -> {Chain!Nothing} \cup [id : Chain!Id, at : 0 .. clock]]
      /\ errors \in 0 .. total /\ total \in Nat
      /\ clock \in 0 .. OtherMaxTime /\ resets \in {"yes", "no"} /\ OtherMaxTime \in Nat
  BY ChainTypes, PoliciesAssumption
<1>t. (/\ tap \in Seq(Chain!Id) /\ Len(tap) <= Chain!TapCapacity
       /\ dead \in Seq(Chain!Id) /\ Len(dead) <= Chain!DeadCapacity
       /\ audit \in Seq([id : Chain!Id, ok : BOOLEAN]) /\ Len(audit) <= Chain!AuditCapacity
       /\ store \in [Keys -> {Chain!Nothing} \cup [id : Chain!Id, at : 0 .. clock]]
       /\ errors \in 0 .. total /\ total \in Nat
       /\ clock \in 0 .. OtherMaxTime /\ resets \in {"yes", "no"})' => Chain!TypeOK'
  BY ChainTypes, PTL
<1>1. CASE Chain!Tick
  <2>1. clock' = clock + 1 /\ clock' \in 0 .. OtherMaxTime
        /\ UNCHANGED <<tap, audit, dead, store, total, errors, sender, sent, resets>>
    BY <1>0, <1>1 DEF Chain!Tick, Chain!logs, Chain!observer
  <2>2. [id : Chain!Id, at : 0 .. clock] \subseteq [id : Chain!Id, at : 0 .. clock']
        /\ [id : Chain!Id, key : Keys, ok : BOOLEAN, at : 0 .. clock]
             \subseteq [id : Chain!Id, key : Keys, ok : BOOLEAN, at : 0 .. clock']
    <3>1. 0 .. clock \subseteq 0 .. clock'
      BY <1>0, <2>1
    <3>. QED
      BY <3>1
  <2>3. store' \in [Keys -> {Chain!Nothing} \cup [id : Chain!Id, at : 0 .. clock']]
    BY <1>0, <2>1, <2>2
  <2>. QED
    BY <1>0, <1>t, <2>1, <2>2, <2>3
<1>2. CASE Chain!TapReset
  BY <1>0, <1>2, <1>t, CapacitiesFacts DEF Chain!TapReset, Chain!observer
<1>3. CASE Chain!ObserverReset
  BY <1>0, <1>3, <1>t DEF Chain!ObserverReset, Chain!logs
<1>4. CASE Chain!CheckpointerReset
  BY <1>0, <1>4, <1>t DEF Chain!CheckpointerReset, Chain!logs, Chain!observer
<1>5. ASSUME NEW s \in Goroutines, NEW key \in Keys, Chain!TapSend(s, key) PROVE ChainTyped'
  <2>1. Chain!Started + 1 \in Chain!Id
    BY <1>5, NextNumber DEF Chain!TapSend
  <2>2. tap' \in Seq(Chain!Id) /\ Len(tap') <= Chain!TapCapacity
    BY <1>0, <1>5, <2>1, RecordTyped, CapacitiesFacts DEF Chain!TapSend
  <2>3. sender' \in [Goroutines -> {Chain!Idle} \cup [pc : InSend, id : Chain!Id, key : Keys]]
    BY <1>5, <2>1 DEF Chain!TapSend, InSend
  <2>. QED
    BY <1>0, <1>5, <1>t, <2>2, <2>3 DEF Chain!TapSend, Chain!observer
<1>6. ASSUME NEW s \in Goroutines, Chain!NextReturns(s) PROVE ChainTyped'
  <2>1. s \in At(InSend)
    BY <1>6 DEF Chain!NextReturns, At, InSend
  <2>. PICK ok \in BOOLEAN :
         /\ sent' = sent \cup {[id |-> sender[s].id, key |-> sender[s].key,
                                ok |-> ok, at |-> clock]}
         /\ Chain!Goto(s, IF ok THEN "checkpoint" ELSE "bury")
    BY <1>6 DEF Chain!NextReturns
  <2>2. (IF ok THEN "checkpoint" ELSE "bury") \in InSend
    BY DEF InSend
  <2>3. /\ sender' \in [Goroutines -> {Chain!Idle} \cup [pc : InSend, id : Chain!Id, key : Keys]]
        /\ sender[s] \in [pc : InSend, id : Chain!Id, key : Keys]
    BY <2>1, <2>2, GotoMoves
  <2>4. sent' \subseteq [id : Chain!Id, key : Keys, ok : BOOLEAN, at : 0 .. clock]
        /\ IsFiniteSet(sent')
    <3>. DEFINE e == [id |-> sender[s].id, key |-> sender[s].key, ok |-> ok, at |-> clock]
    <3>1. e \in [id : Chain!Id, key : Keys, ok : BOOLEAN, at : 0 .. clock]
      BY <1>0, <2>3
    <3>2. IsFiniteSet(sent \cup {e})
      BY FS_AddElement
    <3>. QED
      BY <3>1, <3>2
  <2>. QED
    BY <1>0, <1>6, <1>t, <2>3, <2>4 DEF Chain!NextReturns, Chain!logs, Chain!observer
<1>7. ASSUME NEW s \in Goroutines, Chain!Checkpoint(s) PROVE ChainTyped'
  <2>1. s \in At(InSend) /\ "audit" \in InSend
    BY <1>7 DEF Chain!Checkpoint, At, InSend
  <2>2. /\ sender' \in [Goroutines -> {Chain!Idle} \cup [pc : InSend, id : Chain!Id, key : Keys]]
        /\ sender[s] \in [pc : InSend, id : Chain!Id, key : Keys]
    BY <1>7, <2>1, GotoMoves DEF Chain!Checkpoint
  <2>3. store' \in [Keys -> {Chain!Nothing} \cup [id : Chain!Id, at : 0 .. clock]]
    BY <1>0, <1>7, <2>2 DEF Chain!Checkpoint
  <2>. QED
    BY <1>0, <1>7, <1>t, <2>2, <2>3 DEF Chain!Checkpoint, Chain!logs, Chain!observer
<1>8. ASSUME NEW s \in Goroutines, Chain!Bury(s) PROVE ChainTyped'
  <2>1. s \in At(InSend) /\ "audit" \in InSend
    BY <1>8 DEF Chain!Bury, At, InSend
  <2>2. /\ sender' \in [Goroutines -> {Chain!Idle} \cup [pc : InSend, id : Chain!Id, key : Keys]]
        /\ sender[s] \in [pc : InSend, id : Chain!Id, key : Keys]
    BY <1>8, <2>1, GotoMoves DEF Chain!Bury
  <2>3. dead' \in Seq(Chain!Id) /\ Len(dead') <= Chain!DeadCapacity
    BY <1>0, <1>8, <2>2, RecordTyped, CapacitiesFacts DEF Chain!Bury
  <2>. QED
    BY <1>0, <1>8, <1>t, <2>2, <2>3 DEF Chain!Bury, Chain!observer
<1>9. ASSUME NEW s \in Goroutines, Chain!Audit(s) PROVE ChainTyped'
  <2>1. s \in At(InSend) /\ "observe" \in InSend
    BY <1>9 DEF Chain!Audit, At, InSend
  <2>2. /\ sender' \in [Goroutines -> {Chain!Idle} \cup [pc : InSend, id : Chain!Id, key : Keys]]
        /\ sender[s] \in [pc : InSend, id : Chain!Id, key : Keys]
    BY <1>9, <2>1, GotoMoves DEF Chain!Audit
  <2>3. [id |-> sender[s].id, ok |-> Chain!Succeeded(s)] \in [id : Chain!Id, ok : BOOLEAN]
    BY <2>2 DEF Chain!Succeeded
  <2>4. audit' \in Seq([id : Chain!Id, ok : BOOLEAN]) /\ Len(audit') <= Chain!AuditCapacity
    <3>. DEFINE S == [id : Chain!Id, ok : BOOLEAN]
                e == [id |-> sender[s].id, ok |-> Chain!Succeeded(s)]
    <3>1. audit' = Chain!Record(audit, Chain!AuditCapacity, e)
      BY <1>9 DEF Chain!Audit
    <3>2. e \in S /\ audit \in Seq(S) /\ Len(audit) <= Chain!AuditCapacity
      BY <1>0, <2>3
    <3>. HIDE DEF S, e
    <3>3. Chain!AuditCapacity \in Nat \ {0}
      BY CapacitiesFacts
    <3>4. audit' \in Seq(S) /\ Len(audit') <= Chain!AuditCapacity
      BY <3>1, <3>2, <3>3, RecordTyped
    <3>. QED
      BY <3>4 DEF S
  <2>. QED
    BY <1>0, <1>9, <1>t, <2>2, <2>4 DEF Chain!Audit, Chain!observer
<1>10. ASSUME NEW s \in Goroutines, Chain!Observe(s) PROVE ChainTyped'
  BY <1>0, <1>10, <1>t DEF Chain!Observe, Chain!logs
<1>11. CASE UNCHANGED Chain!vars
  BY <1>0, <1>11, <1>t DEF Chain!vars, Chain!logs, Chain!observer
<1>. QED
  BY <1>1, <1>2, <1>3, <1>4, <1>5, <1>6, <1>7, <1>8, <1>9, <1>10, <1>11 DEF Chain!Next

(* A sender on its way back goes on or returns: nobody's number or answer  *)
(* changes.                                                                *)
LEMMA OnwardKeeps ==
  ASSUME SendsInv, ChainTyped', sent' = sent,
         NEW s \in At(Answering), NEW r, sender' = [sender EXCEPT ![s] = r],
         \/ r.pc \in {"audit", "observe"} /\ r.id = sender[s].id /\ r.key = sender[s].key
         \/ r.pc = "idle"
  PROVE  Numbered' /\ Answered'
<1>0. ChainTyped /\ Numbered /\ Answered /\ s \in Goroutines /\ sender[s].pc \in Answering
  BY DEF SendsInv, At
<1>1. /\ \A t \in Goroutines : sender'[t] = IF t = s THEN r ELSE sender[t]
      /\ \A pcs : At(pcs)' = IF r.pc \in pcs THEN At(pcs) \cup {s} ELSE At(pcs) \ {s}
  BY <1>0, SenderMoves
<1>2. /\ At({"next"})' = At({"next"})
      /\ \A t \in At(InSend)' : t \in At(InSend) /\ sender'[t].id = sender[t].id
  BY <1>0, <1>1 DEF At, InSend, Answering
<1>3. Chain!Started' = Chain!Started
  <2>1. (Chain!Started = Cardinality(sent) + Cardinality(At({"next"})))'
    BY StartedCount, PTL
  <2>. QED
    BY <1>0, <1>2, <2>1, StartedFacts
<1>4. Numbered'
  <2>1. \A t \in At({"next"})' : t \in At({"next"}) /\ sender'[t].id = sender[t].id
    BY <1>0, <1>1, <1>2 DEF At, InSend, Answering
  <2>. QED
    BY <1>0, <1>2, <1>3, <2>1 DEF Numbered
<1>5. ASSUME NEW t \in At(Answering)'
      PROVE  \E e \in sent' : /\ AnswerOf(t, e)'
                              /\ sender'[t].pc = "checkpoint" => e.ok
                              /\ sender'[t].pc = "bury" => ~e.ok
  <2>1. t \in At(Answering) /\ t \in Goroutines
    BY <1>0, <1>1 DEF At, Answering, InSend
  <2>2. PICK e \in sent : /\ AnswerOf(t, e)
                          /\ sender[t].pc = "checkpoint" => e.ok
                          /\ sender[t].pc = "bury" => ~e.ok
    BY <1>0, <2>1 DEF Answered
  <2>3. CASE t = s
    BY <1>1, <2>1, <2>2, <2>3 DEF AnswerOf, At, Answering, InSend
  <2>4. CASE t # s
    BY <1>1, <2>1, <2>2, <2>4 DEF AnswerOf
  <2>. QED
    BY <2>3, <2>4
<1>. QED
  BY <1>4, <1>5 DEF Answered

(* A notification that starts gets a number nobody has.                    *)
LEMMA TapSendKeeps ==
  ASSUME SendsInv, ChainTyped', NEW s \in Goroutines, NEW key \in Keys, Chain!TapSend(s, key)
  PROVE  Numbered' /\ Answered'
<1>. DEFINE r == [pc |-> "next", id |-> Chain!Started + 1, key |-> key]
<1>0. /\ ChainTyped /\ Numbered /\ Answered /\ sender' = [sender EXCEPT ![s] = r]
      /\ sent' = sent /\ sender[s] = Chain!Idle /\ Chain!Started \in Nat
  BY StartedFacts DEF SendsInv, Chain!TapSend
<1>1. /\ \A t \in Goroutines : sender'[t] = IF t = s THEN r ELSE sender[t]
      /\ \A pcs : At(pcs)' = IF "next" \in pcs THEN At(pcs) \cup {s} ELSE At(pcs) \ {s}
  <2>1. r.pc = "next"
    OBVIOUS
  <2>. HIDE DEF r
  <2>. QED
    <3>1. /\ \A t \in Goroutines : sender'[t] = IF t = s THEN r ELSE sender[t]
          /\ \A pcs : At(pcs)' = IF r.pc \in pcs THEN At(pcs) \cup {s} ELSE At(pcs) \ {s}
      BY <1>0, SenderMoves
    <3>. QED
      BY <2>1, <3>1
<1>2. \A pcs \in SUBSET InSend : s \notin At(pcs)
  BY <1>0 DEF At, InSend, Chain!Idle
<1>3. /\ At({"next"})' = At({"next"}) \cup {s} /\ s \notin At({"next"})
      /\ At(InSend)' = At(InSend) \cup {s} /\ s \notin At(InSend)
      /\ At(Answering)' = At(Answering)
  BY <1>1, <1>2 DEF InSend, Answering
<1>4. Chain!Started' = Chain!Started + 1
  <2>1. (Chain!Started = Cardinality(sent) + Cardinality(At({"next"})))'
    BY StartedCount, PTL
  <2>2. Cardinality(At({"next"})') = Cardinality(At({"next"})) + 1
    BY <1>0, <1>3, StartedFacts, FS_AddElement
  <2>. QED
    BY <1>0, <2>1, <2>2, StartedFacts
<1>5. \A t \in At(InSend) : t # s /\ t \in Goroutines /\ sender'[t] = sender[t]
                            /\ sender[t].id \in Nat
  <2>1. \A t \in At(InSend) : sender[t].id \in Nat
    BY <1>0 DEF ChainTyped, At, InSend, Chain!Id, Chain!Idle
  <2>. QED
    BY <1>1, <1>3, <2>1 DEF At
<1>6. \A e \in sent : e.id \in Nat
  BY <1>0 DEF ChainTyped, Chain!Id
<1>7. sender'[s].id = Chain!Started + 1
  BY <1>1
<1>8. Numbered'
  <2>1. At({"next"}) \subseteq At(InSend)
    BY DEF At, InSend
  <2>2. \A e \in sent : e.id <= Chain!Started /\ e.id # Chain!Started + 1
    BY <1>0, <1>6 DEF Numbered
  <2>3. \A t \in At(InSend) : sender[t].id <= Chain!Started /\ sender[t].id # Chain!Started + 1
    BY <1>0, <1>5 DEF Numbered
  <2>4. \A e \in sent' : e.id <= Chain!Started'
    BY <1>0, <1>4, <1>6, <2>2
  <2>5. \A t \in At(InSend)' : sender'[t].id <= Chain!Started'
    BY <1>0, <1>3, <1>4, <1>5, <1>7, <2>3
  <2>6. \A t, u \in At(InSend)' : sender'[t].id = sender'[u].id => t = u
    BY <1>0, <1>3, <1>5, <1>7, <2>3 DEF Numbered
  <2>7. \A t \in At({"next"})' : \A e \in sent' : e.id # sender'[t].id
    BY <1>0, <1>3, <1>5, <1>7, <2>1, <2>2 DEF Numbered
  <2>. QED
    BY <1>0, <2>4, <2>5, <2>6, <2>7 DEF Numbered
<1>9. Answered'
  <2>1. At(Answering) \subseteq At(InSend)
    BY DEF At, Answering
  <2>. QED
    BY <1>0, <1>3, <1>5, <2>1 DEF Answered, AnswerOf
<1>. QED
  BY <1>8, <1>9

(* An answer: one notification more answered and one less started, and     *)
(* what later lemmas need to know of the answer.                           *)
LEMMA NextReturnsKeeps ==
  ASSUME SendsInv, ChainTyped', NEW s \in Goroutines, Chain!NextReturns(s)
  PROVE  /\ Numbered' /\ Answered'
         /\ s \in At({"next"})
         /\ \E e : /\ e \notin sent /\ sent' = sent \cup {e}
                   /\ e.id = sender[s].id /\ e.key = sender[s].key /\ e.at = clock
                   /\ e.ok \in BOOLEAN
                   /\ \A f \in sent : f.id # e.id
                   /\ At({"checkpoint"})' = IF e.ok THEN At({"checkpoint"}) \cup {s}
                                            ELSE At({"checkpoint"})
                   /\ At({"bury"})' = IF e.ok THEN At({"bury"}) ELSE At({"bury"}) \cup {s}
                   /\ At(Answering)' = At(Answering) \cup {s}
                   /\ \A t \in Goroutines : sender'[t].id = sender[t].id
<1>0. /\ ChainTyped /\ Numbered /\ Answered /\ sender[s].pc = "next"
      /\ s \in At(InSend) /\ s \in At({"next"})
  BY DEF SendsInv, Chain!NextReturns, At, InSend
<1>. PICK ok \in BOOLEAN :
       /\ sent' = sent \cup {[id |-> sender[s].id, key |-> sender[s].key,
                              ok |-> ok, at |-> clock]}
       /\ Chain!Goto(s, IF ok THEN "checkpoint" ELSE "bury")
  BY DEF Chain!NextReturns
<1>. DEFINE e == [id |-> sender[s].id, key |-> sender[s].key, ok |-> ok, at |-> clock]
            pc == IF ok THEN "checkpoint" ELSE "bury"
            r == [pc |-> pc, id |-> sender[s].id, key |-> sender[s].key]
<1>1. pc \in Answering /\ pc \in InSend /\ pc # "next"
  BY DEF InSend, Answering
<1>2. sender' = [sender EXCEPT ![s] = r]
  BY <1>0, <1>1, GotoMoves
<1>3. /\ \A t \in Goroutines : sender'[t] = IF t = s THEN r ELSE sender[t]
      /\ \A pcs : At(pcs)' = IF pc \in pcs THEN At(pcs) \cup {s} ELSE At(pcs) \ {s}
  <2>1. r.pc = pc
    OBVIOUS
  <2>. HIDE DEF r, pc
  <2>. QED
    BY <1>0, <1>2, <2>1, SenderMoves
<1>4. /\ s \notin At({"checkpoint"}) /\ s \notin At({"bury"}) /\ s \notin At(Answering)
  BY <1>0 DEF At, Answering
<1>5. /\ At({"next"})' = At({"next"}) \ {s}
      /\ At(InSend)' = At(InSend)
      /\ At(Answering)' = At(Answering) \cup {s}
      /\ At({"checkpoint"})' = IF ok THEN At({"checkpoint"}) \cup {s} ELSE At({"checkpoint"})
      /\ At({"bury"})' = IF ok THEN At({"bury"}) ELSE At({"bury"}) \cup {s}
  BY <1>0, <1>1, <1>3, <1>4
<1>6. \A f \in sent : f.id # e.id
  BY <1>0 DEF Numbered
<1>7. e \notin sent /\ sent' = sent \cup {e}
  BY <1>6
<1>8. Chain!Started' = Chain!Started
  <2>1. (Chain!Started = Cardinality(sent) + Cardinality(At({"next"})))'
    BY StartedCount, PTL
  <2>2. Cardinality(At({"next"})') = Cardinality(At({"next"})) - 1
    BY <1>0, <1>5, StartedFacts, FS_RemoveElement
  <2>3. Cardinality(sent') = Cardinality(sent) + 1
    BY <1>0, <1>7, FS_AddElement DEF ChainTyped
  <2>. QED
    BY <1>0, <2>1, <2>2, <2>3, StartedFacts
<1>9. \A t \in Goroutines : sender'[t].id = sender[t].id
  BY <1>3
<1>10. Numbered'
  <2>1. \A t \in At(InSend) : t \in Goroutines
    BY DEF At
  <2>2. At({"next"}) \subseteq At(InSend)
    BY DEF At, InSend
  <2>3. \A f, g \in sent' : f.id = g.id => f = g
    BY <1>0, <1>6, <1>7 DEF Numbered
  <2>4. \A f \in sent' : f.id <= Chain!Started'
    BY <1>0, <1>7, <1>8 DEF Numbered
  <2>5. \A t \in At({"next"})' : \A f \in sent' : f.id # sender'[t].id
    BY <1>0, <1>5, <1>7, <1>9, <2>1, <2>2 DEF Numbered
  <2>. QED
    BY <1>0, <1>5, <1>8, <1>9, <2>1, <2>3, <2>4, <2>5 DEF Numbered
<1>11. Answered'
  <2>. SUFFICES ASSUME NEW t \in At(Answering)'
                PROVE  \E f \in sent' : /\ AnswerOf(t, f)'
                                        /\ sender'[t].pc = "checkpoint" => f.ok
                                        /\ sender'[t].pc = "bury" => ~f.ok
    BY DEF Answered
  <2>1. CASE t = s
    BY <1>0, <1>3, <1>7, <2>1 DEF AnswerOf
  <2>2. CASE t # s
    <3>1. t \in At(Answering) /\ t \in Goroutines
      BY <1>5, <2>2 DEF At
    <3>. QED
      BY <1>0, <1>3, <1>7, <2>2, <3>1 DEF Answered, AnswerOf
  <2>. QED
    BY <2>1, <2>2
<1>. QED
  BY <1>0, <1>5, <1>6, <1>7, <1>9, <1>10, <1>11

(* Nothing is on its way at first.                                         *)
LEMMA SendsInit == Chain!Init => SendsInv
<1>. SUFFICES ASSUME Chain!Init PROVE SendsInv
  OBVIOUS
<1>1. sent = {} /\ \A s \in Goroutines : sender[s].pc = "idle"
  BY DEF Chain!Init, Chain!Idle
<1>2. \A pcs \in SUBSET InSend : At(pcs) = {}
  BY <1>1 DEF At, InSend
<1>3. At(InSend) = {} /\ At(Answering) = {} /\ At({"next"}) = {}
  BY <1>2 DEF InSend, Answering
<1>. QED
  BY <1>1, <1>3, ChainTypedInit DEF SendsInv, Numbered, Answered

(* Numbers and answers depend on sent and sender only.                     *)
LEMMA SendsUnchanged ==
  ASSUME SendsInv, UNCHANGED <<sent, sender>>
  PROVE  Numbered' /\ Answered'
<1>1. \A pcs : At(pcs)' = At(pcs)
  BY DEF At
<1>2. Chain!Started' = Chain!Started
  BY DEF Chain!Started
<1>. QED
  BY <1>1, <1>2 DEF SendsInv, Numbered, Answered, AnswerOf

(* Every step of the senders keeps numbers and answers.                    *)
LEMMA SendsStep == SendsInv /\ [Chain!Next]_(Chain!vars) => SendsInv'
<1>. SUFFICES ASSUME SendsInv, [Chain!Next]_(Chain!vars) PROVE SendsInv'
  OBVIOUS
<1>0. ChainTyped' /\ ChainTyped
  BY ChainTypedStep DEF SendsInv
<1>1. CASE UNCHANGED <<sent, sender>>
  BY <1>0, <1>1, SendsUnchanged DEF SendsInv
<1>2. ASSUME NEW s \in Goroutines, NEW key \in Keys, Chain!TapSend(s, key) PROVE SendsInv'
  BY <1>0, <1>2, TapSendKeeps DEF SendsInv
<1>3. ASSUME NEW s \in Goroutines, Chain!NextReturns(s) PROVE SendsInv'
  BY <1>0, <1>3, NextReturnsKeeps DEF SendsInv
<1>4. ASSUME NEW s \in Goroutines, NEW pc \in {"audit", "observe"}, sender[s].pc \in Answering,
             Chain!Goto(s, pc), sent' = sent
      PROVE  SendsInv'
  <2>. DEFINE r == [pc |-> pc, id |-> sender[s].id, key |-> sender[s].key]
  <2>1. s \in At(InSend) /\ s \in At(Answering) /\ pc \in InSend
    BY <1>4 DEF At, InSend, Answering
  <2>2. sender' = [sender EXCEPT ![s] = r]
    BY <1>0, <1>4, <2>1, GotoMoves
  <2>3. r.pc \in {"audit", "observe"} /\ r.id = sender[s].id /\ r.key = sender[s].key
    OBVIOUS
  <2>. HIDE DEF r
  <2>. QED
    BY <1>0, <1>4, <2>1, <2>2, <2>3, OnwardKeeps DEF SendsInv
<1>5. ASSUME NEW s \in Goroutines, Chain!Observe(s) PROVE SendsInv'
  <2>1. s \in At(Answering) /\ Chain!Idle.pc = "idle"
    BY <1>5 DEF Chain!Observe, At, InSend, Answering, Chain!Idle
  <2>2. sender' = [sender EXCEPT ![s] = Chain!Idle] /\ sent' = sent
    BY <1>5 DEF Chain!Observe
  <2>. QED
    BY <1>0, <2>1, <2>2, OnwardKeeps DEF SendsInv
<1>6. ASSUME NEW s \in Goroutines, Chain!Checkpoint(s) \/ Chain!Bury(s) \/ Chain!Audit(s)
      PROVE  SendsInv'
  <2>1. \E pc \in {"audit", "observe"} : Chain!Goto(s, pc)
    BY <1>6 DEF Chain!Checkpoint, Chain!Bury, Chain!Audit
  <2>2. sender[s].pc \in Answering /\ sent' = sent
    BY <1>6 DEF Chain!Checkpoint, Chain!Bury, Chain!Audit, Answering, InSend
  <2>. QED
    BY <1>4, <2>1, <2>2
<1>. QED
  BY <1>1, <1>2, <1>3, <1>5, <1>6 DEF Chain!Next, Chain!Tick, Chain!TapReset,
     Chain!ObserverReset, Chain!CheckpointerReset, Chain!vars

(* Whose notifications are on their way at some places, after a sender     *)
(* moved.                                                                  *)
LEMMA FlightOfMove ==
  ASSUME SendsInv, NEW s \in Goroutines, NEW r, sender' = [sender EXCEPT ![s] = r],
         NEW W \in SUBSET Answering,
         \/ sender[s].pc \in InSend /\ (r.pc \in InSend => r.id = sender[s].id)
         \/ sender[s] = Chain!Idle /\ r.pc = "next"
  PROVE  Chain!InFlight(W)' = IF r.pc \in W THEN Chain!InFlight(W) \cup {r.id}
                              ELSE IF sender[s].pc \in W
                                   THEN Chain!InFlight(W) \ {sender[s].id}
                                   ELSE Chain!InFlight(W)
<1>0. ChainTyped /\ Numbered /\ At(W) \subseteq At(InSend)
  BY DEF SendsInv, At, Answering
<1>1. /\ \A t \in Goroutines : sender'[t] = IF t = s THEN r ELSE sender[t]
      /\ At(W)' = IF r.pc \in W THEN At(W) \cup {s} ELSE At(W) \ {s}
  BY <1>0, SenderMoves
<1>2. Chain!InFlight(W) = {sender[t].id : t \in At(W)}
      /\ Chain!InFlight(W)' = {sender'[t].id : t \in At(W)'}
  BY DEF Chain!InFlight, At
<1>3. s \in At(W) <=> sender[s].pc \in W
  BY DEF At
<1>4. \A t \in At(W) : t \in Goroutines
  BY DEF At
<1>5. CASE r.pc \in W
  <2>1. sender'[s].id = r.id /\ (s \in At(W) => r.id = sender[s].id)
    BY <1>1, <1>3, <1>5 DEF Chain!Idle, Answering, InSend
  <2>. QED
    BY <1>1, <1>2, <1>4, <1>5, <2>1
<1>6. CASE r.pc \notin W /\ sender[s].pc \in W
  <2>1. \A t \in At(W) : t # s => sender[t].id # sender[s].id
    BY <1>0, <1>3, <1>6 DEF Numbered
  <2>. QED
    BY <1>1, <1>2, <1>4, <1>6, <2>1
<1>7. CASE r.pc \notin W /\ sender[s].pc \notin W
  BY <1>1, <1>2, <1>3, <1>4, <1>7
<1>. QED
  BY <1>5, <1>6, <1>7

(* The senders that a step moves, and what that changes of the             *)
(* notifications on their way.                                             *)
LEMMA Flights ==
  ASSUME SendsInv, NEW s \in Goroutines
  PROVE  /\ (\E key \in Keys : Chain!TapSend(s, key)) \/ Chain!Audit(s) =>
              \A W \in {{"checkpoint"}, {"bury"}, Answering} :
                Chain!InFlight(W)' = Chain!InFlight(W)
         /\ Chain!Checkpoint(s) =>
              /\ Chain!InFlight({"checkpoint"})' = Chain!InFlight({"checkpoint"}) \ {sender[s].id}
              /\ \A W \in {{"bury"}, Answering} : Chain!InFlight(W)' = Chain!InFlight(W)
         /\ Chain!Bury(s) =>
              /\ Chain!InFlight({"bury"})' = Chain!InFlight({"bury"}) \ {sender[s].id}
              /\ \A W \in {{"checkpoint"}, Answering} : Chain!InFlight(W)' = Chain!InFlight(W)
         /\ Chain!Observe(s) =>
              /\ Chain!InFlight(Answering)' = Chain!InFlight(Answering) \ {sender[s].id}
              /\ \A W \in {{"checkpoint"}, {"bury"}} : Chain!InFlight(W)' = Chain!InFlight(W)
         /\ sender[s].pc \in Answering => sender[s].id \in Chain!InFlight(Answering)
         /\ sender[s].pc = "checkpoint" => sender[s].id \in Chain!InFlight({"checkpoint"})
         /\ sender[s].pc = "bury" => sender[s].id \in Chain!InFlight({"bury"})
<1>0. /\ ChainTyped
      /\ {"checkpoint"} \in SUBSET Answering /\ {"bury"} \in SUBSET Answering
      /\ Answering \in SUBSET Answering
  BY DEF SendsInv, Answering, InSend
<1>1. ASSUME NEW key \in Keys, Chain!TapSend(s, key), NEW W \in SUBSET Answering
      PROVE  Chain!InFlight(W)' = Chain!InFlight(W)
  <2>. DEFINE r == [pc |-> "next", id |-> Chain!Started + 1, key |-> key]
  <2>1. r.pc = "next" /\ sender[s] = Chain!Idle /\ sender' = [sender EXCEPT ![s] = r]
    BY <1>1 DEF Chain!TapSend
  <2>2. r.pc \notin W /\ sender[s].pc \notin W
    BY <2>1 DEF Answering, InSend, Chain!Idle
  <2>. HIDE DEF r
  <2>. QED
    BY <2>1, <2>2, FlightOfMove
<1>2. ASSUME NEW pc \in {"audit", "observe"}, sender[s].pc \in Answering, Chain!Goto(s, pc),
             NEW W \in SUBSET Answering
      PROVE  /\ sender[s].id \in Chain!InFlight(Answering)
             /\ Chain!InFlight(W)' = IF pc \in W THEN Chain!InFlight(W) \cup {sender[s].id}
                                     ELSE IF sender[s].pc \in W
                                          THEN Chain!InFlight(W) \ {sender[s].id}
                                          ELSE Chain!InFlight(W)
  <2>. DEFINE r == [pc |-> pc, id |-> sender[s].id, key |-> sender[s].key]
  <2>1. s \in At(InSend) /\ pc \in InSend
    BY <1>2 DEF At, InSend, Answering
  <2>2. sender' = [sender EXCEPT ![s] = r] /\ sender[s].pc \in InSend
    BY <1>0, <1>2, <2>1, GotoMoves DEF Answering
  <2>3. r.pc = pc /\ r.id = sender[s].id
    OBVIOUS
  <2>4. sender[s].id \in Chain!InFlight(Answering)
    BY <1>2 DEF Chain!InFlight
  <2>. HIDE DEF r
  <2>. QED
    BY <2>2, <2>3, <2>4, FlightOfMove
<1>3. \A W \in SUBSET Answering : sender[s].pc \in W => sender[s].id \in Chain!InFlight(W)
  BY DEF Chain!InFlight
<1>4. ASSUME Chain!Audit(s), NEW W \in {{"checkpoint"}, {"bury"}, Answering}
      PROVE  Chain!InFlight(W)' = Chain!InFlight(W)
  <2>1. sender[s].pc = "audit" /\ Chain!Goto(s, "observe") /\ "audit" \in Answering
        /\ "observe" \in Answering /\ W \in SUBSET Answering
    BY <1>4 DEF Chain!Audit, Answering, InSend
  <2>2. CASE W = Answering
    BY <1>2, <2>1, <2>2
  <2>3. CASE W # Answering
    BY <1>2, <1>4, <2>1, <2>3
  <2>. QED
    BY <2>2, <2>3
<1>5. ASSUME Chain!Checkpoint(s)
      PROVE  /\ Chain!InFlight({"checkpoint"})' = Chain!InFlight({"checkpoint"}) \ {sender[s].id}
             /\ \A W \in {{"bury"}, Answering} : Chain!InFlight(W)' = Chain!InFlight(W)
  <2>1. sender[s].pc = "checkpoint" /\ Chain!Goto(s, "audit") /\ "audit" \in Answering
        /\ "checkpoint" \in Answering
    BY <1>5 DEF Chain!Checkpoint, Answering, InSend
  <2>2. Chain!InFlight(Answering)' = Chain!InFlight(Answering)
    BY <1>0, <1>2, <2>1
  <2>3. Chain!InFlight({"bury"})' = Chain!InFlight({"bury"})
        /\ Chain!InFlight({"checkpoint"})' = Chain!InFlight({"checkpoint"}) \ {sender[s].id}
    BY <1>0, <1>2, <2>1
  <2>. QED
    BY <2>2, <2>3
<1>6. ASSUME Chain!Bury(s)
      PROVE  /\ Chain!InFlight({"bury"})' = Chain!InFlight({"bury"}) \ {sender[s].id}
             /\ \A W \in {{"checkpoint"}, Answering} : Chain!InFlight(W)' = Chain!InFlight(W)
  <2>1. sender[s].pc = "bury" /\ Chain!Goto(s, "audit") /\ "audit" \in Answering
        /\ "bury" \in Answering
    BY <1>6 DEF Chain!Bury, Answering, InSend
  <2>2. Chain!InFlight(Answering)' = Chain!InFlight(Answering)
    BY <1>0, <1>2, <2>1
  <2>3. Chain!InFlight({"checkpoint"})' = Chain!InFlight({"checkpoint"})
        /\ Chain!InFlight({"bury"})' = Chain!InFlight({"bury"}) \ {sender[s].id}
    BY <1>0, <1>2, <2>1
  <2>. QED
    BY <2>2, <2>3
<1>7. ASSUME Chain!Observe(s), NEW W \in SUBSET Answering
      PROVE  Chain!InFlight(W)' = IF "observe" \in W THEN Chain!InFlight(W) \ {sender[s].id}
                                  ELSE Chain!InFlight(W)
  <2>. DEFINE r == Chain!Idle
  <2>1. /\ sender[s].pc = "observe" /\ sender' = [sender EXCEPT ![s] = r]
        /\ r.pc \notin InSend /\ r.pc \notin W /\ sender[s].pc \in InSend
    BY <1>7 DEF Chain!Observe, InSend, Answering, Chain!Idle
  <2>. HIDE DEF r
  <2>2. Chain!InFlight(W)' = IF sender[s].pc \in W THEN Chain!InFlight(W) \ {sender[s].id}
                             ELSE Chain!InFlight(W)
    BY <2>1, FlightOfMove
  <2>. QED
    BY <2>1, <2>2
<1>8. "observe" \in Answering
  BY DEF Answering, InSend
<1>. QED
  BY <1>0, <1>1, <1>3, <1>4, <1>5, <1>6, <1>7, <1>8

(* A stored checkpoint is a record, none is not.                           *)
LEMMA CheckpointFacts ==
  ASSUME NEW id, NEW at
  PROVE  LET c == [id |-> id, at |-> at]
         IN  c # Chain!Nothing /\ c.id = id /\ c.at = at
<1>. DEFINE c == [id |-> id, at |-> at]
<1>1. DOMAIN c = {"id", "at"} /\ DOMAIN <<>> = {}
  OBVIOUS
<1>. QED
  BY <1>1 DEF Chain!Nothing

(* Checkpoints stay what they are as long as store and answers do.         *)
LEMMA CheckpointedUnchanged ==
  ASSUME Checkpointed, UNCHANGED <<store, sent, resets>>,
         Chain!InFlight({"checkpoint"})' = Chain!InFlight({"checkpoint"})
  PROVE  Checkpointed'
BY DEF Checkpointed

(* A new answer: its notification is on its way to be recorded.            *)
LEMMA NewAnswer ==
  ASSUME SendsInv, NEW s \in Goroutines, Chain!NextReturns(s)
  PROVE  \E e : /\ e \notin sent /\ sent' = sent \cup {e}
                /\ e.id = sender[s].id /\ e.ok \in BOOLEAN
                /\ \A f \in sent : f.id # e.id
                /\ Chain!InFlight({"checkpoint"})' =
                     IF e.ok THEN Chain!InFlight({"checkpoint"}) \cup {e.id}
                     ELSE Chain!InFlight({"checkpoint"})
                /\ Chain!InFlight({"bury"})' =
                     IF e.ok THEN Chain!InFlight({"bury"})
                     ELSE Chain!InFlight({"bury"}) \cup {e.id}
                /\ Chain!InFlight(Answering)' = Chain!InFlight(Answering) \cup {e.id}
<1>1. ChainTyped'
  BY ChainTypedStep DEF SendsInv, Chain!Next
<1>2. PICK e : /\ e \notin sent /\ sent' = sent \cup {e}
               /\ e.id = sender[s].id /\ e.key = sender[s].key /\ e.at = clock
               /\ e.ok \in BOOLEAN
               /\ \A f \in sent : f.id # e.id
               /\ At({"checkpoint"})' = IF e.ok THEN At({"checkpoint"}) \cup {s}
                                        ELSE At({"checkpoint"})
               /\ At({"bury"})' = IF e.ok THEN At({"bury"}) ELSE At({"bury"}) \cup {s}
               /\ At(Answering)' = At(Answering) \cup {s}
               /\ \A t \in Goroutines : sender'[t].id = sender[t].id
  BY <1>1, NextReturnsKeeps
<1>3. \A W : /\ Chain!InFlight(W) = {sender[t].id : t \in At(W)}
             /\ Chain!InFlight(W)' = {sender'[t].id : t \in At(W)'}
             /\ \A t \in At(W) : t \in Goroutines
  BY DEF Chain!InFlight, At
<1>4. \A W : At(W)' = At(W) \cup {s} => Chain!InFlight(W)' = Chain!InFlight(W) \cup {e.id}
  BY <1>2, <1>3
<1>5. \A W : At(W)' = At(W) => Chain!InFlight(W)' = Chain!InFlight(W)
  BY <1>2, <1>3
<1>6. /\ Chain!InFlight({"checkpoint"})' = IF e.ok THEN Chain!InFlight({"checkpoint"}) \cup {e.id}
                                           ELSE Chain!InFlight({"checkpoint"})
      /\ Chain!InFlight({"bury"})' = IF e.ok THEN Chain!InFlight({"bury"})
                                     ELSE Chain!InFlight({"bury"}) \cup {e.id}
  <2>1. CASE e.ok
    BY <1>2, <1>4, <1>5, <2>1
  <2>2. CASE ~e.ok
    BY <1>2, <1>4, <1>5, <2>2
  <2>. QED
    BY <2>1, <2>2
<1>7. Chain!InFlight(Answering)' = Chain!InFlight(Answering) \cup {e.id}
  BY <1>2, <1>4
<1>. QED
  BY <1>2, <1>6, <1>7

(* A new answer: a success is still to be checkpointed.                    *)
LEMMA CheckpointedAnswer ==
  ASSUME SendsInv, Checkpointed, NEW s \in Goroutines, Chain!NextReturns(s)
  PROVE  Checkpointed'
<1>1. UNCHANGED <<store, resets>>
  BY DEF Chain!NextReturns
<1>2. PICK e : /\ e \notin sent /\ sent' = sent \cup {e}
               /\ e.ok \in BOOLEAN
               /\ Chain!InFlight({"checkpoint"})' =
                     IF e.ok THEN Chain!InFlight({"checkpoint"}) \cup {e.id}
                     ELSE Chain!InFlight({"checkpoint"})
  BY NewAnswer
<1>3. \A f \in sent' : f.ok /\ f.id \notin Chain!InFlight({"checkpoint"})'
                     => f \in sent /\ f.id \notin Chain!InFlight({"checkpoint"})
  BY <1>2
<1>. QED
  BY <1>1, <1>2, <1>3 DEF Checkpointed

(* A checkpoint: the newest of its key.                                    *)
LEMMA CheckpointedStored ==
  ASSUME SendsInv, Checkpointed, NEW s \in Goroutines, Chain!Checkpoint(s)
  PROVE  Checkpointed'
<1>. DEFINE c == [id |-> sender[s].id, at |-> clock]
<1>1. /\ sender[s].pc = "checkpoint" /\ s \in At(InSend) /\ s \in At(Answering)
      /\ store' = [store EXCEPT ![sender[s].key] = c] /\ UNCHANGED <<sent, resets>>
  BY DEF Chain!Checkpoint, At, InSend, Answering
<1>2. /\ ChainTyped /\ Numbered /\ Answered
      /\ sent \subseteq [id : Chain!Id, key : Keys, ok : BOOLEAN, at : 0 .. clock]
      /\ clock \in Nat
      /\ store \in [Keys -> {Chain!Nothing} \cup [id : Chain!Id, at : 0 .. clock]]
  BY ChainTypes, PoliciesAssumption DEF SendsInv, ChainTyped
<1>. PICK e \in sent : e.id = sender[s].id /\ e.key = sender[s].key /\ e.ok
  BY <1>1, <1>2 DEF Answered, AnswerOf
<1>3. c # Chain!Nothing /\ c.id = e.id /\ c.at = clock
  BY CheckpointFacts
<1>. HIDE DEF c
<1>4. e.key \in Keys /\ store'[e.key] = c
      /\ \A key \in Keys \ {e.key} : store'[key] = store[key]
  BY <1>1, <1>2
<1>5. Chain!InFlight({"checkpoint"})' = Chain!InFlight({"checkpoint"}) \ {e.id}
  BY Flights
<1>6. \A key \in Keys : store'[key] # Chain!Nothing =>
        \E f \in sent : f.id = store'[key].id /\ f.key = key /\ f.ok
  BY <1>3, <1>4 DEF Checkpointed
<1>7. ASSUME resets = "no", NEW f \in sent, f.ok, f.id \notin Chain!InFlight({"checkpoint"})'
      PROVE  store'[f.key] # Chain!Nothing /\ store'[f.key].at >= f.at
  <2>1. f.at \in 0 .. clock /\ f.key \in Keys
    BY <1>2
  <2>2. CASE f.key = e.key
    BY <1>2, <1>3, <1>4, <2>1, <2>2
  <2>3. CASE f.key # e.key
    <3>1. f.id # e.id
      BY <1>2, <2>3 DEF Numbered
    <3>. QED
      BY <1>4, <1>5, <1>7, <2>1, <2>3, <3>1 DEF Checkpointed
  <2>. QED
    BY <2>2, <2>3
<1>. QED
  BY <1>1, <1>6, <1>7 DEF Checkpointed

(* Every step keeps the checkpoints of deliveries.                         *)
LEMMA CheckpointedStep ==
  SendsInv /\ Checkpointed /\ [Chain!Next]_(Chain!vars) => Checkpointed'
<1>. SUFFICES ASSUME SendsInv, Checkpointed, [Chain!Next]_(Chain!vars) PROVE Checkpointed'
  OBVIOUS
<1>1. CASE UNCHANGED <<store, sent, resets, sender>>
  BY <1>1 DEF Checkpointed, Chain!InFlight
<1>2. CASE Chain!ObserverReset
  BY <1>2 DEF Chain!ObserverReset, Checkpointed
<1>3. CASE Chain!CheckpointerReset
  BY <1>3 DEF Chain!CheckpointerReset, Checkpointed
<1>4. ASSUME NEW s \in Goroutines,
             \/ \E key \in Keys : Chain!TapSend(s, key)
             \/ Chain!Bury(s) \/ Chain!Audit(s) \/ Chain!Observe(s)
      PROVE  Checkpointed'
  <2>1. UNCHANGED <<store, sent, resets>>
    BY <1>4 DEF Chain!TapSend, Chain!Bury, Chain!Audit, Chain!Observe
  <2>2. Chain!InFlight({"checkpoint"})' = Chain!InFlight({"checkpoint"})
    BY <1>4, Flights
  <2>. QED
    BY <2>1, <2>2, CheckpointedUnchanged
<1>. QED
  BY <1>1, <1>2, <1>3, <1>4, CheckpointedAnswer, CheckpointedStored
     DEF Chain!Next, Chain!Tick, Chain!TapReset, Chain!observer, Chain!logs, Chain!vars

(* Whose failures the dead letter queue has recorded are finitely many.    *)
LEMMA BuriedFacts ==
  ASSUME SendsInv
  PROVE  IsFiniteSet(Buried) /\ Cardinality(Buried) \in Nat
<1>1. Buried \subseteq 1 .. MaxSends
  BY DEF SendsInv, ChainTyped, Buried, Chain!Ids, Chain!FailedSends, Chain!Id
<1>2. IsFiniteSet(1 .. MaxSends)
  BY CapacitiesFacts, FS_Interval
<1>. QED
  BY <1>1, <1>2, FS_Subset, FS_CardinalityType

(* Only Bury changes whose failures are recorded.                          *)
LEMMA BuriedChanges ==
  ASSUME SendsInv, NEW s \in Goroutines
  PROVE  /\ Chain!Bury(s) => sender[s].id \notin Buried /\ Buried' = Buried \cup {sender[s].id}
         /\ \/ \E key \in Keys : Chain!TapSend(s, key)
            \/ Chain!NextReturns(s) \/ Chain!Checkpoint(s) \/ Chain!Audit(s) \/ Chain!Observe(s)
            => Buried' = Buried
<1>1. ASSUME Chain!Bury(s)
      PROVE  sender[s].id \notin Buried /\ Buried' = Buried \cup {sender[s].id}
  <2>1. sent' = sent /\ sender[s].pc = "bury" /\ s \in At(Answering)
    BY <1>1 DEF Chain!Bury, At, Answering, InSend
  <2>2. PICK e \in sent : e.id = sender[s].id /\ ~e.ok
    BY <2>1 DEF SendsInv, Answered, AnswerOf
  <2>3. Chain!Ids(Chain!FailedSends)' = Chain!Ids(Chain!FailedSends)
        /\ sender[s].id \in Chain!Ids(Chain!FailedSends)
    BY <2>1, <2>2 DEF Chain!Ids, Chain!FailedSends
  <2>4. /\ Chain!InFlight({"bury"})' = Chain!InFlight({"bury"}) \ {sender[s].id}
        /\ sender[s].id \in Chain!InFlight({"bury"})
    BY <1>1, <2>1, Flights
  <2>. QED
    BY <2>3, <2>4 DEF Buried
<1>2. ASSUME Chain!NextReturns(s) PROVE Buried' = Buried
  <2>1. PICK e : /\ e \notin sent /\ sent' = sent \cup {e}
                 /\ e.ok \in BOOLEAN
                 /\ \A f \in sent : f.id # e.id
                 /\ Chain!InFlight({"bury"})' =
                      IF e.ok THEN Chain!InFlight({"bury"})
                      ELSE Chain!InFlight({"bury"}) \cup {e.id}
    BY <1>2, NewAnswer
  <2>2. Chain!FailedSends' = IF e.ok THEN Chain!FailedSends ELSE Chain!FailedSends \cup {e}
    BY <2>1 DEF Chain!FailedSends
  <2>3. e.id \notin Chain!Ids(Chain!FailedSends)
    BY <2>1 DEF Chain!Ids, Chain!FailedSends
  <2>4. CASE e.ok
    BY <2>1, <2>2, <2>4 DEF Buried, Chain!Ids
  <2>5. CASE ~e.ok
    <3>1. Chain!Ids(Chain!FailedSends)' = Chain!Ids(Chain!FailedSends) \cup {e.id}
      BY <2>2, <2>5 DEF Chain!Ids
    <3>. QED
      BY <2>1, <2>3, <2>5, <3>1 DEF Buried
  <2>. QED
    BY <2>4, <2>5
<1>3. ASSUME \/ \E key \in Keys : Chain!TapSend(s, key)
             \/ Chain!Checkpoint(s) \/ Chain!Audit(s) \/ Chain!Observe(s)
      PROVE  Buried' = Buried
  <2>1. sent' = sent
    BY <1>3 DEF Chain!TapSend, Chain!Checkpoint, Chain!Audit, Chain!Observe
  <2>2. Chain!InFlight({"bury"})' = Chain!InFlight({"bury"})
    BY <1>3, Flights
  <2>. QED
    BY <2>1, <2>2 DEF Buried, Chain!FailedSends
<1>. QED
  BY <1>1, <1>2, <1>3

(* The dead letter queue records a failure it has not seen.                *)
LEMMA DeadLettersBury ==
  ASSUME SendsInv, DeadLetters, NEW s \in Goroutines, Chain!Bury(s)
  PROVE  DeadLetters'
<1>. DEFINE id == sender[s].id
            cap == Chain!DeadCapacity
            shift == IF Len(dead) < cap THEN 0 ELSE 1
<1>1. /\ dead \in Seq(Chain!Id) /\ Len(dead) <= cap /\ cap \in Nat \ {0}
      /\ dead' = Chain!Record(dead, cap, id)
  BY ChainTypes, CapacitiesFacts DEF SendsInv, ChainTyped, Chain!Bury
<1>2. id \in Chain!Id
  BY GotoMoves DEF SendsInv, Chain!Bury, At, InSend
<1>3. id \notin Buried /\ Buried' = Buried \cup {id}
  BY BuriedChanges
<1>4. /\ IsFiniteSet(Buried) /\ Cardinality(Buried) \in Nat
      /\ Cardinality(Buried') = Cardinality(Buried) + 1
  BY <1>3, BuriedFacts, FS_AddElement
<1>. HIDE DEF id, cap
<1>5. /\ dead' \in Seq(Chain!Id) /\ Len(dead') = Len(dead) + 1 - shift
      /\ Len(dead) \in Nat /\ Len(dead') \in 1 .. cap
      /\ dead'[Len(dead')] = id
      /\ \A n \in 1 .. Len(dead') - 1 : n + shift \in 1 .. Len(dead) /\ dead'[n] = dead[n + shift]
  <2>1. dead' = Chain!Record(dead, cap, id) /\ shift = IF Len(dead) < cap THEN 0 ELSE 1
    BY <1>1
  <2>. HIDE DEF shift
  <2>2. dead \in Seq(Chain!Id) /\ Len(dead) <= cap /\ cap \in Nat \ {0}
    BY <1>1
  <2>3. dead' \in Seq(Chain!Id)
    BY <1>2, <2>1, <2>2, RecordFacts
  <2>4. Len(dead') = Len(dead) + 1 - shift /\ Len(dead') \in 1 .. cap /\ dead'[Len(dead')] = id
    BY <1>2, <2>1, <2>2, RecordFacts
  <2>5. ASSUME NEW n \in 1 .. Len(dead') - 1
        PROVE  n + shift \in 1 .. Len(dead) /\ dead'[n] = dead[n + shift]
    BY <1>2, <2>1, <2>2, RecordShifts
  <2>. QED
    BY <2>2, <2>3, <2>4, <2>5
<1>6. DOMAIN dead = 1 .. Len(dead) /\ DOMAIN dead' = 1 .. Len(dead')
  BY <1>1, <1>5
<1>7. shift \in {0, 1}
  OBVIOUS
<1>8. Len(dead') = IF Cardinality(Buried') < cap THEN Cardinality(Buried') ELSE cap
  BY <1>1, <1>4, <1>5 DEF DeadLetters, cap
<1>9. \A n \in 1 .. Len(dead) : dead[n] \in Buried /\ dead[n] # id
  BY <1>3, <1>6 DEF DeadLetters
<1>10. ASSUME NEW n \in DOMAIN dead' PROVE dead'[n] \in Buried'
  BY <1>3, <1>5, <1>6, <1>9
<1>. HIDE DEF shift
<1>11. ASSUME NEW m \in DOMAIN dead', NEW n \in DOMAIN dead', dead'[m] = dead'[n] PROVE m = n
  <2>1. CASE m = Len(dead') \/ n = Len(dead')
    BY <1>5, <1>6, <1>9, <1>11, <2>1
  <2>2. CASE m # Len(dead') /\ n # Len(dead')
    <3>1. /\ m + shift \in DOMAIN dead /\ n + shift \in DOMAIN dead
          /\ dead[m + shift] = dead[n + shift]
      BY <1>5, <1>6, <1>11, <2>2
    <3>. QED
      BY <1>6, <1>7, <3>1 DEF DeadLetters
  <2>. QED
    BY <2>1, <2>2
<1>. QED
  BY <1>8, <1>10, <1>11 DEF DeadLetters, cap

(* Every step keeps the dead letters the last of the failures.             *)
LEMMA DeadLettersStep ==
  SendsInv /\ DeadLetters /\ [Chain!Next]_(Chain!vars) => DeadLetters'
<1>. SUFFICES ASSUME SendsInv, DeadLetters, [Chain!Next]_(Chain!vars) PROVE DeadLetters'
  OBVIOUS
<1>1. CASE UNCHANGED <<dead, sent, sender>>
  <2>1. Buried' = Buried
    BY <1>1 DEF Buried, Chain!InFlight, Chain!FailedSends
  <2>. QED
    BY <1>1, <2>1 DEF DeadLetters
<1>2. ASSUME NEW s \in Goroutines,
             \/ \E key \in Keys : Chain!TapSend(s, key)
             \/ Chain!NextReturns(s) \/ Chain!Checkpoint(s) \/ Chain!Audit(s) \/ Chain!Observe(s)
      PROVE  DeadLetters'
  <2>1. dead' = dead
    BY <1>2 DEF Chain!TapSend, Chain!NextReturns, Chain!Checkpoint, Chain!Audit, Chain!Observe,
       Chain!logs
  <2>2. Buried' = Buried
    BY <1>2, BuriedChanges
  <2>. QED
    BY <2>1, <2>2 DEF DeadLetters
<1>. QED
  BY <1>1, <1>2, DeadLettersBury DEF Chain!Next, Chain!Tick, Chain!TapReset, Chain!ObserverReset,
     Chain!CheckpointerReset, Chain!observer, Chain!logs, Chain!vars

(* The answer that a sender on its way back carries is the one recorded.   *)
LEMMA AnswerKnown ==
  ASSUME SendsInv, NEW s \in Goroutines, sender[s].pc \in Answering
  PROVE  /\ Chain!Succeeded(s) \in BOOLEAN
         /\ \E e \in sent : e.id = sender[s].id /\ e.ok = Chain!Succeeded(s) /\ e.ok \in BOOLEAN
<1>1. s \in At(Answering)
  BY DEF At
<1>2. PICK e \in sent : e.id = sender[s].id
  BY <1>1 DEF SendsInv, Answered, AnswerOf
<1>3. e.ok \in BOOLEAN
  BY DEF SendsInv, ChainTyped
<1>4. \A f \in sent : f.id = sender[s].id => f = e
  BY <1>2 DEF SendsInv, Numbered
<1>5. Chain!Succeeded(s) <=> e.ok
  BY <1>2, <1>4 DEF Chain!Succeeded
<1>6. Chain!Succeeded(s) \in BOOLEAN
  BY DEF Chain!Succeeded
<1>. QED
  BY <1>2, <1>3, <1>5, <1>6

(* An audit entry more: what the answer says.                              *)
LEMMA AuditedAudit ==
  ASSUME SendsInv, Audited, NEW s \in Goroutines, Chain!Audit(s)
  PROVE  Audited'
<1>. DEFINE S == [id : Chain!Id, ok : BOOLEAN]
            a == [id |-> sender[s].id, ok |-> Chain!Succeeded(s)]
            cap == Chain!AuditCapacity
            shift == IF Len(audit) < cap THEN 0 ELSE 1
<1>1. /\ sent' = sent /\ sender[s].pc \in Answering
      /\ audit' = Chain!Record(audit, cap, a)
  BY DEF Chain!Audit, Answering, InSend
<1>2. PICK e \in sent : e.id = sender[s].id /\ e.ok = Chain!Succeeded(s) /\ e.ok \in BOOLEAN
  BY <1>1, AnswerKnown
<1>3. e.id \in Chain!Id
  BY DEF SendsInv, ChainTyped
<1>4. a \in S /\ a.id = e.id /\ a.ok = e.ok
  BY <1>2, <1>3
<1>5. audit \in Seq(S) /\ Len(audit) <= cap /\ cap \in Nat \ {0}
  BY ChainTypes, CapacitiesFacts DEF SendsInv, ChainTyped
<1>6. shift = IF Len(audit) < cap THEN 0 ELSE 1
  OBVIOUS
<1>. HIDE DEF S, a, cap, shift
<1>7. audit' \in Seq(S)
  BY <1>1, <1>4, <1>5, <1>6, RecordFacts
<1>8. audit'[Len(audit')] = a
  BY <1>1, <1>4, <1>5, <1>6, RecordFacts
<1>9. ASSUME NEW n \in DOMAIN audit', n # Len(audit')
      PROVE  \E f \in sent : f.id = audit'[n].id /\ f.ok = audit'[n].ok
  <2>1. n \in 1 .. Len(audit') - 1
    BY <1>7, <1>9
  <2>2. n + shift \in 1 .. Len(audit) /\ audit'[n] = audit[n + shift]
    BY <1>1, <1>4, <1>5, <1>6, <2>1, RecordShifts
  <2>3. n + shift \in DOMAIN audit
    BY <1>5, <2>2
  <2>. QED
    BY <2>2, <2>3 DEF Audited
<1>10. ASSUME NEW n \in DOMAIN audit'
       PROVE  \E f \in sent' : f.id = audit'[n].id /\ f.ok = audit'[n].ok
  BY <1>1, <1>4, <1>8, <1>9
<1>. QED
  BY <1>10 DEF Audited

(* Every step keeps the audit log true.                                    *)
LEMMA AuditedStep ==
  SendsInv /\ Audited /\ [Chain!Next]_(Chain!vars) => Audited'
<1>. SUFFICES ASSUME SendsInv, Audited, [Chain!Next]_(Chain!vars) PROVE Audited'
  OBVIOUS
<1>1. CASE UNCHANGED <<audit, sent>>
  BY <1>1 DEF Audited
<1>2. ASSUME NEW s \in Goroutines, Chain!NextReturns(s) PROVE Audited'
  <2>1. audit' = audit
    BY <1>2 DEF Chain!NextReturns, Chain!logs
  <2>2. \E e : sent' = sent \cup {e}
    BY <1>2, NewAnswer
  <2>. QED
    BY <2>1, <2>2 DEF Audited
<1>3. ASSUME NEW s \in Goroutines,
             \/ \E key \in Keys : Chain!TapSend(s, key)
             \/ Chain!Checkpoint(s) \/ Chain!Bury(s) \/ Chain!Observe(s)
      PROVE  UNCHANGED <<audit, sent>>
  BY <1>3 DEF Chain!TapSend, Chain!Checkpoint, Chain!Bury, Chain!Observe, Chain!logs
<1>. QED
  BY <1>1, <1>2, <1>3, AuditedAudit DEF Chain!Next, Chain!Tick, Chain!TapReset,
     Chain!ObserverReset, Chain!CheckpointerReset, Chain!observer, Chain!logs, Chain!vars

(* Only Observe changes which sends have returned: by the one it is about. *)
LEMMA ReturnedChanges ==
  ASSUME SendsInv, NEW s \in Goroutines
  PROVE  /\ Chain!Observe(s) =>
              \E e \in sent : /\ e \notin Returned /\ Returned' = Returned \cup {e}
                             /\ e.ok = Chain!Succeeded(s) /\ e.ok \in BOOLEAN
         /\ \/ \E key \in Keys : Chain!TapSend(s, key)
            \/ Chain!NextReturns(s) \/ Chain!Checkpoint(s) \/ Chain!Bury(s) \/ Chain!Audit(s)
            => Returned' = Returned
<1>1. ASSUME Chain!Observe(s)
      PROVE  \E e \in sent : /\ e \notin Returned /\ Returned' = Returned \cup {e}
                            /\ e.ok = Chain!Succeeded(s) /\ e.ok \in BOOLEAN
  <2>1. sent' = sent /\ sender[s].pc \in Answering
    BY <1>1 DEF Chain!Observe, Answering, InSend
  <2>2. PICK e \in sent : e.id = sender[s].id /\ e.ok = Chain!Succeeded(s) /\ e.ok \in BOOLEAN
    BY <2>1, AnswerKnown
  <2>3. /\ Chain!InFlight(Answering)' = Chain!InFlight(Answering) \ {e.id}
        /\ e.id \in Chain!InFlight(Answering)
    BY <1>1, <2>1, <2>2, Flights
  <2>4. \A f \in sent : f.id = e.id => f = e
    BY DEF SendsInv, Numbered
  <2>5. Returned' = Returned \cup {e}
    BY <2>1, <2>3, <2>4 DEF Returned
  <2>. QED
    BY <2>2, <2>3, <2>5 DEF Returned
<1>2. ASSUME Chain!NextReturns(s) PROVE Returned' = Returned
  <2>1. PICK e : /\ sent' = sent \cup {e}
                 /\ \A f \in sent : f.id # e.id
                 /\ Chain!InFlight(Answering)' = Chain!InFlight(Answering) \cup {e.id}
    BY <1>2, NewAnswer
  <2>. QED
    BY <2>1 DEF Returned
<1>3. ASSUME \/ \E key \in Keys : Chain!TapSend(s, key)
             \/ Chain!Checkpoint(s) \/ Chain!Bury(s) \/ Chain!Audit(s)
      PROVE  Returned' = Returned
  <2>1. sent' = sent
    BY <1>3 DEF Chain!TapSend, Chain!Checkpoint, Chain!Bury, Chain!Audit
  <2>2. Chain!InFlight(Answering)' = Chain!InFlight(Answering)
    BY <1>3, Flights
  <2>. QED
    BY <2>1, <2>2 DEF Returned
<1>. QED
  BY <1>1, <1>2, <1>3

(* The Observer counts one send that returned.                             *)
LEMMA ObservedObserve ==
  ASSUME SendsInv, Observed, NEW s \in Goroutines, Chain!Observe(s)
  PROVE  Observed'
<1>. DEFINE failed == Returned \cap Chain!FailedSends
<1>1. /\ total' = total + 1 /\ resets' = resets /\ sent' = sent
      /\ errors' = IF ~Chain!Succeeded(s) THEN errors + 1 ELSE errors
  BY DEF Chain!Observe, Chain!CountsError
<1>2. PICK e \in sent : /\ e \notin Returned /\ Returned' = Returned \cup {e}
                       /\ e.ok = Chain!Succeeded(s) /\ e.ok \in BOOLEAN
  BY ReturnedChanges
<1>3. /\ IsFiniteSet(Returned) /\ Cardinality(Returned) \in Nat
      /\ IsFiniteSet(failed) /\ Cardinality(failed) \in Nat
  <2>1. IsFiniteSet(sent) /\ Returned \subseteq sent /\ failed \subseteq sent
    BY DEF SendsInv, ChainTyped, Returned
  <2>. QED
    BY <2>1, FS_Subset, FS_CardinalityType
<1>4. Cardinality(Returned') = Cardinality(Returned) + 1
  BY <1>2, <1>3, FS_AddElement
<1>5. failed' = IF e.ok THEN failed ELSE failed \cup {e}
  BY <1>1, <1>2 DEF Chain!FailedSends
<1>6. Cardinality(failed') = IF e.ok THEN Cardinality(failed) ELSE Cardinality(failed) + 1
  BY <1>2, <1>3, <1>5, FS_AddElement
<1>. QED
  BY <1>1, <1>2, <1>4, <1>6 DEF Observed

(* Every step keeps the counts.                                            *)
LEMMA ObservedStep ==
  SendsInv /\ Observed /\ [Chain!Next]_(Chain!vars) => Observed'
<1>. SUFFICES ASSUME SendsInv, Observed, [Chain!Next]_(Chain!vars) PROVE Observed'
  OBVIOUS
<1>1. CASE UNCHANGED <<total, errors, sent, sender, resets>>
  <2>1. Returned' = Returned /\ Chain!FailedSends' = Chain!FailedSends
    BY <1>1 DEF Returned, Chain!InFlight, Chain!FailedSends
  <2>. QED
    BY <1>1, <2>1 DEF Observed
<1>2. CASE Chain!ObserverReset \/ Chain!CheckpointerReset
  BY <1>2 DEF Chain!ObserverReset, Chain!CheckpointerReset, Observed
<1>3. ASSUME NEW s \in Goroutines,
             \/ \E key \in Keys : Chain!TapSend(s, key)
             \/ Chain!NextReturns(s) \/ Chain!Checkpoint(s) \/ Chain!Bury(s) \/ Chain!Audit(s)
      PROVE  Observed'
  <2>1. UNCHANGED <<total, errors, resets>>
    BY <1>3 DEF Chain!TapSend, Chain!NextReturns, Chain!Checkpoint, Chain!Bury, Chain!Audit,
       Chain!observer
  <2>2. Returned' = Returned
    BY <1>3, ReturnedChanges
  <2>3. (Returned \cap Chain!FailedSends)' = Returned \cap Chain!FailedSends
    <3>1. Returned \subseteq sent /\ sent \subseteq sent'
      <4>1. CASE Chain!NextReturns(s)
        BY <4>1 DEF Returned, Chain!NextReturns
      <4>2. CASE ~Chain!NextReturns(s)
        BY <1>3, <4>2 DEF Returned, Chain!TapSend, Chain!Checkpoint, Chain!Bury, Chain!Audit
      <4>. QED
        BY <4>1, <4>2
    <3>. QED
      BY <2>2, <3>1 DEF Chain!FailedSends
  <2>. QED
    BY <2>1, <2>2, <2>3 DEF Observed
<1>. QED
  BY <1>1, <1>2, <1>3, ObservedObserve DEF Chain!Next, Chain!Tick, Chain!TapReset,
     Chain!observer, Chain!logs, Chain!vars

(* Nothing was sent or recorded at first.                                  *)
LEMMA ChainInit == Chain!Init => ChainInv
<1>. SUFFICES ASSUME Chain!Init PROVE ChainInv
  OBVIOUS
<1>1. /\ SendsInv /\ sent = {} /\ audit = <<>> /\ dead = <<>> /\ total = 0 /\ errors = 0
      /\ \A key \in Keys : store[key] = Chain!Nothing
  BY SendsInit DEF Chain!Init
<1>2. Buried = {} /\ Returned = {}
  BY <1>1 DEF Buried, Returned, Chain!Ids, Chain!FailedSends
<1>3. DOMAIN audit = {} /\ DOMAIN dead = {} /\ Len(dead) = 0
  BY <1>1
<1>4. Cardinality({}) = 0
  BY FS_EmptySet
<1>5. DeadLetters
  BY <1>2, <1>3, <1>4, CapacitiesFacts DEF DeadLetters
<1>6. Observed
  BY <1>1, <1>2, <1>4 DEF Observed
<1>. QED
  BY <1>1, <1>3, <1>5, <1>6 DEF ChainInv, Checkpointed, Audited

(* Every step of the chain.                                                *)
LEMMA ChainStep == ChainInv /\ [Chain!Next]_(Chain!vars) => ChainInv'
BY SendsStep, CheckpointedStep, DeadLettersStep, AuditedStep, ObservedStep DEF ChainInv

(* The strengthened invariant holds in every reachable state.              *)
THEOREM ChainInductive == Chain!Spec => []ChainInv
BY ChainInit, ChainStep, PTL DEF Chain!Spec

(* A checkpoint is a delivery of its key, and a key whose notification was *)
(* delivered has one for MaxAge at least: for any number of senders and    *)
(* any maximal age.                                                        *)
THEOREM DeliveriesCheckpointed == Chain!Spec => []CheckpointsAreDeliveries
<1>1. ChainInv => CheckpointsAreDeliveries
  <2>. SUFFICES ASSUME ChainInv PROVE CheckpointsAreDeliveries
    OBVIOUS
  <2>1. Checkpointed /\ ChainTyped
    BY DEF ChainInv, SendsInv
  <2>2. /\ sent \subseteq [id : Chain!Id, key : Keys, ok : BOOLEAN, at : 0 .. clock]
        /\ store \in [Keys -> {Chain!Nothing} \cup [id : Chain!Id, at : 0 .. clock]]
        /\ clock \in Nat /\ CheckpointAge \in Int
    BY <2>1, ChainTypes, PoliciesAssumption DEF ChainTyped
  <2>3. ASSUME NEW key \in Keys
        PROVE  \/ Chain!Latest(key) = Chain!Nothing
               \/ store[key] # Chain!Nothing /\ Chain!Latest(key) = <<store[key].id>>
    BY DEF Chain!Latest
  <2>4. \A x : Chain!ToSet(<<x>>) = {x}
    BY ChainOperators
  <2>5. Chain!ToSet(Chain!Nothing) = {}
    BY ChainOperators DEF Chain!Nothing
  <2>6. ASSUME NEW key \in Keys, NEW id \in Chain!ToSet(Chain!Latest(key))
        PROVE  \E e \in sent : e.id = id /\ e.key = key /\ e.ok
    <3>1. store[key] # Chain!Nothing /\ id = store[key].id
      BY <2>3, <2>4, <2>5, <2>6
    <3>. QED
      BY <2>1, <3>1 DEF Checkpointed
  <2>7. ASSUME resets = "no", NEW e \in sent, e.ok, clock - e.at <= CheckpointAge,
               e.id \notin Chain!InFlight({"checkpoint"})
        PROVE  Chain!Latest(e.key) # Chain!Nothing
    <3>1. store[e.key] # Chain!Nothing /\ store[e.key].at >= e.at
      BY <2>1, <2>7 DEF Checkpointed
    <3>2. e.key \in Keys /\ e.at \in Nat
      BY <2>2
    <3>3. store[e.key].at \in Nat
      BY <2>2, <3>1, <3>2
    <3>4. ~Chain!TooOld(store[e.key])
      BY <2>2, <2>7, <3>1, <3>2, <3>3 DEF Chain!TooOld
    <3>5. Chain!Latest(e.key) = <<store[e.key].id>>
      BY <3>1, <3>4 DEF Chain!Latest
    <3>6. Len(<<store[e.key].id>>) = 1 /\ Len(<<>>) = 0
      OBVIOUS
    <3>. QED
      BY <3>5, <3>6 DEF Chain!Nothing
  <2>. QED
    BY <2>6, <2>7 DEF CheckpointsAreDeliveries, Chain!CheckpointsAreDeliveries
<1>. QED
  BY <1>1, ChainInductive, PTL

(* Dead letters, audit log and counts agree with the answers: for any      *)
(* number of senders and any capacities.                                   *)
THEOREM RecordersAgree == Chain!Spec => []OutcomesAgree
<1>1. ChainInv => OutcomesAgree
  <2>. SUFFICES ASSUME ChainInv PROVE OutcomesAgree
    OBVIOUS
  <2>1. Answering = {"checkpoint", "bury", "audit", "observe"}
    BY DEF Answering, InSend
  <2>2. dead \in Seq(Chain!Id)
    BY ChainTypes DEF ChainInv, SendsInv, ChainTyped
  <2>3. Chain!ToSet(dead) = {dead[n] : n \in DOMAIN dead}
    BY ChainOperators
  <2>4. Cardinality(Chain!ToSet(dead)) = Len(dead)
    <3>. DEFINE D == 1 .. Len(dead)
                T == Chain!ToSet(dead)
    <3>1. /\ IsFiniteSet(D) /\ Cardinality(D) = Len(dead) /\ DOMAIN dead = D
      <4>1. Len(dead) \in Nat /\ DOMAIN dead = D
        BY <2>2
      <4>. DEFINE n == Len(dead)
      <4>. HIDE DEF n
      <4>2. n \in Nat
        BY <4>1 DEF n
      <4>3. IsFiniteSet(1 .. n) /\ Cardinality(1 .. n) = IF 1 > n THEN 0 ELSE n - 1 + 1
        BY <4>2, FS_Interval
      <4>4. Cardinality(1 .. n) = n
        BY <4>2, <4>3
      <4>. QED
        BY <4>1, <4>3, <4>4 DEF n
    <3>2. dead \in [D -> T] /\ \A t \in T : \E n \in D : dead[n] = t
      BY <2>2, <2>3, <3>1
    <3>3. \A m, n \in D : dead[m] = dead[n] => m = n
      BY <3>1 DEF ChainInv, DeadLetters
    <3>. HIDE DEF D, T
    <3>4. dead \in Surjection(D, T)
      BY <3>2 DEF Surjection
    <3>5. dead \in Injection(D, T)
      BY <3>2, <3>3 DEF Injection, IsInjective
    <3>. QED
      BY <3>1, <3>4, <3>5, FS_Surjection DEF T
  <2>5. Chain!ToSet(dead) \subseteq Buried
    BY <2>3 DEF ChainInv, DeadLetters
  <2>6. /\ Chain!Cardinality(Chain!ToSet(dead)) = Cardinality(Chain!ToSet(dead))
        /\ Chain!Cardinality(Buried) = Cardinality(Buried)
        /\ Chain!Cardinality(Returned) = Cardinality(Returned)
        /\ Chain!Cardinality(Returned \cap Chain!FailedSends) =
              Cardinality(Returned \cap Chain!FailedSends)
    BY ChainOperators
  <2>. DEFINE buried == Chain!Ids(Chain!FailedSends) \ Chain!InFlight({"bury"})
              returned == {e \in sent : e.id \notin
                             Chain!InFlight({"checkpoint", "bury", "audit", "observe"})}
  <2>7. buried = Buried /\ returned = Returned
    BY <2>1 DEF Buried, Returned
  <2>8. /\ Chain!ToSet(dead) \subseteq buried
        /\ Chain!Cardinality(Chain!ToSet(dead)) =
              IF Chain!Cardinality(buried) < Chain!DeadCapacity THEN Chain!Cardinality(buried)
              ELSE Chain!DeadCapacity
    BY <2>4, <2>5, <2>6, <2>7 DEF ChainInv, DeadLetters
  <2>9. resets = "no" => /\ total = Chain!Cardinality(returned)
                         /\ errors = Chain!Cardinality(returned \cap Chain!FailedSends)
    BY <2>6, <2>7 DEF ChainInv, Observed
  <2>10. \A n \in DOMAIN audit : \E e \in sent : e.id = audit[n].id /\ e.ok = audit[n].ok
    BY DEF ChainInv, Audited
  <2>. QED
    BY <2>8, <2>9, <2>10 DEF OutcomesAgree, Chain!OutcomesAgree
<1>. QED
  BY <1>1, ChainInductive, PTL

-----------------------------------------------------------------------------
(* 3. The three together.                                                  *)

(* They share the clock only: a step of one is a step of time or none for  *)
(* the others, so a behaviour of the three is a behaviour of each.         *)
THEOREM EachBehaves == MCSpec => Spec /\ Chain!Spec /\ Buffer!Spec
<1>1. MCInit => Init /\ Chain!Init /\ Buffer!Init
  BY DEF MCInit
<1>2. ASSUME [RingNext \/ ChainNext \/ BufferNext]_all
      PROVE  [Next]_vars /\ [Chain!Next]_(Chain!vars) /\ [Buffer!Next]_(Buffer!vars)
  <2>1. CASE RingNext
    BY <2>1 DEF RingNext, chain, buffer, Chain!vars, Chain!logs, Chain!observer, Buffer!vars,
       Buffer!history
  <2>2. CASE ChainNext
    <3>1. [Next]_vars /\ Chain!Next /\ UNCHANGED buffer
      BY <2>2 DEF ChainNext
    <3>2. clock' = clock \/ Chain!Tick
      BY <3>1 DEF Chain!Next, Chain!TapReset, Chain!ObserverReset, Chain!CheckpointerReset,
         Chain!TapSend, Chain!NextReturns, Chain!Checkpoint, Chain!Bury, Chain!Audit,
         Chain!Observe
    <3>3. CASE clock' = clock
      BY <3>1, <3>3 DEF buffer, Buffer!vars, Buffer!history
    <3>4. CASE Chain!Tick
      BY <3>1, <3>4 DEF buffer, Chain!Tick, Buffer!Tick, Buffer!Next, Buffer!history
    <3>. QED
      BY <3>1, <3>2, <3>3, <3>4
  <2>3. CASE BufferNext
    <3>1. [Next]_vars /\ Buffer!Next /\ UNCHANGED chain
      BY <2>3 DEF BufferNext
    <3>2. clock' = clock \/ Buffer!Tick
      BY <3>1 DEF Buffer!Next, Buffer!Record, Buffer!Copy, Buffer!ReadClock, Buffer!SendNext,
         Buffer!Store
    <3>3. CASE clock' = clock
      BY <3>1, <3>3 DEF chain, Chain!vars, Chain!logs, Chain!observer
    <3>4. CASE Buffer!Tick
      BY <3>1, <3>4 DEF chain, Buffer!Tick, Chain!Tick, Chain!Next, Chain!logs, Chain!observer
    <3>. QED
      BY <3>1, <3>2, <3>3, <3>4
  <2>4. CASE UNCHANGED all
    BY <2>4 DEF all, chain, buffer, Chain!vars, Chain!logs, Chain!observer, Buffer!vars,
       Buffer!history
  <2>. QED
    BY <1>2, <2>1, <2>2, <2>3, <2>4
<1>. QED
  BY <1>1, <1>2, PTL DEF MCSpec, Spec, Chain!Spec, Buffer!Spec

(* Every state of the three has its type.                                  *)
THEOREM LogsTypeCorrect == MCSpec => []LogsTypeOK
<1>1. TypeOK /\ ChainInv /\ ReplayInv => LogsTypeOK
  BY DEF ChainInv, SendsInv, ChainTyped, ReplayInv, ReplayTyped, LogsTypeOK
<1>. QED
  BY <1>1, EachBehaves, TypeCorrect, ChainInductive, ReplayInductive, PTL
=============================================================================
