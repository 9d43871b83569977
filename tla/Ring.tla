-------------------------------- MODULE Ring --------------------------------
(***************************************************************************)
(* history.Ring: the circular buffer of state-change events, written by    *)
(* concurrent recorders and read by Snapshot, Query and Summary.  Record   *)
(* stamps an event without a timestamp before it takes the lock: stamping  *)
(* and inserting are two steps.                                            *)
(***************************************************************************)
EXTENDS Integers, Sequences, FiniteSets

CONSTANTS Recorders,  \* goroutines that call Record
          Cap,        \* capacity, as given to NewRing
          PortIds,    \* port numbers of the recorded events
          GivenTimes, \* timestamps that callers may bring along
          MaxTime     \* bound of the model: the clock stops here

ASSUME RingAssumption ==
  /\ Cap \in Int
  /\ MaxTime \in Nat \ {0}
  /\ PortIds \subseteq Nat \ {0}
  /\ GivenTimes \subseteq Nat \ {0}

(* NewRing: a capacity that is not positive becomes 100.                   *)
Capacity == IF Cap <= 0 THEN 100 ELSE Cap

Event == [port : PortIds, state : {"open", "closed"}, time : GivenTimes \cup 1 .. MaxTime]
ZeroEvent == [port |-> 0, state |-> "", time |-> 0]
Slots == 0 .. Capacity - 1

VARIABLES events,   \* the buffer
          head,     \* next slot to write
          count,    \* slots in use
          pending,  \* per recorder: nothing, or its stamped event
          now,      \* the clock; 0 is time.Time's zero value
          latest,   \* history: per port, the state recorded last
          apart     \* history: whether Record calls were always apart, and
                    \* stamped every event themselves: yes/no

ring == <<events, head, count>>
vars == <<ring, pending, now, latest, apart>>

Idle == <<>>

Init ==
  /\ events = [s \in Slots |-> ZeroEvent]
  /\ head = 0 /\ count = 0
  /\ pending = [r \in Recorders |-> Idle]
  /\ now = 1
  /\ latest = [p \in PortIds |-> "unknown"]
  /\ apart = "yes"

Tick ==
  /\ now < MaxTime
  /\ now' = now + 1
  /\ UNCHANGED <<ring, pending, latest, apart>>

(* Record is called with a timestamp, or stamps the event with time.Now(). *)
Stamp(r) ==
  /\ pending[r] = Idle
  /\ \E p \in PortIds, s \in {"open", "closed"}, t \in GivenTimes \cup {now} :
       /\ pending' = [pending EXCEPT ![r] = <<[port |-> p, state |-> s, time |-> t]>>]
       /\ apart' = IF t = now /\ \A q \in Recorders : pending[q] = Idle THEN apart ELSE "no"
  /\ UNCHANGED <<ring, now, latest>>

NextHeadOffByOne == (head + 1) % (Capacity + 1)
NextHead == (head + 1) % Capacity
NextCount == IF count < Capacity THEN count + 1 ELSE count

(* The critical section of Record.                                         *)
Insert(r) ==
  /\ pending[r] # Idle
  /\ LET e == pending[r][1]
     IN  /\ events' = [events EXCEPT ![head] = e]
         /\ latest' = [latest EXCEPT ![e.port] = e.state]
  /\ head' = NextHead
  /\ count' = NextCount
  /\ pending' = [pending EXCEPT ![r] = Idle]
  /\ UNCHANGED <<now, apart>>

Next == Tick \/ \E r \in Recorders : Stamp(r) \/ Insert(r)

Spec == Init /\ [][Next]_vars

-----------------------------------------------------------------------------
(* Snapshot: count events from the oldest slot on.                         *)
OldestAtZero == 0
Oldest == (head - count + Capacity) % Capacity
Snapshot == [k \in 1 .. count |-> events[(Oldest + (k - 1)) % Capacity]]

(* Query: the filter's fields are optional; of the matching events the     *)
(* last Limit are kept.                                                    *)
Matches(f, e) ==
  /\ f.port = 0 \/ e.port = f.port
  /\ f.state = "" \/ e.state = f.state
  /\ f.since = 0 \/ e.time >= f.since
FirstOf(s, limit) ==
  IF limit > 0 /\ Len(s) > limit THEN SubSeq(s, 1, limit) ELSE s
LastOf(s, limit) ==
  IF limit > 0 /\ Len(s) > limit THEN SubSeq(s, Len(s) - limit + 1, Len(s)) ELSE s

(* The loop of Query: results[n] is what the first n events leave in it.   *)
Results(s, f) ==
  LET results[n \in 0 .. Len(s)] ==
        IF n = 0 THEN <<>>
        ELSE IF Matches(f, s[n]) THEN Append(results[n - 1], s[n])
        ELSE results[n - 1]
  IN  results[Len(s)]

Query(f) == LastOf(Results(Snapshot, f), f.limit)

(* Summary: later events overwrite earlier ones, so the last one counts.   *)
Summary ==
  [p \in PortIds |->
     LET at == {k \in 1 .. count : Snapshot[k].port = p}
     IN  IF at = {} THEN "unknown"
         ELSE Snapshot[CHOOSE k \in at : \A m \in at : m <= k].state]

-----------------------------------------------------------------------------
TypeOK ==
  /\ events \in [Slots -> Event \cup {ZeroEvent}]
  /\ head \in Slots
  /\ count \in 0 .. Capacity
  /\ pending \in [Recorders -> {Idle} \cup {<<e>> : e \in Event}]
  /\ now \in 1 .. MaxTime
  /\ latest \in [PortIds -> {"open", "closed", "unknown"}]
  /\ apart \in {"yes", "no"}

(* Readers see exactly the last Capacity recorded events in recording      *)
(* order: none is lost early, kept too long, duplicated or reordered, and  *)
(* the zero events of unused slots are never shown.                        *)
Log == INSTANCE BoundedLog WITH Entry <- Event, log <- Snapshot
ImplementsLog == Log!Spec

(* The indices of the events a filter selects.                             *)
Selected(f) ==
  {k \in 1 .. count :
     /\ f.port \in {0, Snapshot[k].port}
     /\ f.state \in {"", Snapshot[k].state}
     /\ Snapshot[k].time >= f.since}

Filter == [port : PortIds \cup {0}, state : {"", "open"},
           since : {0, MaxTime}, limit : 0 .. Capacity - 1]

(* The answer to f is, in recording order, the selected events with fewer  *)
(* than Limit selected events recorded after them.                         *)
IsLastMatching(answer, f) ==
  LET all == Selected(f)
      kept == {k \in all : f.limit = 0 \/ Cardinality({m \in all : m > k}) < f.limit}
  IN  /\ Len(answer) = Cardinality(kept)
      /\ \A k \in kept : answer[Cardinality({m \in kept : m <= k})] = Snapshot[k]

(* No event of an answer is older than the ones before it.                 *)
Chronological(answer) ==
  \A m, n \in DOMAIN answer : m < n => answer[m].time <= answer[n].time

(* Query returns the last Limit selected events in the order in which they *)
(* were recorded, whatever the filter combines and wherever the buffer has *)
(* wrapped.  That order is chronological as long as no Record call         *)
(* overlapped another and none brought a timestamp along.                  *)
QueryAnswers ==
  \A f \in Filter :
    LET answer == Query(f)
    IN  IsLastMatching(answer, f) /\ (apart = "yes" => Chronological(answer))

(* What query.go:29 says: "Results are returned in chronological order     *)
(* (oldest first)."  Refuted when two calls of Record overlap: both stamp  *)
(* their events before they take the lock, and may take it the other way   *)
(* round.                                                                  *)
QueryIsChronological == \A f \in Filter : Chronological(Query(f))

(* A port's summary is the state recorded last for it, or "unknown" once   *)
(* its events have been overwritten; it is never an older state.           *)
SummaryNeverStale ==
  \A p \in PortIds : Summary[p] \in {"unknown", latest[p]}
=============================================================================
