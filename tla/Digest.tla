-------------------------------- MODULE Digest --------------------------------
(***************************************************************************)
(* alert.Digester and its DigestDispatcher: Add counts notifications by    *)
(* key in the current window, and arms a timer with the first of them; the *)
(* timer and Flush take the whole bucket under the lock and send one       *)
(* notification per key without it.                                        *)
(*                                                                         *)
(* The timer's window is not modelled: it may fire at any time.  A timer   *)
(* that has fired is stopped in vain: its goroutine flushes all the same,  *)
(* perhaps the next window.                                                *)
(***************************************************************************)
EXTENDS Integers, FiniteSets

CONSTANTS Keys,       \* "port:state"
          Flushers,   \* goroutines that flush: callers of Flush, and the timers'
          MaxEvents   \* bound of the model: notifications added per key

VARIABLES
  bucket,      \* per key: the count of its entry, 0 without one
  flushTimer,  \* nil, set (and not yet due), or fired (due, and still not nil)
  flushing,    \* per flusher: idle, started (waiting for the lock), sending
  entries,     \* per flusher: what it took and has not yet sent, per key
  events,      \* history: notifications added, per key
  sent         \* history: notifications that what was sent stands for, per key

vars == <<bucket, flushTimer, flushing, entries, events, sent>>

NoEntries == [k \in Keys |-> 0]

Init ==
  /\ bucket = NoEntries /\ flushTimer = "nil"
  /\ flushing = [f \in Flushers |-> "idle"] /\ entries = [f \in Flushers |-> NoEntries]
  /\ events = NoEntries /\ sent = NoEntries

Add(k) ==
  /\ events[k] < MaxEvents
  /\ bucket' = [bucket EXCEPT ![k] = @ + 1]
  /\ flushTimer' = IF flushTimer = "nil" THEN "set" ELSE flushTimer
  /\ events' = [events EXCEPT ![k] = @ + 1]
  /\ UNCHANGED <<flushing, entries, sent>>

Start(f) ==
  /\ flushing[f] = "idle"
  /\ flushing' = [flushing EXCEPT ![f] = "started"]
  /\ UNCHANGED <<bucket, entries, events, sent>>

(* time.AfterFunc runs flush in a goroutine of its own.                    *)
TimerFires(f) == flushTimer = "set" /\ flushTimer' = "fired" /\ Start(f)
Flush(f) == Start(f) /\ UNCHANGED flushTimer

TimerStays == UNCHANGED flushTimer
TimerStopped == flushTimer' = "nil"

(* The locked part of flush.                                               *)
TakeBucket(f) ==
  /\ flushing[f] = "started"
  /\ entries' = [entries EXCEPT ![f] = bucket]
  /\ bucket' = NoEntries
  /\ TimerStopped
  /\ flushing' = [flushing EXCEPT ![f] = "sending"]
  /\ UNCHANGED <<events, sent>>

(* One step of its loop, in the order the map yields; errors are dropped.  *)
SendEntry(f) ==
  /\ flushing[f] = "sending"
  /\ \E k \in Keys :
       /\ entries[f][k] > 0
       /\ sent' = [sent EXCEPT ![k] = @ + entries[f][k]]
       /\ entries' = [entries EXCEPT ![f][k] = 0]
  /\ UNCHANGED <<bucket, flushTimer, flushing, events>>

FlushReturns(f) ==
  /\ flushing[f] = "sending" /\ entries[f] = NoEntries
  /\ flushing' = [flushing EXCEPT ![f] = "idle"]
  /\ UNCHANGED <<bucket, flushTimer, entries, events, sent>>

FlushGoesOn(f) == TakeBucket(f) \/ SendEntry(f) \/ FlushReturns(f)

Next ==
  \/ \E k \in Keys : Add(k)
  \/ \E f \in Flushers : TimerFires(f) \/ Flush(f) \/ FlushGoesOn(f)

Spec == Init /\ [][Next]_vars

-----------------------------------------------------------------------------
TypeOK ==
  /\ bucket \in [Keys -> Nat]
  /\ flushTimer \in {"nil", "set", "fired"}
  /\ flushing \in [Flushers -> {"idle", "started", "sending"}]
  /\ entries \in [Flushers -> [Keys -> Nat]]
  /\ events \in [Keys -> 0 .. MaxEvents] /\ sent \in [Keys -> Nat]

(* The notifications that flushes have in hand, a pair for each.           *)
Taken(k) == UNION {{f} \X (1 .. entries[f][k]) : f \in Flushers}
Held(k) == Cardinality(Taken(k))

(* However flushes and additions interleave, every notification is counted *)
(* once: in the bucket, in what a flush took, or in what was sent.  While  *)
(* there is something in the bucket a flush is due: by the timer, or by    *)
(* one that has started and not yet taken it.                              *)
EventsAccounted ==
  /\ \A k \in Keys : events[k] = bucket[k] + Held(k) + sent[k]
  /\ bucket # NoEntries =>
       \/ flushTimer = "set"
       \/ flushTimer = "fired" /\ \E f \in Flushers : flushing[f] = "started"

(* Every notification is sent on in the end, in a digest of its key.       *)
DigestedInTheEnd ==
  \A k \in Keys : \A n \in 1 .. MaxEvents : events[k] = n ~> sent[k] >= n
=============================================================================
