---------------------------- MODULE SlidingWindow ----------------------------
(***************************************************************************)
(* alert.WindowCounter, and alert.Throttler which is written the same way: *)
(* per key the times that were let through, pruned on every call.          *)
(***************************************************************************)
EXTENDS Integers, Sequences, FiniteSets

CONSTANTS Keys, Size, MaxEvents   \* Throttler: BurstWindow, MaxBurst

VARIABLES now, timestamps

Init == timestamps = [key \in Keys |-> <<>>]

AfterCutoff(t) == t > now - Size
Live(key) == {k \in DOMAIN timestamps[key] : AfterCutoff(timestamps[key][k])}

(* The times that are after the cutoff.  They stand in the order in which  *)
(* they were appended, so that these are the last ones.                    *)
Pruned(key) ==
  LET n == Len(timestamps[key])
  IN  SubSeq(timestamps[key], n - Cardinality(Live(key)) + 1, n)

OpenOneMore(key) == Len(Pruned(key)) <= MaxEvents
Open(key) == Len(Pruned(key)) < MaxEvents

(* Allow answers Open(key); it stores the pruned list either way.          *)
Allow(key) ==
  timestamps' = [timestamps EXCEPT ![key] =
                   IF Open(key) THEN Append(Pruned(key), now) ELSE Pruned(key)]

Reset(key) == timestamps' = [timestamps EXCEPT ![key] = <<>>]
ResetAll == timestamps' = [key \in Keys |-> <<>>]

Count(key) == Cardinality(Live(key))
ActiveKeys == {key \in Keys : Live(key) # {}}
=============================================================================
