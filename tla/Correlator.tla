----------------------------- MODULE Correlator -----------------------------
(***************************************************************************)
(* alert.Correlator: the MinEvents-th notification of a key within a       *)
(* window that starts with the first one is forwarded, the others are not. *)
(***************************************************************************)
EXTENDS Integers

CONSTANTS Keys, WindowDuration, MinEvents

VARIABLES now, entries   \* per key: count (0: no entry) and firstSeen

NoEntry == [count |-> 0, firstSeen |-> 0]

Init == entries = [key \in Keys |-> NoEntry]

Starts(key) ==
  entries[key].count = 0 \/ now - entries[key].firstSeen > WindowDuration

FromThreshold(n) == n >= MinEvents
AtThreshold(n) == n = MinEvents

(* What Record answers.                                                    *)
Forwards(key) == ~Starts(key) /\ AtThreshold(entries[key].count + 1)

Record(key) ==
  entries' = [entries EXCEPT ![key] =
                IF Starts(key) THEN [count |-> 1, firstSeen |-> now]
                               ELSE [count |-> @.count + 1, firstSeen |-> @.firstSeen]]

ResetAll == entries' = [key \in Keys |-> NoEntry]
=============================================================================
