----------------------------- MODULE Suppressor -----------------------------
(***************************************************************************)
(* alert.Suppressor: daily windows during which alerts are not delivered.  *)
(* A window whose end comes before its start goes past midnight.           *)
(***************************************************************************)
EXTENDS Integers

CONSTANT Day      \* seconds of a day, scaled

VARIABLES now, windows   \* the clock, and the policy: a set of [start, end]

SecondsOfDay(t) == t % Day

Covers(w, s) ==
  \/ w.start <= w.end /\ w.start <= s /\ s < w.end
  \/ w.start > w.end /\ (w.start <= s \/ s < w.end)

IsSuppressed == \E w \in windows : Covers(w, SecondsOfDay(now))

UpdatePolicy(ws) == windows' = ws
=============================================================================
