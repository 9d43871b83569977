--------------------------- MODULE ConcurrencyGate ---------------------------
(***************************************************************************)
(* What a concurrency limiter promises its downstream dispatcher: at most  *)
(* Limit callers are inside the downstream Send at a time, and a caller    *)
(* that leaves makes room for another.  The bulkhead and the load shedder  *)
(* are both shown to implement it.                                         *)
(***************************************************************************)
EXTENDS Integers, FiniteSets

CONSTANTS Callers, Limit

VARIABLE inside    \* callers admitted to the downstream dispatcher

Init == inside = {}

Admit(c) ==
  /\ c \notin inside
  /\ Cardinality(inside) < Limit
  /\ inside' = inside \cup {c}

Leave(c) ==
  /\ c \in inside
  /\ inside' = inside \ {c}

Next == \E c \in Callers : Admit(c) \/ Leave(c)

Spec == Init /\ [][Next]_inside
=============================================================================
