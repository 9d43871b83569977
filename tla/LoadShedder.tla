----------------------------- MODULE LoadShedder -----------------------------
(***************************************************************************)
(* alert.LoadShedder: one atomic counter.  Acquire adds one and, when the  *)
(* sum is above the limit, takes it back in a second atomic step.          *)
(***************************************************************************)
EXTENDS DispatchLimits

(* NewLoadShedder's normalisation of the policy.                           *)
Max == IF MaxInFlight <= 0 THEN 32 ELSE MaxInFlight

VARIABLES inflight,   \* the atomic counter
          caller      \* where each goroutine is in the dispatcher's Send

vars == <<inflight, caller>>

At(where) == {c \in Callers : caller[c] = where}

Init ==
  /\ inflight = 0
  /\ caller = [c \in Callers |-> "idle"]

Move(c, from, to) == caller[c] = from /\ caller' = [caller EXCEPT ![c] = to]

OverLate(n) == n > Max + 1
OverEarly(n) == n >= Max
Over(n) == n > Max

(* l.inflight.Add(1), and the comparison of the value it returned.         *)
AcquireAdd(c) ==
  /\ \/ ~Over(inflight + 1) /\ Move(c, "idle", "sending")
     \/ Over(inflight + 1) /\ Move(c, "idle", "undo")
  /\ inflight' = inflight + 1

TakeBack == inflight - 1

(* l.inflight.Add(-1); return ErrLoadShed                                  *)
AcquireUndo(c) ==
  /\ Move(c, "undo", "idle")
  /\ inflight' = TakeBack

(* The downstream dispatcher returned: the deferred Release runs.          *)
Release(c) ==
  /\ Move(c, "sending", "idle")
  /\ inflight' = inflight - 1

Next == \E c \in Callers : AcquireAdd(c) \/ AcquireUndo(c) \/ Release(c)

Spec == Init /\ [][Next]_vars

-----------------------------------------------------------------------------
TypeOK ==
  /\ inflight \in 0 .. Cardinality(Callers)
  /\ caller \in [Callers -> {"idle", "sending", "undo"}]

(* The counter is the number of callers sending or about to be shed: every *)
(* path gives back what it added.                                          *)
CounterAccounted == inflight = Cardinality(At("sending")) + Cardinality(At("undo"))

(* A caller is shed only while the limit is reached by callers that are in *)
(* Acquire or sending.  Refused callers that have not taken their          *)
(* increment back are among them, so that fewer than Max may be sending.   *)
ShedsOnlyWhenReached ==
  [][\A c \in Callers : caller[c] = "idle" /\ caller'[c] = "undo"
                          => Cardinality(Callers \ At("idle")) >= Max]_vars

(* The shedder implements the gate: the counter may overshoot, but never   *)
(* are more than Max callers in the downstream dispatcher.                 *)
Gate == INSTANCE ConcurrencyGate WITH Limit <- Max, inside <- At("sending")
ImplementsGate == Gate!Spec
=============================================================================
