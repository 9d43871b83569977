------------------------------ MODULE Bulkhead ------------------------------
(***************************************************************************)
(* alert.Bulkhead: a buffered channel used as a semaphore and, beside it,  *)
(* a counter under a mutex.  The channel operation and the counter's       *)
(* critical section are two steps, in Acquire and in Release.              *)
(***************************************************************************)
EXTENDS DispatchLimits

(* NewBulkhead's normalisation of the policy: the capacity of sem.         *)
Capacity == IF MaxConcurrent <= 0 THEN 8 ELSE MaxConcurrent

VARIABLES sem,      \* elements in the channel
          active,   \* the counter that Active reports
          caller    \* where each goroutine is in the dispatcher's Send

bulkheadVars == <<sem, active, caller>>

At(where) == {c \in Callers : caller[c] \in where}

(* Holders of a slot: sem counts them.                                     *)
Inside == At({"acquired", "sending"})

BulkheadInit ==
  /\ sem = 0
  /\ active = 0
  /\ caller = [c \in Callers |-> "idle"]

Move(c, from, to) == caller[c] = from /\ caller' = [caller EXCEPT ![c] = to]

HasRoomByCounter == active < Capacity
HasRoom == sem < Capacity

(* case b.sem <- struct{}{}                                                *)
AcquireSlot(c) ==
  /\ Move(c, "idle", "acquired")
  /\ HasRoom
  /\ sem' = sem + 1
  /\ UNCHANGED active

AcquireCount(c) ==
  /\ Move(c, "acquired", "sending")
  /\ active' = active + 1
  /\ UNCHANGED sem

(* default: return ErrBulkheadFull                                         *)
AcquireFull(c) ==
  /\ Move(c, "idle", "refused")
  /\ ~HasRoom
  /\ UNCHANGED <<sem, active>>

(* Send returns the error to its caller, which may send again.             *)
ReturnFull(c) ==
  /\ Move(c, "refused", "idle")
  /\ UNCHANGED <<sem, active>>

(* The downstream Send returned or panicked: the deferred Release runs.    *)
(* <-b.sem would block on an empty channel.                                *)
ReleaseSlot(c) ==
  /\ Move(c, "sending", "releasing")
  /\ sem > 0
  /\ sem' = sem - 1
  /\ UNCHANGED active

Decrement == active - 1

ReleaseCount(c) ==
  /\ Move(c, "releasing", "idle")
  /\ active' = Decrement
  /\ UNCHANGED sem

BulkheadNext == \E c \in Callers :
  \/ AcquireSlot(c) \/ AcquireCount(c) \/ AcquireFull(c) \/ ReturnFull(c)
  \/ ReleaseSlot(c) \/ ReleaseCount(c)

BulkheadSpec == BulkheadInit /\ [][BulkheadNext]_bulkheadVars

-----------------------------------------------------------------------------
BulkheadTypeOK ==
  /\ sem \in 0 .. Capacity
  /\ active \in 0 .. Cardinality(Callers)
  /\ caller \in [Callers -> {"idle", "acquired", "sending", "refused", "releasing"}]

(* The slots taken are the callers inside, so none is lost, and no caller  *)
(* ever waits in Release; when all are idle, both counts are back at zero. *)
SlotsAccounted ==
  /\ sem = Cardinality(Inside)
  /\ active = Cardinality(At({"sending", "releasing"}))

(* A call is refused only while Capacity callers really hold a slot.       *)
RefusesOnlyWhenFull ==
  [][\A c \in Callers : caller[c] = "idle" /\ caller'[c] = "refused"
                          => Cardinality(Inside) = Capacity]_bulkheadVars

(* The bulkhead implements the gate: never more than Capacity inside.      *)
Gate == INSTANCE ConcurrencyGate WITH Limit <- Capacity, inside <- Inside
ImplementsGate == Gate!Spec
=============================================================================
