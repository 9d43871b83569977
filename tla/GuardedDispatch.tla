--------------------------- MODULE GuardedDispatch ---------------------------
(***************************************************************************)
(* The two concurrency limiters composed as dispatchers are:               *)
(* NewShedDispatcher(_, NewBulkheadDispatcher(_, next)).  A goroutine runs *)
(* the bulkhead's Send inside the shedder's, and either may refuse it.     *)
(***************************************************************************)
EXTENDS Bulkhead

VARIABLES inflight,  \* the shedder's counter
          outer,     \* where each goroutine is in the shedder's Send
          returned   \* goroutines whose inner Send has returned

Shed == INSTANCE LoadShedder WITH caller <- outer

shed == <<inflight, outer>>
allVars == <<bulkheadVars, shed, returned>>

GuardedInit ==
  /\ BulkheadInit /\ Shed!Init
  /\ returned = {}

(* The shedder's Acquire, which admits the goroutine or not.               *)
Enter(c) ==
  /\ Shed!AcquireAdd(c)
  /\ returned' = returned \ {c}
  /\ UNCHANGED bulkheadVars

Undo(c) ==
  /\ Shed!AcquireUndo(c)
  /\ UNCHANGED <<bulkheadVars, returned>>

(* next.Send: the steps of the bulkhead's dispatcher up to its return.     *)
InnerSend(c) ==
  /\ outer[c] = "sending" /\ c \notin returned
  /\ AcquireSlot(c) \/ AcquireCount(c) \/ AcquireFull(c) \/ ReleaseSlot(c)
  /\ UNCHANGED <<shed, returned>>

InnerReturn(c) ==
  /\ ReturnFull(c) \/ ReleaseCount(c)
  /\ returned' = returned \cup {c}
  /\ UNCHANGED shed

LeaveAnyTime(c) ==
  /\ Shed!Release(c)
  /\ UNCHANGED <<bulkheadVars, returned>>

(* The shedder's deferred Release, once the inner Send has returned.       *)
Leave(c) ==
  /\ c \in returned
  /\ Shed!Release(c)
  /\ UNCHANGED <<bulkheadVars, returned>>

GuardedNext == \E c \in Callers :
  Enter(c) \/ Undo(c) \/ InnerSend(c) \/ InnerReturn(c) \/ Leave(c)

GuardedSpec == GuardedInit /\ [][GuardedNext]_allVars

-----------------------------------------------------------------------------
GuardedTypeOK ==
  /\ BulkheadTypeOK /\ Shed!TypeOK
  /\ returned \subseteq Callers

(* Both counters are exactly the callers that have added to them, on every *)
(* path of either, and the shedder's covers all that the bulkhead inside   *)
(* it holds, whoever is on the way in or out.                              *)
CountersAccounted ==
  /\ SlotsAccounted /\ Shed!CounterAccounted
  /\ sem <= inflight /\ active <= inflight

(* Also around a bulkhead the shedder sheds only at its limit, refused     *)
(* callers that have not left Acquire counted.                             *)
ShedsOnlyWhenReached == Shed!ShedsOnlyWhenReached

(* Composed, each of the two still implements the gate: never are more     *)
(* than its limit in what it wraps.                                        *)
ImplementGates == ImplementsGate /\ Shed!ImplementsGate
=============================================================================
