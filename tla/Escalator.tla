------------------------------ MODULE Escalator ------------------------------
(***************************************************************************)
(* alert.Escalator behind an EscalationDispatcher: a count per key, with   *)
(* the time of the first event.  The dispatcher's key contains the state,  *)
(* so that a key is a port number with a state.                            *)
(***************************************************************************)
EXTENDS Integers

CONSTANTS Keys, Threshold, MinDuration

VARIABLES now, state   \* per key: count (0: no entry) and firstSeen

NoEntry == [count |-> 0, firstSeen |-> 0]

Init == state = [key \in Keys |-> NoEntry]

LongEnoughOrMany(s) == s.count + 1 >= Threshold \/ now - s.firstSeen >= MinDuration
LongEnough(s) == s.count + 1 >= Threshold /\ now - s.firstSeen >= MinDuration

(* What Record answers: never true on the first event.                     *)
Reached(key) == state[key].count > 0 /\ LongEnough(state[key])

Record(key) ==
  state' = [state EXCEPT ![key] =
              IF @.count = 0 THEN [count |-> 1, firstSeen |-> now]
                             ELSE [count |-> @.count + 1, firstSeen |-> @.firstSeen]]

Reset(key) == state' = [state EXCEPT ![key] = NoEntry]

IsClosed(key) == key[2] = "closed"

(* The notification for key goes to the escalation channel as well.        *)
Escalates(key, primaryOk) == primaryOk /\ IsClosed(key) /\ Reached(key)

(* EscalationDispatcher.Send: an error of the primary dispatcher returns   *)
(* before the escalator hears of the notification.                         *)
Send(key, primaryOk) ==
  \/ ~primaryOk /\ UNCHANGED state
  \/ primaryOk /\ IsClosed(key) /\ Record(key)
  \/ primaryOk /\ ~IsClosed(key) /\ Reset(key)
=============================================================================
