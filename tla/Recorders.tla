------------------------------ MODULE Recorders ------------------------------
(***************************************************************************)
(* The dispatchers that record what passes through them, as a chain:       *)
(*   Tap > Observe > Audit > DeadLetter > Checkpoint > next,               *)
(* used by concurrent senders.  Every recorder has a lock of its own, so   *)
(* that sends overtake each other between any two of them.                 *)
(*                                                                         *)
(* Notifications are numbered in the order in which they reach the tap.    *)
(***************************************************************************)
EXTENDS Integers, Sequences, SequencesExt, FiniteSets

CONSTANTS Senders,       \* goroutines that call the chain's Send
          Keys,          \* pairs of a port and a state
          TapPolicyCap, AuditCap, DeadPolicyCap,  \* capacities, as given
          MaxAge,        \* CheckpointPolicy
          MaxSends,      \* bound of the model: notifications sent
          MaxTime        \* bound of the model: the clock stops here

(* The normalisation of the constructors.                                  *)
TapCapacity == IF TapPolicyCap <= 0 THEN 256 ELSE TapPolicyCap
AuditCapacity == IF AuditCap <= 0 THEN 256 ELSE AuditCap
DeadCapacity == IF DeadPolicyCap <= 0 THEN 100 ELSE DeadPolicyCap

Id == 1 .. MaxSends
Nothing == <<>>

VARIABLES
  tap,      \* Tap.buf
  audit,    \* AuditLog.entries: notification and success
  dead,     \* DeadLetterQueue.entries
  store,    \* Checkpointer.store: per key nothing or a notification and a time
  total, errors,  \* of the Observer
  sender,   \* per sender: where its Send is, and of what
  now,
  sent,     \* history: sends that next has answered
  resets    \* history: whether the Observer was ever reset: yes/no

logs == <<tap, audit, dead>>
observer == <<total, errors>>
vars == <<logs, store, observer, sender, now, sent, resets>>

Idle == [pc |-> "idle"]

Init ==
  /\ tap = <<>> /\ audit = <<>> /\ dead = <<>>
  /\ store = [key \in Keys |-> Nothing]
  /\ total = 0 /\ errors = 0
  /\ sender = [s \in Senders |-> Idle]
  /\ now = 0 /\ sent = {} /\ resets = "no"

Tick ==
  /\ now < MaxTime
  /\ now' = now + 1
  /\ UNCHANGED <<logs, store, observer, sender, sent, resets>>

Goto(s, pc) == sender' = [sender EXCEPT ![s].pc = pc]

Record(log, capacity, e) ==
  Append(IF Len(log) >= capacity THEN Tail(log) ELSE log, e)

Started == Cardinality(sent) + Cardinality({s \in Senders : sender[s].pc = "next"})

(* tapDispatcher.Send records the notification, then sends it on.          *)
TapSend(s, key) ==
  /\ sender[s] = Idle /\ Started < MaxSends
  /\ tap' = Record(tap, TapCapacity, Started + 1)
  /\ sender' = [sender EXCEPT ![s] = [pc |-> "next", id |-> Started + 1, key |-> key]]
  /\ UNCHANGED <<audit, dead, store, observer, now, sent, resets>>

(* The innermost dispatcher answers; a failure goes to the dead letters, a *)
(* success to the checkpoints.                                             *)
NextReturns(s) ==
  /\ sender[s].pc = "next"
  /\ \E ok \in BOOLEAN :
       /\ sent' = sent \cup {[id |-> sender[s].id, key |-> sender[s].key,
                              ok |-> ok, at |-> now]}
       /\ Goto(s, IF ok THEN "checkpoint" ELSE "bury")
  /\ UNCHANGED <<logs, store, observer, now, resets>>

Checkpoint(s) ==
  /\ sender[s].pc = "checkpoint"
  /\ store' = [store EXCEPT ![sender[s].key] = [id |-> sender[s].id, at |-> now]]
  /\ Goto(s, "audit")
  /\ UNCHANGED <<logs, observer, now, sent, resets>>

Bury(s) ==
  /\ sender[s].pc = "bury"
  /\ dead' = Record(dead, DeadCapacity, sender[s].id)
  /\ Goto(s, "audit")
  /\ UNCHANGED <<tap, audit, store, observer, now, sent, resets>>

Answered(s) == \E e \in sent : e.id = sender[s].id
Succeeded(s) == \E e \in sent : e.id = sender[s].id /\ e.ok

(* AuditDispatcher.Send records the outcome of the Send it wraps.          *)
Audit(s) ==
  /\ sender[s].pc = "audit"
  /\ audit' = Record(audit, AuditCapacity, [id |-> sender[s].id, ok |-> Succeeded(s)])
  /\ Goto(s, "observe")
  /\ UNCHANGED <<tap, dead, store, observer, now, sent, resets>>

CountsError(s) == ~Succeeded(s)

(* ObserveDispatcher.Send records the outcome and returns, never dropped.  *)
Observe(s) ==
  /\ sender[s].pc = "observe"
  /\ total' = total + 1
  /\ errors' = IF CountsError(s) THEN errors + 1 ELSE errors
  /\ sender' = [sender EXCEPT ![s] = Idle]
  /\ UNCHANGED <<logs, store, now, sent, resets>>

TapReset == tap' = <<>> /\ UNCHANGED <<audit, dead, store, observer, sender, now, sent, resets>>

ObserverReset ==
  /\ total' = 0 /\ errors' = 0 /\ resets' = "yes"
  /\ UNCHANGED <<logs, store, sender, now, sent>>

CheckpointerReset ==
  /\ store' = [key \in Keys |-> Nothing] /\ resets' = "yes"
  /\ UNCHANGED <<logs, observer, sender, now, sent>>

Next ==
  \/ Tick \/ TapReset \/ ObserverReset \/ CheckpointerReset
  \/ \E s \in Senders :
       \/ \E key \in Keys : TapSend(s, key)
       \/ NextReturns(s) \/ Checkpoint(s) \/ Bury(s) \/ Audit(s) \/ Observe(s)

Spec == Init /\ [][Next]_vars

-----------------------------------------------------------------------------
TooOldAtMaxAge(e) == MaxAge > 0 /\ now - e.at >= MaxAge
TooOld(e) == MaxAge > 0 /\ now - e.at > MaxAge

(* The notification that Latest finds for a key, if any.                   *)
Latest(key) ==
  IF store[key] = Nothing \/ TooOld(store[key]) THEN Nothing ELSE <<store[key].id>>

TypeOK ==
  /\ tap \in BoundedSeq(Id, TapCapacity) /\ dead \in BoundedSeq(Id, DeadCapacity)
  /\ audit \in BoundedSeq([id : Id, ok : BOOLEAN], AuditCapacity)
  /\ store \in [Keys -> {Nothing} \cup [id : Id, at : 0 .. now]]
  /\ errors \in 0 .. total /\ total \in Nat
  /\ now \in 0 .. MaxTime /\ resets \in {"yes", "no"}

InFlight(pcs) == {sender[s].id : s \in {t \in Senders : sender[t].pc \in pcs}}
Ids(es) == {e.id : e \in es}
FailedSends == {e \in sent : ~e.ok}

(* What the recorders tell agrees with what next answered, however senders *)
(* overtake each other.  No failed notification is dropped silently: each  *)
(* is among the dead letters as soon as its dispatcher has recorded it,    *)
(* until DeadCapacity later failures have displaced it, and nothing else   *)
(* is there.  The audit log says of every send what came of it.  The       *)
(* Observer, unless reset, has counted the sends that returned, and of     *)
(* them those that failed.                                                 *)
OutcomesAgree ==
  LET buried == Ids(FailedSends) \ InFlight({"bury"})
      returned == {e \in sent : e.id \notin InFlight({"checkpoint", "bury", "audit", "observe"})}
  IN  /\ ToSet(dead) \subseteq buried
      /\ Cardinality(ToSet(dead)) =
           IF Cardinality(buried) < DeadCapacity THEN Cardinality(buried) ELSE DeadCapacity
      /\ \A n \in DOMAIN audit : \E e \in sent : e.id = audit[n].id /\ e.ok = audit[n].ok
      /\ resets = "no" => /\ total = Cardinality(returned)
                          /\ errors = Cardinality(returned \cap FailedSends)

(* A checkpoint is a delivered notification of its key; and once a Send    *)
(* has returned success, its key has one for MaxAge at least, whatever     *)
(* other senders and failures do meanwhile.                                *)
CheckpointsAreDeliveries ==
  /\ \A key \in Keys : \A id \in ToSet(Latest(key)) :
       \E e \in sent : e.id = id /\ e.key = key /\ e.ok
  /\ resets = "no" =>
       \A e \in sent :
         e.ok /\ e.id \notin InFlight({"checkpoint"}) /\ now - e.at <= MaxAge
           => Latest(e.key) # Nothing
=============================================================================
