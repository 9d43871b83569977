-------------------------------- MODULE Replay --------------------------------
(***************************************************************************)
(* alert.Replayer behind a ReplayDispatcher: notifications are recorded by *)
(* concurrent senders while Replay copies the buffer under the lock, sends *)
(* without it, and stores what failed under the lock again.                *)
(*                                                                         *)
(* Notifications are numbered in the order they are recorded.              *)
(***************************************************************************)
EXTENDS Integers, Sequences, SequencesExt

CONSTANTS Replayers,         \* goroutines that call Replay
          PolicyMaxEvents,   \* ReplayPolicy, as given
          PolicyMaxAge,
          MaxRecords,        \* bound of the model: notifications recorded
          MaxTime            \* bound of the model: the clock stops here

(* NewReplayer's normalisation; ages in minutes.                           *)
MaxEvents == IF PolicyMaxEvents <= 0 THEN 64 ELSE PolicyMaxEvents
MaxAge == IF PolicyMaxAge <= 0 THEN 10 ELSE PolicyMaxAge

Entry == [id : 1 .. MaxRecords, storedAt : 0 .. MaxTime]

VARIABLES
  buf,        \* the buffer, oldest entry first
  replay,     \* per Replayer: its copy still to send, its failed entries
              \* and the time it read
  now,
  recorded,   \* history: notifications recorded so far
  delivered,  \* history: ids that some Replay delivered
  discarded,  \* history: ids evicted by Record or dropped as expired
  overlapped  \* history: whether a call ran into a Replay in progress: yes/no

history == <<recorded, delivered, discarded, overlapped>>
vars == <<buf, replay, now, history>>

Idle == [pc |-> "idle", todo |-> <<>>, failed |-> <<>>, at |-> 0]

Init ==
  /\ buf = <<>>
  /\ replay = [p \in Replayers |-> Idle]
  /\ now = 0
  /\ recorded = 0 /\ delivered = {} /\ discarded = {}
  /\ overlapped = "no"

Running(p) == replay[p].pc # "idle"

Tick ==
  /\ now < MaxTime
  /\ now' = now + 1
  /\ UNCHANGED <<buf, replay, history>>

Ids(s) == {s[k].id : k \in DOMAIN s}

Evict(s) == IF Len(s) >= MaxEvents THEN Tail(s) ELSE s

(* ReplayDispatcher.Send records the notification whether the downstream   *)
(* Send succeeded or failed.                                               *)
Record ==
  /\ recorded < MaxRecords
  /\ recorded' = recorded + 1
  /\ buf' = Append(Evict(buf), [id |-> recorded + 1, storedAt |-> now])
  /\ discarded' = discarded \cup (Ids(buf) \ Ids(buf'))
  /\ overlapped' = IF \E p \in Replayers : Running(p) THEN "yes" ELSE overlapped
  /\ UNCHANGED <<replay, now, delivered>>

(* Replay's first critical section.                                        *)
Copy(p) ==
  /\ ~Running(p)
  /\ replay' = [replay EXCEPT ![p] = [Idle EXCEPT !.pc = "copied", !.todo = buf]]
  /\ overlapped' = IF \E q \in Replayers : Running(q) THEN "yes" ELSE overlapped
  /\ UNCHANGED <<buf, now, recorded, delivered, discarded>>

(* now := r.clock()                                                        *)
ReadClock(p) ==
  /\ replay[p].pc = "copied"
  /\ replay' = [replay EXCEPT ![p].pc = "sending", ![p].at = now]
  /\ UNCHANGED <<buf, now, history>>

Expired(e, at) == at - e.storedAt > MaxAge

ForgetFailed(failed, e) == failed
KeepFailed(failed, e) == Append(failed, e)

(* One candidate: it is dropped when it has expired, otherwise it is sent  *)
(* to dst, without the lock, and kept when that fails.                     *)
SendNext(p) ==
  /\ replay[p].pc = "sending" /\ replay[p].todo # <<>>
  /\ LET e == Head(replay[p].todo)
         rest == [replay EXCEPT ![p].todo = Tail(@)]
     IN  \/ /\ Expired(e, replay[p].at)
            /\ replay' = rest
            /\ discarded' = discarded \cup {e.id}
            /\ UNCHANGED delivered
         \/ /\ ~Expired(e, replay[p].at)
            /\ replay' = rest
            /\ delivered' = delivered \cup {e.id}
            /\ UNCHANGED discarded
         \/ /\ ~Expired(e, replay[p].at)
            /\ replay' = [rest EXCEPT ![p].failed = KeepFailed(@, e)]
            /\ UNCHANGED <<delivered, discarded>>
  /\ UNCHANGED <<buf, now, recorded, overlapped>>

AfterReplay(failed) == failed

(* Replay's second critical section, r.buf = failed.                       *)
Store(p) ==
  /\ replay[p].pc = "sending" /\ replay[p].todo = <<>>
  /\ buf' = AfterReplay(replay[p].failed)
  /\ replay' = [replay EXCEPT ![p] = Idle]
  /\ UNCHANGED <<now, history>>

Next ==
  \/ Tick \/ Record
  \/ \E p \in Replayers : Copy(p) \/ ReadClock(p) \/ SendNext(p) \/ Store(p)

Spec == Init /\ [][Next]_vars

-----------------------------------------------------------------------------
TypeOK ==
  /\ buf \in Seq(Entry) /\ Len(buf) <= MaxEvents
  /\ \A p \in Replayers :
       /\ replay[p].pc \in {"idle", "copied", "sending"}
       /\ replay[p].todo \in Seq(Entry) /\ replay[p].failed \in Seq(Entry)
       /\ Len(replay[p].todo) + Len(replay[p].failed) <= MaxEvents
       /\ replay[p].at \in 0 .. MaxTime
  /\ now \in 0 .. MaxTime
  /\ recorded \in 0 .. MaxRecords
  /\ delivered \subseteq 1 .. recorded /\ discarded \subseteq 1 .. recorded
  /\ overlapped \in {"yes", "no"}

(* The buffer holds no notification twice and keeps the recording order,   *)
(* even when Replays and Records run into each other.                      *)
BufferInOrder ==
  \A m, n \in DOMAIN buf : m < n => /\ buf[m].id < buf[n].id
                                    /\ buf[m].storedAt <= buf[n].storedAt

(* Every notification recorded is still buffered, or was delivered by a    *)
(* Replay, or was evicted or dropped as too old, as the policy says.       *)
RecordedIsKept ==
  1 .. recorded \subseteq Ids(buf) \cup delivered \cup discarded

(* As long as calls do not overlap, nothing is lost and nothing delivered  *)
(* or dropped by a finished Replay is still there to be sent again.        *)
AccountedAlone ==
  overlapped = "no" =>
    /\ RecordedIsKept
    /\ (\A p \in Replayers : ~Running(p)) =>
          Ids(buf) \cap (delivered \cup discarded) = {}
    /\ delivered \cap discarded = {}

(* The buffer in order, and nothing lost or left by calls that do not      *)
(* overlap.                                                                *)
ReplayAccounted == BufferInOrder /\ AccountedAlone
=============================================================================
