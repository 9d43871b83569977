------------------------------- MODULE Batcher -------------------------------
(***************************************************************************)
(* alert.Batcher: notifications are added under a mutex; a full buffer, a  *)
(* tick of Run's ticker and the end of Run hand a copy of the buffer to a  *)
(* new goroutine that calls flushFn.                                       *)
(*                                                                         *)
(* Notifications are numbered in the order they are added, batches in the  *)
(* order they are cut.                                                     *)
(***************************************************************************)
EXTENDS BufferPolicies, Sequences

CONSTANT MaxAdds   \* bound of the model: notifications added

(* NewBatcher's normalisation.                                             *)
MaxSize == IF PolicyMaxSize <= 0 THEN 10 ELSE PolicyMaxSize

VARIABLES
  buf,       \* the buffer
  ticked,    \* the ticker's channel of one: "tick" or "empty"
  run,       \* Run is "running", has been told to stop ("cancelled"), or "returned"
  batches,   \* the batches cut so far, each handed to a goroutine of its own
  handled,   \* the batches whose flushFn has returned
  added      \* history: notifications added

vars == <<buf, ticked, run, batches, handled, added>>

Init ==
  /\ buf = <<>> /\ ticked = "empty" /\ run = "running"
  /\ batches = <<>> /\ handled = {} /\ added = 0

FlushNonempty(s) == IF s = <<>> THEN UNCHANGED batches ELSE batches' = Append(batches, s)

(* flush, called with the lock held.                                       *)
Flush(s) == buf' = <<>> /\ FlushNonempty(s)

IsFull(s) == Len(s) >= MaxSize

Add ==
  /\ added < MaxAdds
  /\ added' = added + 1
  /\ LET s == Append(buf, added + 1)
     IN  \/ IsFull(s) /\ Flush(s)
         \/ ~IsFull(s) /\ buf' = s /\ UNCHANGED batches
  /\ UNCHANGED <<ticked, run, handled>>

(* A tick is dropped while another one waits.                              *)
TickerFires ==
  /\ run # "returned" /\ ticked = "empty"
  /\ ticked' = "tick"
  /\ UNCHANGED <<buf, run, batches, handled, added>>

Cancel ==
  /\ run = "running"
  /\ run' = "cancelled"
  /\ UNCHANGED <<buf, ticked, batches, handled, added>>

(* The two cases of Run's select.                                          *)
RunTick ==
  /\ run # "returned" /\ ticked = "tick"
  /\ ticked' = "empty"
  /\ Flush(buf)
  /\ UNCHANGED <<run, handled, added>>

RunDone ==
  /\ run = "cancelled"
  /\ run' = "returned"
  /\ Flush(buf)
  /\ UNCHANGED <<ticked, handled, added>>

(* go b.flushFn(snap): the goroutines run in any order.                    *)
FlushFn ==
  /\ \E k \in DOMAIN batches \ handled : handled' = handled \cup {k}
  /\ UNCHANGED <<buf, ticked, run, batches, added>>

Run == RunTick \/ RunDone

Next == Add \/ TickerFires \/ Cancel \/ Run \/ FlushFn

Spec == Init /\ [][Next]_vars

-----------------------------------------------------------------------------
TypeOK ==
  /\ buf \in Seq(Nat)
  /\ ticked \in {"tick", "empty"}
  /\ run \in {"running", "cancelled", "returned"}
  /\ batches \in Seq(Seq(Nat))
  /\ handled \subseteq DOMAIN batches
  /\ added \in 0 .. MaxAdds

(* The first and the last notification of a batch lie between those of its *)
(* neighbours: taken together the batches are 1, 2, 3 ...                  *)
StartOf(k) == IF k = 1 THEN 1 ELSE batches[k - 1][Len(batches[k - 1])] + 1
EndOfBatches == IF batches = <<>> THEN 0 ELSE batches[Len(batches)][Len(batches[Len(batches)])]

(* Every notification is in exactly one batch or still in the buffer, in   *)
(* the order of its addition; a batch is never empty or larger than        *)
(* MaxSize, and the buffer never as large: whoever else flushes meanwhile. *)
EachInOneBatch ==
  /\ \A k \in DOMAIN batches :
       /\ Len(batches[k]) \in 1 .. MaxSize
       /\ \A n \in DOMAIN batches[k] : batches[k][n] = StartOf(k) + n - 1
  /\ Len(buf) < MaxSize
  /\ \A n \in DOMAIN buf : buf[n] = EndOfBatches + n
  /\ added = EndOfBatches + Len(buf)

InBatches(n) == \E k \in handled : n \in {batches[k][m] : m \in DOMAIN batches[k]}

(* What is added while Run runs is handled in the end, full batch or not,  *)
(* and also when the context is cancelled before the next tick.            *)
HandledInTheEnd ==
  \A n \in 1 .. MaxAdds : (added = n /\ run # "returned") ~> InBatches(n)
=============================================================================
