----------------------------- MODULE ParallelSend -----------------------------
(***************************************************************************)
(* What the dispatchers with several targets share: each attempt calls the *)
(* Send of a TimeoutDispatcher.  Where targets are called at once, the     *)
(* attempt is a goroutine that puts the result on a buffered channel, from *)
(* which the caller of Send receives; in a sequence the caller waits.      *)
(* TimeoutDispatcher.Send calls next.Send in a goroutine of its own and    *)
(* gives up on it when the deadline passes or ctx is cancelled.            *)
(*                                                                         *)
(* Attempts are numbered in the order of targets or of launching.  The     *)
(* variable taken is a history variable, and counts for the callers that   *)
(* count the results they have received.                                   *)
(***************************************************************************)
EXTENDS Integers, Sequences

CONSTANT Total           \* the attempts there can be

Attempt == 1 .. Total

VARIABLES
  attempts,  \* per attempt: none, running, blocked (has an answer to hand
             \* over), done
  next,      \* per attempt: next.Send is none, running, or answered nil or fail
  err,       \* per attempt: what the TimeoutDispatcher answered: "" (not yet),
             \* nil, fail or timeout
  results,   \* the channel: attempts whose result is waiting
  taken,     \* attempts whose result the caller has received
  pc,        \* the caller: select or drain (a hedge), collect; ready, calling
             \* or waiting (a sequence); returned
  answer     \* what it returned: none (yet), nil, ctx (ctx.Err()) or error

goroutines == <<attempts, next, err>>
caller == <<taken, pc, answer>>

(* The given attempts are started at once; those in `skipped' have a nil   *)
(* result on the channel instead.                                          *)
InitSend(started, skipped) ==
  /\ attempts = [a \in Attempt |-> IF a \in started THEN "running"
                                   ELSE IF a \in skipped THEN "done" ELSE "none"]
  /\ next = [a \in Attempt |-> IF a \in started THEN "running" ELSE "none"]
  /\ err = [a \in Attempt |-> IF a \in skipped THEN "nil" ELSE ""]
  /\ taken = {} /\ answer = "none"

Launch(a) ==
  /\ attempts' = [attempts EXCEPT ![a] = "running"]
  /\ next' = [next EXCEPT ![a] = "running"]
  /\ UNCHANGED err

RoomForOne == 1
ResultsCapacity == Total

-----------------------------------------------------------------------------
(* next.Send returns, perhaps long after its TimeoutDispatcher gave up on  *)
(* it; the channel of one result has room in either case.                  *)
NextReturns(a) ==
  /\ next[a] = "running"
  /\ \E e \in {"nil", "fail"} : next' = [next EXCEPT ![a] = e]
  /\ UNCHANGED <<attempts, err, results, caller>>

Answer(a, e) ==
  /\ attempts[a] = "running"
  /\ attempts' = [attempts EXCEPT ![a] = "blocked"]
  /\ err' = [err EXCEPT ![a] = e]
  /\ UNCHANGED <<next, results, caller>>

(* The two cases of the select in TimeoutDispatcher.Send.  The deadline    *)
(* may pass at any time.                                                   *)
PassOn(a) == next[a] \in {"nil", "fail"} /\ Answer(a, next[a])
TimeOut(a) == Answer(a, "timeout")

(* results <- result{err}: blocks while the channel is full.               *)
Deliver(a) ==
  /\ attempts[a] = "blocked" /\ Len(results) < ResultsCapacity
  /\ results' = Append(results, a)
  /\ attempts' = [attempts EXCEPT ![a] = "done"]
  /\ UNCHANGED <<next, err, caller>>

Attempts == \E a \in Attempt : NextReturns(a) \/ PassOn(a) \/ TimeOut(a)

(* The caller receives a result and goes on, or returns.                   *)
Receive ==
  /\ results # <<>>
  /\ results' = Tail(results)
  /\ taken' = taken \cup {Head(results)}

Return(with) == pc' = "returned" /\ answer' = with

IsSuccess(e) == e = "nil"
===============================================================================
