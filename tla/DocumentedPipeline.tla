-------------------------- MODULE DocumentedPipeline --------------------------
(***************************************************************************)
(* The chain that pipeline_doc.go documents: a Pipeline of the stages      *)
(* digest, limiter (a SuppressDispatcher) and dedup, of which each also    *)
(* forwards to the one after it, as Pipeline.Send knows nothing of.        *)
(*                                                                         *)
(* One key.  What dedup forwards to is the channel: it answers nil or an   *)
(* error.                                                                  *)
(***************************************************************************)
EXTENDS Integers

CONSTANTS Callers,      \* goroutines that call Pipeline.Send
          DedupWindow,  \* DedupPolicy.Window
          QuietTimes,   \* the times in the Suppressor's windows
          MaxTime       \* bound of the model

Key == 1

VARIABLES
  now,        \* the clock
  last,       \* the Deduplicator
  bucket,     \* whether the digest holds the key
  stage,      \* per caller: idle, or the stage it is to call
  forwarded   \* history: when dedup forwarded to the channel, and how often then

vars == <<now, last, bucket, stage, forwarded>>

Deduplicator == INSTANCE CooldownGate WITH Keys <- {Key}, Window <- DedupWindow

Init ==
  /\ now = 0 /\ Deduplicator!Init /\ bucket = FALSE
  /\ stage = [c \in Callers |-> "idle"]
  /\ forwarded = [t \in 0 .. MaxTime |-> 0]

IsSuppressed == now \in QuietTimes
NeverDuplicate == TRUE
IsNew == Deduplicator!Open(Key)

(* What dedup and the limiter do with a notification, and whether they may *)
(* answer an error.                                                        *)
Dedup ==
  /\ Deduplicator!Allow(Key)
  /\ forwarded' = IF IsNew THEN [forwarded EXCEPT ![now] = @ + 1] ELSE forwarded
Limit == IF IsSuppressed THEN UNCHANGED <<last, forwarded>> ELSE Dedup
MayFail(s) == IsNew /\ (s = "dedup" \/ ~IsSuppressed)

(* Pipeline.Send calls stage s, and then the next, or aborts.              *)
Call(c, s, then) ==
  /\ stage[c] = s
  /\ \/ stage' = [stage EXCEPT ![c] = then]
     \/ s # "digest" /\ MayFail(s) /\ stage' = [stage EXCEPT ![c] = "idle"]
  /\ UNCHANGED now

Send(c) ==
  /\ stage[c] = "idle" /\ stage' = [stage EXCEPT ![c] = "digest"]
  /\ UNCHANGED <<now, last, bucket, forwarded>>

DigestStage(c) == Call(c, "digest", "limiter") /\ bucket' = TRUE /\ UNCHANGED <<last, forwarded>>
LimiterStage(c) == Call(c, "limiter", "dedup") /\ Limit /\ UNCHANGED bucket
DedupStage(c) == Call(c, "dedup", "idle") /\ Dedup /\ UNCHANGED bucket

(* The digest sends what it holds to the limiter, at any time.             *)
DigestFlush == bucket /\ bucket' = FALSE /\ Limit /\ UNCHANGED <<now, stage>>

Tick == now < MaxTime /\ now' = now + 1 /\ UNCHANGED <<last, bucket, stage, forwarded>>

Next ==
  \/ \E c \in Callers : Send(c) \/ DigestStage(c) \/ LimiterStage(c) \/ DedupStage(c)
  \/ DigestFlush \/ Tick

Spec == Init /\ [][Next]_vars

-----------------------------------------------------------------------------
(* Though a notification passes the Deduplicator up to three times, it is  *)
(* forwarded to the channel at most once in any DedupWindow.               *)
OncePerWindow ==
  /\ \A t \in 0 .. MaxTime : forwarded[t] <= 1
  /\ \A s, t \in 0 .. MaxTime :
       s < t /\ forwarded[s] > 0 /\ forwarded[t] > 0 => t - s >= DedupWindow

(* Nothing is forwarded in a suppression window.                           *)
SuppressionHolds == \A t \in QuietTimes \cap 0 .. MaxTime : forwarded[t] = 0
=============================================================================
