-------------------------------- MODULE Shadow --------------------------------
(***************************************************************************)
(* alert.ShadowDispatcher: the primary is called by Send, the shadow by a  *)
(* goroutine that Send leaves behind, which records a Divergence when      *)
(* exactly one of them failed.  Reset clears what is recorded.             *)
(*                                                                         *)
(* Sends are numbered in the order their primary returns.                  *)
(***************************************************************************)
EXTENDS Integers, Sequences, SequencesExt

CONSTANTS LogDivergence,   \* ShadowPolicy.LogDivergence
          MaxSends         \* bound of the model

VARIABLES
  primary,      \* what the primary answered, per Send: a sequence of nil and fail
  shadow,       \* per Send: the shadow is running, or answered nil or fail
  compared,     \* the Sends whose goroutine has compared the two and ended
  divergences,  \* the Sends whose divergence is recorded
  cleared       \* history: those of the divergences that a Reset has cleared

vars == <<primary, shadow, compared, divergences, cleared>>

Init ==
  /\ primary = <<>> /\ shadow = <<>> /\ compared = {}
  /\ divergences = <<>> /\ cleared = {}

Send(e) ==
  /\ Len(primary) < MaxSends
  /\ primary' = Append(primary, e)
  /\ shadow' = Append(shadow, "running")
  /\ UNCHANGED <<compared, divergences, cleared>>

ShadowReturns(n, e) ==
  /\ shadow[n] = "running"
  /\ shadow' = [shadow EXCEPT ![n] = e]
  /\ UNCHANGED <<primary, compared, divergences, cleared>>

ShadowFailed(n) == shadow[n] = "fail"

(* (primaryErr == nil) != (shadowErr == nil)                               *)
Differs(n) == (primary[n] = "nil") # (shadow[n] = "nil")

Compare(n) ==
  /\ shadow[n] # "running" /\ n \notin compared
  /\ divergences' = IF LogDivergence /\ Differs(n) THEN Append(divergences, n) ELSE divergences
  /\ compared' = compared \cup {n}
  /\ UNCHANGED <<primary, shadow, cleared>>

Reset ==
  /\ divergences # <<>>
  /\ divergences' = <<>>
  /\ cleared' = cleared \cup ToSet(divergences)
  /\ UNCHANGED <<primary, shadow, compared>>

Next ==
  \/ \E e \in {"nil", "fail"} : Send(e) \/ \E n \in DOMAIN shadow : ShadowReturns(n, e)
  \/ \E n \in DOMAIN shadow : Compare(n)
  \/ Reset

Spec == Init /\ [][Next]_vars

-----------------------------------------------------------------------------
TypeOK ==
  /\ primary \in Seq({"nil", "fail"})
  /\ shadow \in Seq({"running", "nil", "fail"}) /\ Len(shadow) = Len(primary)
  /\ divergences \in Seq(DOMAIN primary)
  /\ compared \subseteq DOMAIN primary /\ cleared \subseteq compared

(* With shadows that answer in any order, and also after a Reset, what is  *)
(* recorded is each Send, once, of whose two targets exactly one failed    *)
(* and that no Reset has cleared; nothing where the policy says so.        *)
DivergencesAreReal ==
  /\ ToSet(divergences) =
       {n \in compared \ cleared : LogDivergence /\ primary[n] # shadow[n]}
  /\ IsInjective(divergences)
=============================================================================
