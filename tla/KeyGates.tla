------------------------------ MODULE KeyGates ------------------------------
(***************************************************************************)
(* The gates that decide per key, all fed with the same notifications:     *)
(* rate limit, deduplication, throttling, sliding window, backoff,         *)
(* suppression windows, escalation and correlation.  Every decision is one *)
(* critical section, and the gates share nothing but the clock, so that a  *)
(* notification passes all of them in one step here.                       *)
(*                                                                         *)
(* The log says which gates let each notification through.  The gates'     *)
(* own bookkeeping is checked against what the log says they must answer.  *)
(***************************************************************************)
EXTENDS Integers, Sequences, FiniteSets

CONSTANTS
  Keys,                                    \* pairs of a port and a state
  Cooldown, DedupWindow,
  MaxBurst, BurstWindow,                   \* ThrottlePolicy
  PolicySize, PolicyMaxEvents,             \* WindowPolicy, as given
  BaseInterval, Multiplier, MaxInterval, Width,
  Threshold, MinDuration,                  \* EscalationPolicy
  WindowDuration, MinEvents,               \* CorrelatePolicy
  Day, Policies,                           \* SuppressPolicy values
  MaxTime, MaxLog                          \* bounds of the model

(* NewWindowCounter's normalisation.                                       *)
Size == IF PolicySize <= 0 THEN 60 ELSE PolicySize
MaxEvents == IF PolicyMaxEvents <= 0 THEN 10 ELSE PolicyMaxEvents

VARIABLES now, limited, deduped, bursts, timestamps, entry, state, entries,
          windows, log

Limiter == INSTANCE CooldownGate WITH Window <- Cooldown, last <- limited
Dedup == INSTANCE CooldownGate WITH Window <- DedupWindow, last <- deduped
Throttle == INSTANCE SlidingWindow WITH Size <- BurstWindow, MaxEvents <- MaxBurst,
                                        timestamps <- bursts
Window == INSTANCE SlidingWindow
BackoffGate == INSTANCE Backoff
Escalation == INSTANCE Escalator
Correlation == INSTANCE Correlator
Suppression == INSTANCE Suppressor

gates == <<limited, deduped, bursts, timestamps, entry, state, entries>>
vars == <<now, gates, windows, log>>

Init ==
  /\ now = 0 /\ log = <<>>
  /\ Limiter!Init /\ Dedup!Init /\ Throttle!Init /\ Window!Init
  /\ BackoffGate!Init /\ Escalation!Init /\ Correlation!Init
  /\ windows \in Policies

Tick ==
  /\ now < MaxTime
  /\ now' = now + 1
  /\ UNCHANGED <<gates, windows, log>>

(* The gates that forward a notification for key to what they wrap.        *)
Forwarding(key, primaryOk) ==
  {g \in {"limit", "dedup", "throttle", "window", "backoff", "escalate", "correlate",
          "deliver"} :
     \/ g = "limit" /\ Limiter!Open(key)
     \/ g = "dedup" /\ Dedup!Open(key)
     \/ g = "throttle" /\ Throttle!Open(key)
     \/ g = "window" /\ Window!Open(key)
     \/ g = "backoff" /\ BackoffGate!Open(key)
     \/ g = "escalate" /\ Escalation!Escalates(key, primaryOk)
     \/ g = "correlate" /\ Correlation!Forwards(key)
     \/ g = "deliver" /\ primaryOk}

(* A notification arrives at the dispatchers.  Whether the dispatcher they *)
(* wrap then fails makes a difference to the escalation only: the others   *)
(* have made their decision, and keep it, before they call next.           *)
Notify(key, primaryOk) ==
  /\ Len(log) < MaxLog
  /\ Limiter!Allow(key) /\ Dedup!Allow(key)
  /\ Throttle!Allow(key) /\ Window!Allow(key) /\ BackoffGate!Allow(key)
  /\ Escalation!Send(key, primaryOk) /\ Correlation!Record(key)
  /\ log' = Append(log, [key |-> key, at |-> now,
                         passed |-> Forwarding(key, primaryOk)])
  /\ UNCHANGED <<now, windows>>

(* Reset of one key, where the gate has it.                                *)
ResetKey(key) ==
  /\ Len(log) < MaxLog
  /\ Limiter!Reset(key) /\ Dedup!Reset(key) /\ Window!Reset(key)
  /\ BackoffGate!Reset(key)
  /\ log' = Append(log, [key |-> key, at |-> now, passed |-> {"reset"}])
  /\ UNCHANGED <<now, windows, bursts, state, entries>>

(* Throttler.Reset and Correlator.Reset forget every key.                  *)
ResetEvery ==
  /\ Len(log) < MaxLog
  /\ Throttle!ResetAll /\ Correlation!ResetAll
  /\ log' = Append(log, [key |-> <<>>, at |-> now, passed |-> {"reset"}])
  /\ UNCHANGED <<now, windows, limited, deduped, timestamps, entry, state>>

UpdatePolicy ==
  /\ \E ws \in Policies : Suppression!UpdatePolicy(ws)
  /\ UNCHANGED <<now, gates, log>>

Next ==
  \/ Tick \/ UpdatePolicy \/ ResetEvery
  \/ \E key \in Keys : ResetKey(key) \/ \E ok \in BOOLEAN : Notify(key, ok)

Spec == Init /\ [][Next]_vars

-----------------------------------------------------------------------------
TypeOK ==
  /\ now \in 0 .. MaxTime
  /\ limited \in [Keys -> -1 .. now] /\ deduped \in [Keys -> -1 .. now]
  /\ \A key \in Keys : /\ Len(bursts[key]) <= MaxBurst
                       /\ Len(timestamps[key]) <= MaxEvents
                       /\ entry[key].attempts \in 0 .. MaxLog
                       /\ state[key].count \in 0 .. MaxLog
                       /\ entries[key].count \in 0 .. MaxLog
  /\ windows \in Policies

Sends == {n \in DOMAIN log : log[n].passed # {"reset"}}
Forgets(r, key) == log[r].passed = {"reset"} /\ log[r].key = key

(* The earlier notifications for key that `gate' let through and that the  *)
(* gate has not been told to forget, before position n.                    *)
Passed(n, key, gate, forget) ==
  {m \in Sends : /\ m < n /\ log[m].key = key /\ gate \in log[m].passed
                 /\ \A r \in m + 1 .. n - 1 : ~Forgets(r, forget)}

(* Limiter and Deduplicator refuse a notification exactly when they let    *)
(* one for the same key through less than the period ago.                  *)
Cooled(n, gate, period) ==
  gate \in log[n].passed <=>
    \A m \in Passed(n, log[n].key, gate, log[n].key) : log[n].at - log[m].at >= period

CooldownExact ==
  \A n \in Sends : Cooled(n, "limit", Cooldown) /\ Cooled(n, "dedup", DedupWindow)

(* Those of a set of log positions that lie in the window ending at t.     *)
Recent(ms, t, size) == {m \in ms : log[m].at > t - size}

(* Throttler and WindowCounter let a notification through exactly when     *)
(* fewer than the maximum went through in the window that ends with it, so *)
(* that no window, wherever it starts, holds more than the maximum; Count  *)
(* and Keys report what went through in the current window.                *)
WindowExact ==
  /\ \A n \in Sends :
       LET key == log[n].key
           t == log[n].at
       IN  /\ "throttle" \in log[n].passed <=>
                Cardinality(Recent(Passed(n, key, "throttle", <<>>), t, BurstWindow)) < MaxBurst
           /\ "window" \in log[n].passed <=>
                Cardinality(Recent(Passed(n, key, "window", key), t, Size)) < MaxEvents
  /\ \A key \in Keys :
       LET recent == Recent(Passed(Len(log) + 1, key, "window", key), now, Size)
       IN  /\ Window!Count(key) = Cardinality(recent)
           /\ key \in Window!ActiveKeys <=> recent # {}

(* Backoff: the k-th refusal period of a key is BaseInterval for k = 1 and *)
(* from then on the base multiplied k - 1 times, up to MaxInterval; it     *)
(* refuses exactly until the period after the latest pass is over.         *)
Period(k) ==
  LET grown == BaseInterval * Multiplier ^ (k - 1)
  IN  IF k = 1 THEN BaseInterval ELSE IF grown <= MaxInterval THEN grown ELSE MaxInterval

BackoffExact ==
  \A n \in Sends :
    LET before == Passed(n, log[n].key, "backoff", log[n].key)
    IN  "backoff" \in log[n].passed <=>
          \A m \in before : log[n].at - log[m].at >= Period(Cardinality(before))

(* The closed notifications that the primary dispatcher delivered, up to   *)
(* position n and from position s on.                                      *)
ClosedFrom(s, n) ==
  {m \in Sends : s <= m /\ m <= n /\ log[m].key = log[n].key /\ "deliver" \in log[m].passed}

(* Enough and old enough: what the policy asks of the closed notifications *)
(* from s on, for the n-th to be escalated.                                *)
Due(s, n) ==
  /\ Cardinality(ClosedFrom(s, n)) >= Threshold
  /\ Cardinality(ClosedFrom(s, n)) > 1
  /\ \E m \in ClosedFrom(s, n) : log[n].at - log[m].at >= MinDuration

(* The first position after the port of n was last reported open.          *)
AfterOpen(n) ==
  LET opened == {m \in Sends : /\ m < n /\ log[m].key[1] = log[n].key[1]
                               /\ log[m].key[2] = "open"}
  IN  CHOOSE s \in 1 .. n : (\A m \in opened : m < s) /\ (s = 1 \/ s - 1 \in opened)

DeliveredClosed(n) == log[n].key[2] = "closed" /\ "deliver" \in log[n].passed

(* A notification is escalated only as one of at least Threshold delivered *)
(* for the key, the first of them MinDuration ago; and it is escalated if  *)
(* the same holds of those since the port was last reported open.          *)
EscalationJustified ==
  \A n \in Sends :
    /\ "escalate" \in log[n].passed => DeliveredClosed(n) /\ Due(1, n)
    /\ DeliveredClosed(n) /\ Due(AfterOpen(n), n) => "escalate" \in log[n].passed

(* What the documentation of the escalation says: an open notification     *)
(* resets the count, so that only what came since then escalates.          *)
EscalationSinceOpen ==
  \A n \in Sends : "escalate" \in log[n].passed => Due(AfterOpen(n), n)

(* A correlated notification is forwarded only as the MinEvents-th within  *)
(* WindowDuration, and MinEvents notifications later at the earliest than  *)
(* the one forwarded before it.                                            *)
CorrelatedOnce ==
  \A n \in Sends : "correlate" \in log[n].passed =>
    LET alike == {m \in Sends : /\ m <= n /\ log[m].key = log[n].key
                                /\ \A r \in m + 1 .. n - 1 : ~Forgets(r, <<>>)}
        window == Recent(alike, log[n].at, WindowDuration + 1)
        forwarded == Passed(n, log[n].key, "correlate", <<>>)
    IN  /\ Cardinality(window) >= MinEvents
        /\ \A f \in forwarded : Cardinality({m \in alike : m > f}) >= MinEvents

(* An instant is suppressed exactly when going back round the clock from   *)
(* it one meets the start of some window before its end.                   *)
SuppressedAsConfigured ==
  Suppression!IsSuppressed <=>
    \E w \in windows : (now - w.start) % Day < (w.end - w.start) % Day

(* The gates that are configured by a period or by windows do exactly as   *)
(* configured: Limiter, Deduplicator, Throttler, WindowCounter and         *)
(* Suppressor.                                                             *)
GatesAsConfigured == CooldownExact /\ WindowExact /\ SuppressedAsConfigured
=============================================================================
