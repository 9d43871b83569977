----------------------------- MODULE GatesProofs -----------------------------
(* What the gates let through is what their policies ask for, and the two  *)
(* chains let a key through once a period, for any keys, callers, policies *)
(* and bounds.                                                             *)
(*                                                                         *)
(* A gate decides from the little that it keeps for a key; the properties  *)
(* speak of the whole log.  Each proof has therefore one part that says    *)
(* how what the gate keeps sums up the log so far (Cooling, Backing,       *)
(* Escalating, Correlating, Sliding), and one that says of every earlier   *)
(* notification that it was judged rightly, which nothing later changes.   *)
EXTENDS MCKeyGates, AlertChainProofs

Names == {"limit", "dedup", "throttle", "window", "backoff", "escalate", "correlate",
          "deliver", "reset"}
Entry == [key : GateKeys \cup {<<>>}, at : Nat, passed : SUBSET Names]

Next1 == Len(log) + 1   \* the position that the next entry of the log will have

(* The log is in the order of time and has no send of an unknown key.      *)
LogInv ==
  /\ clock \in 0 .. GatesMaxTime
  /\ log \in Seq(Entry) /\ Len(log) <= MaxLog
  /\ \A n \in DOMAIN log : log[n].at <= clock
  /\ \A m, n \in DOMAIN log : m <= n => log[m].at <= log[n].at
  /\ \A n \in Gates!Sends : log[n].key \in GateKeys

(* What a notification and a reset write into the log.                     *)
Noted(key, ok) == [key |-> key, at |-> clock, passed |-> Gates!Forwarding(key, ok)]
ResetOf(key) == [key |-> key, at |-> clock, passed |-> {"reset"}]

(* All that the gate let through for the key so far and has not forgotten. *)
Through(k, g, f) == Gates!Passed(Next1, k, g, f)

(* The empty key is nobody's.                                              *)
LEMMA KeysAreNotEmpty == \A k \in GateKeys : k # <<>>
<1>. SUFFICES ASSUME NEW k \in GateKeys PROVE k # <<>>
  OBVIOUS
<1>1. PICK p \in Nat, s \in {"open", "closed"} : k = <<p, s>>
  BY GatesAssumption
<1>2. Len(<<p, s>>) = 2 /\ Len(<<>>) = 0
  OBVIOUS
<1>. QED
  BY <1>1, <1>2

(* Sets are counted in the gates as they are here.                         *)
LEMMA SameCounts ==
  /\ \A S : Gates!Cardinality(S) = Cardinality(S)
  /\ \A S : Gates!Throttle!Cardinality(S) = Cardinality(S)
  /\ \A S : Gates!Window!Cardinality(S) = Cardinality(S)
BY DEF Gates!Cardinality, Gates!Throttle!Cardinality, Gates!Window!Cardinality, Cardinality

(* One entry more in the log.                                              *)
LEMMA LogGrows ==
  ASSUME log \in Seq(Entry), NEW e \in Entry, log' = Append(log, e)
  PROVE  /\ log' \in Seq(Entry) /\ Len(log) \in Nat /\ Len(log)' = Len(log) + 1
         /\ DOMAIN log = 1 .. Len(log) /\ Next1 \in Nat \ {0}
         /\ DOMAIN log' = DOMAIN log \cup {Next1} /\ Next1 \notin DOMAIN log
         /\ log'[Next1] = e /\ \A n \in DOMAIN log : log'[n] = log[n]
         /\ Next1' = Next1 + 1
BY DEF Next1

(* The sends in the log are positions of it.                               *)
LEMMA SendsAfter ==
  ASSUME log \in Seq(Entry), NEW e \in Entry, log' = Append(log, e)
  PROVE  /\ Gates!Sends \subseteq DOMAIN log
         /\ e.passed = {"reset"} => Gates!Sends' = Gates!Sends
         /\ e.passed # {"reset"} => Gates!Sends' = Gates!Sends \cup {Next1}
BY LogGrows DEF Gates!Sends

(* What an earlier position refers to stays as it is.                      *)
LEMMA PassedStays ==
  ASSUME log \in Seq(Entry), NEW e \in Entry, log' = Append(log, e),
         NEW n \in 1 .. Next1, NEW k, NEW g, NEW f
  PROVE  Gates!Passed(n, k, g, f)' = Gates!Passed(n, k, g, f)
<1>1. \A m \in DOMAIN log : /\ log'[m] = log[m] /\ (m \in Gates!Sends' <=> m \in Gates!Sends)
                            /\ Gates!Forgets(m, f)' = Gates!Forgets(m, f)
  BY LogGrows DEF Gates!Sends, Gates!Forgets
<1>2. /\ DOMAIN log = 1 .. Len(log) /\ Len(log) \in Nat /\ Next1 = Len(log) + 1
      /\ Gates!Sends \subseteq DOMAIN log /\ Gates!Sends' \subseteq DOMAIN log \cup {Next1}
  BY LogGrows DEF Gates!Sends, Next1
<1>3. ASSUME NEW m \in DOMAIN log, m < n
      PROVE  m + 1 .. n - 1 \subseteq DOMAIN log
  BY <1>2, <1>3
<1>4. ASSUME NEW m \in DOMAIN log, m < n
      PROVE  m \in Gates!Passed(n, k, g, f)' <=> m \in Gates!Passed(n, k, g, f)
  BY <1>1, <1>3, <1>4 DEF Gates!Passed
<1>5. ASSUME NEW m, m \in Gates!Passed(n, k, g, f)' \/ m \in Gates!Passed(n, k, g, f)
      PROVE  m \in DOMAIN log /\ m < n
  <2>1. m < n /\ (m \in Gates!Sends \/ m \in Gates!Sends')
    BY <1>5 DEF Gates!Passed
  <2>. QED
    BY <1>2, <2>1
<1>. QED
  BY <1>4, <1>5

(* Whether an earlier position belongs to what its gate let through.       *)
LEMMA ThroughBefore ==
  ASSUME log \in Seq(Entry), NEW e \in Entry, log' = Append(log, e),
         NEW m \in DOMAIN log, NEW k, NEW g, NEW f
  PROVE  m \in Through(k, g, f)' <=>
           m \in Through(k, g, f) /\ ~(e.passed = {"reset"} /\ e.key = f)
<1>0. /\ DOMAIN log = 1 .. Len(log) /\ Len(log) \in Nat /\ Next1 = Len(log) + 1
      /\ Next1' = Next1 + 1 /\ log'[Next1] = e /\ m \in 1 .. Len(log)
      /\ \A n \in DOMAIN log : log'[n] = log[n]
  BY LogGrows DEF Next1
<1>1. \A n \in DOMAIN log : /\ n \in Gates!Sends' <=> n \in Gates!Sends
                            /\ Gates!Forgets(n, f)' <=> Gates!Forgets(n, f)
  BY <1>0, LogGrows DEF Gates!Sends, Gates!Forgets
<1>3. m + 1 .. Next1 = (m + 1 .. Next1 - 1) \cup {Next1} /\ m + 1 .. Next1 - 1 \subseteq DOMAIN log
  BY <1>0
<1>. DEFINE Gone(r) == log'[r].passed = {"reset"} /\ log'[r].key = f
<1>4. (\A r \in m + 1 .. Next1' - 1 : ~Gone(r)) <=>
        (\A r \in m + 1 .. Next1 - 1 : ~Gates!Forgets(r, f))
        /\ ~(e.passed = {"reset"} /\ e.key = f)
  <2>1. Next1' - 1 = Next1
    BY <1>0
  <2>2. \A r \in DOMAIN log : Gone(r) <=> Gates!Forgets(r, f)
    BY <1>0 DEF Gates!Forgets
  <2>3. Gone(Next1) <=> e.passed = {"reset"} /\ e.key = f
    BY <1>0
  <2>. HIDE DEF Gone
  <2>. QED
    BY <1>3, <2>1, <2>2, <2>3
<1>5. m \in Through(k, g, f)' <=>
        /\ m \in Gates!Sends' /\ m < Next1' /\ log'[m].key = k /\ g \in log'[m].passed
        /\ \A r \in m + 1 .. Next1' - 1 : ~Gone(r)
  BY DEF Through, Gates!Passed, Gates!Forgets
<1>6. m \in Through(k, g, f) <=>
        /\ m \in Gates!Sends /\ m < Next1 /\ log[m].key = k /\ g \in log[m].passed
        /\ \A r \in m + 1 .. Next1 - 1 : ~Gates!Forgets(r, f)
  BY DEF Through, Gates!Passed
<1>7. m < Next1 /\ m < Next1' /\ log'[m] = log[m] /\ (m \in Gates!Sends' <=> m \in Gates!Sends)
  BY <1>0, <1>1
<1>. HIDE DEF Gone
<1>. QED
  BY <1>4, <1>5, <1>6, <1>7

(* The positions of a log of length n are n.                               *)
LEMMA PositionsCounted ==
  ASSUME NEW n \in Nat
  PROVE  IsFiniteSet(1 .. n) /\ Cardinality(1 .. n) = n
<1>1. IsFiniteSet(1 .. n) /\ Cardinality(1 .. n) = IF 1 > n THEN 0 ELSE n - 1 + 1
  BY FS_Interval
<1>. QED
  BY <1>1

(* They are positions of the log, in which the gate let the key through.   *)
LEMMA ThroughFacts ==
  ASSUME log \in Seq(Entry), NEW k, NEW g, NEW f
  PROVE  /\ Through(k, g, f) \subseteq Gates!Sends /\ Through(k, g, f) \subseteq 1 .. Len(log)
         /\ \A m \in Through(k, g, f) : log[m].key = k /\ g \in log[m].passed
         /\ IsFiniteSet(Through(k, g, f)) /\ Cardinality(Through(k, g, f)) \in 0 .. Len(log)
<1>1. /\ Through(k, g, f) \subseteq Gates!Sends /\ Through(k, g, f) \subseteq 1 .. Len(log)
      /\ \A m \in Through(k, g, f) : log[m].key = k /\ g \in log[m].passed
  BY DEF Through, Gates!Passed, Gates!Sends
<1>2. Len(log) \in Nat
  OBVIOUS
<1>3. /\ IsFiniteSet(1 .. Len(log)) /\ Cardinality(1 .. Len(log)) = Len(log)
  BY <1>2, PositionsCounted
<1>4. /\ IsFiniteSet(Through(k, g, f)) /\ Cardinality(Through(k, g, f)) <= Len(log)
  BY <1>1, <1>3, FS_Subset
<1>. QED
  BY <1>1, <1>2, <1>4, FS_CardinalityType

(* A send adds itself to what its gates have let through.                  *)
LEMMA ThroughAfterSend ==
  ASSUME log \in Seq(Entry), NEW e \in Entry, log' = Append(log, e), e.passed # {"reset"},
         NEW k, NEW g, NEW f
  PROVE  /\ e.key = k /\ g \in e.passed => Through(k, g, f)' = Through(k, g, f) \cup {Next1}
         /\ ~(e.key = k /\ g \in e.passed) => Through(k, g, f)' = Through(k, g, f)
<1>0. /\ DOMAIN log = 1 .. Len(log) /\ Len(log) \in Nat /\ Next1 = Len(log) + 1
      /\ Next1' = Next1 + 1 /\ log'[Next1] = e /\ Gates!Sends' = Gates!Sends \cup {Next1}
      /\ Gates!Sends \subseteq DOMAIN log
  BY LogGrows, SendsAfter DEF Next1
<1>1. \A m \in DOMAIN log : m \in Through(k, g, f)' <=> m \in Through(k, g, f)
  BY ThroughBefore
<1>2. Next1 \in Through(k, g, f)' <=> e.key = k /\ g \in e.passed
  <2>1. \A r : r \notin Next1 + 1 .. Next1' - 1
    BY <1>0
  <2>. DEFINE n == Next1
  <2>2. n \in Through(k, g, f)' <=>
          /\ n \in Gates!Sends' /\ n < Next1' /\ log'[n].key = k /\ g \in log'[n].passed
          /\ \A r \in n + 1 .. Next1' - 1 : ~(log'[r].passed = {"reset"} /\ log'[r].key = f)
    BY DEF Through, Gates!Passed, Gates!Forgets
  <2>. QED
    BY <1>0, <2>1, <2>2
<1>3. Through(k, g, f) \subseteq DOMAIN log /\ Through(k, g, f)' \subseteq Gates!Sends'
  BY <1>0, ThroughFacts DEF Through, Gates!Passed
<1>4. CASE e.key = k /\ g \in e.passed
  BY <1>0, <1>1, <1>2, <1>3, <1>4
<1>5. CASE ~(e.key = k /\ g \in e.passed)
  BY <1>0, <1>1, <1>2, <1>3, <1>5
<1>. QED
  BY <1>4, <1>5

(* The same for the gate that lets it through.                             *)
LEMMA ThroughGrows ==
  ASSUME log \in Seq(Entry), NEW e \in Entry, log' = Append(log, e), e.passed # {"reset"},
         NEW g, g \in e.passed, NEW k, e.key = k, NEW f
  PROVE  Through(k, g, f)' = Through(k, g, f) \cup {Next1}
<1>1. Through(k, g, f)' = Through(k, g, f) \cup {Next1} <=>
        \A m : m \in Through(k, g, f)' <=> m \in Through(k, g, f) \/ m = Next1
  OBVIOUS
<1>2. \A m : m \in Through(k, g, f)' <=> m \in Through(k, g, f) \/ m = Next1
  BY ThroughAfterSend
<1>. QED
  BY <1>1, <1>2

(* A reset empties what the gates that it concerns remember.               *)
LEMMA ThroughAfterReset ==
  ASSUME log \in Seq(Entry), NEW e \in Entry, log' = Append(log, e), e.passed = {"reset"},
         NEW k, NEW g, NEW f
  PROVE  /\ e.key = f => Through(k, g, f)' = {}
         /\ e.key # f => Through(k, g, f)' = Through(k, g, f)
<1>0. Gates!Sends' = Gates!Sends /\ Gates!Sends \subseteq DOMAIN log /\ DOMAIN log = 1 .. Len(log)
  BY SendsAfter, LogGrows
<1>1. \A m \in DOMAIN log : m \in Through(k, g, f)' <=> m \in Through(k, g, f) /\ e.key # f
  BY ThroughBefore
<1>2. Through(k, g, f) \subseteq DOMAIN log /\ Through(k, g, f)' \subseteq Gates!Sends'
  BY <1>0, ThroughFacts DEF Through, Gates!Passed
<1>. QED
  BY <1>0, <1>1, <1>2

(* A notification writes down which gates it passes, at the present time.  *)
LEMMA NotifyWrites ==
  ASSUME LogInv, NEW k \in GateKeys, NEW ok \in BOOLEAN, Gates!Notify(k, ok)
  PROVE  /\ Noted(k, ok) \in Entry /\ log' = Append(log, Noted(k, ok)) /\ clock' = clock
         /\ Noted(k, ok).key = k /\ Noted(k, ok).at = clock /\ Len(log) < MaxLog
         /\ Noted(k, ok).passed = Gates!Forwarding(k, ok) /\ Noted(k, ok).passed # {"reset"}
<1>1. Gates!Forwarding(k, ok) \subseteq Names /\ "reset" \notin Gates!Forwarding(k, ok)
  BY DEF Gates!Forwarding, Names
<1>2. clock \in Nat
  BY GatesAssumption DEF LogInv
<1>3. Noted(k, ok) \in Entry
  BY <1>1, <1>2 DEF Noted, Entry
<1>. QED
  BY <1>1, <1>3 DEF Gates!Notify, Noted

(* A reset writes down what it forgets.                                    *)
LEMMA ResetWrites ==
  ASSUME LogInv, NEW k \in GateKeys \cup {<<>>}, log' = Append(log, ResetOf(k))
  PROVE  /\ ResetOf(k) \in Entry /\ ResetOf(k).passed = {"reset"} /\ ResetOf(k).key = k
         /\ ResetOf(k).at = clock
<1>1. clock \in Nat /\ {"reset"} \subseteq Names
  BY GatesAssumption DEF LogInv, Names
<1>. QED
  BY <1>1 DEF ResetOf, Entry

(* The log stays in order when something is written at the present time.   *)
LEMMA LogAfter ==
  ASSUME LogInv, NEW e \in Entry, log' = Append(log, e), Len(log) < MaxLog, clock' = clock,
         e.at = clock, e.passed # {"reset"} => e.key \in GateKeys
  PROVE  LogInv'
<1>0. /\ log \in Seq(Entry) /\ clock \in Nat /\ MaxLog \in Nat
      /\ \A n \in DOMAIN log : log[n].at <= clock
  BY GatesAssumption DEF LogInv
<1>1. /\ DOMAIN log = 1 .. Len(log) /\ Len(log) \in Nat /\ Next1 = Len(log) + 1
      /\ DOMAIN log' = DOMAIN log \cup {Next1} /\ log'[Next1] = e /\ Len(log') = Len(log) + 1
      /\ \A n \in DOMAIN log : log'[n] = log[n] /\ n < Next1
      /\ log' \in Seq(Entry) /\ Next1 \in Nat /\ \A n \in DOMAIN log : n \in Nat
  BY <1>0, LogGrows DEF Next1
<1>2. \A n \in DOMAIN log' : log'[n].at <= clock'
  BY <1>0, <1>1
<1>3. ASSUME NEW m \in DOMAIN log', NEW n \in DOMAIN log', m <= n
      PROVE  log'[m].at <= log'[n].at
  <2>1. CASE n = Next1
    BY <1>1, <1>2, <2>1
  <2>2. CASE n # Next1
    <3>1. n \in DOMAIN log /\ m \in DOMAIN log
      BY <1>1, <1>3, <2>2
    <3>. QED
      BY <1>1, <1>3, <3>1 DEF LogInv
  <2>. QED
    BY <2>1, <2>2
<1>4. \A n \in Gates!Sends' : log'[n].key \in GateKeys
  <2>1. Gates!Sends' \subseteq Gates!Sends \cup {Next1} /\ Gates!Sends \subseteq DOMAIN log
        /\ (e.passed = {"reset"} => Gates!Sends' = Gates!Sends)
    BY <1>0, SendsAfter
  <2>2. \A n \in Gates!Sends : log'[n].key \in GateKeys
    BY <1>1, <2>1 DEF LogInv
  <2>. QED
    BY <1>1, <2>1, <2>2
<1>5. Len(log') <= MaxLog
  BY <1>0, <1>1
<1>. QED
  BY <1>0, <1>1, <1>2, <1>3, <1>4, <1>5 DEF LogInv

(* What a step of the gates is: a notification, one of the two resets, or  *)
(* a step that writes nothing down and leaves the gates alone.             *)
LEMMA GatesStepCases ==
  ASSUME LogInv, [Gates!Next]_(Gates!vars)
  PROVE  \/ \E k \in GateKeys, ok \in BOOLEAN : Gates!Notify(k, ok)
         \/ \E k \in GateKeys : Gates!ResetKey(k)
         \/ Gates!ResetEvery
         \/ UNCHANGED <<log, Gates!gates>> /\ clock <= clock' /\ clock' \in 0 .. GatesMaxTime
<1>1. clock \in 0 .. GatesMaxTime /\ GatesMaxTime \in Nat
  BY GatesAssumption DEF LogInv
<1>2. CASE Gates!Tick \/ Gates!UpdatePolicy \/ UNCHANGED Gates!vars
  BY <1>1, <1>2 DEF Gates!Tick, Gates!UpdatePolicy, Gates!vars
<1>. QED
  BY <1>2 DEF Gates!Next

(* Every step keeps the log in order.                                      *)
LEMMA LogStep == ASSUME LogInv, [Gates!Next]_(Gates!vars) PROVE LogInv'
<1>1. ASSUME NEW k \in GateKeys, NEW ok \in BOOLEAN, Gates!Notify(k, ok) PROVE LogInv'
  BY <1>1, NotifyWrites, LogAfter
<1>2. ASSUME NEW k \in GateKeys, Gates!ResetKey(k) PROVE LogInv'
  <2>1. log' = Append(log, ResetOf(k)) /\ Len(log) < MaxLog /\ clock' = clock
    BY <1>2 DEF Gates!ResetKey, ResetOf
  <2>. QED
    BY <2>1, ResetWrites, LogAfter
<1>3. CASE Gates!ResetEvery
  <2>1. log' = Append(log, ResetOf(<<>>)) /\ Len(log) < MaxLog /\ clock' = clock
    BY <1>3 DEF Gates!ResetEvery, ResetOf
  <2>. QED
    BY <2>1, ResetWrites, LogAfter
<1>4. CASE UNCHANGED <<log, Gates!gates>> /\ clock <= clock' /\ clock' \in 0 .. GatesMaxTime
  <2>1. log' = log /\ Gates!Sends' = Gates!Sends
    BY <1>4 DEF Gates!Sends
  <2>2. \A n \in DOMAIN log : log[n].at \in Nat
    <3>1. \A n \in DOMAIN log : log[n] \in Entry
      BY DEF LogInv
    <3>. QED
      BY <3>1 DEF Entry
  <2>. QED
    BY <1>4, <2>1, <2>2, GatesAssumption DEF LogInv
<1>. QED
  BY <1>1, <1>2, <1>3, <1>4, GatesStepCases

(* An empty log.                                                           *)
LEMMA LogStart ==
  ASSUME Gates!Init
  PROVE  /\ LogInv /\ Gates!Sends = {} /\ \A k, g, f : Through(k, g, f) = {}
<1>1. log = <<>> /\ clock = 0 /\ GatesMaxTime \in Nat /\ MaxLog \in Nat
  BY GatesAssumption DEF Gates!Init
<1>2. log \in Seq(Entry) /\ Len(log) = 0 /\ DOMAIN log = {}
  BY <1>1
<1>3. Gates!Sends = {}
  BY <1>2 DEF Gates!Sends
<1>. QED
  BY <1>1, <1>2, <1>3 DEF LogInv, Through, Gates!Passed

-----------------------------------------------------------------------------
(* Limiter and Deduplicator.  What such a gate keeps is the time of the    *)
(* latest that it let through and has not forgotten.                       *)
Latest(kept, k, g) ==
  /\ kept[k] = -1 => Through(k, g, k) = {}
  /\ kept[k] # -1 => /\ \E m \in Through(k, g, k) : log[m].at = kept[k]
                     /\ \A m \in Through(k, g, k) : log[m].at <= kept[k]
LatestOf(kept, g) ==
  kept \in [GateKeys -> -1 .. clock] /\ \A k \in GateKeys : Latest(kept, k, g)
CooledSoFar(g, period) == \A n \in Gates!Sends : Gates!Cooled(n, g, period)
Cooling ==
  /\ LatestOf(limited, "limit") /\ CooledSoFar("limit", Cooldown)
  /\ LatestOf(deduped, "dedup") /\ CooledSoFar("dedup", DedupWindow)

(* What has been judged is not judged anew.                                *)
LEMMA CooledStays ==
  ASSUME log \in Seq(Entry), NEW e \in Entry, log' = Append(log, e),
         NEW n \in Gates!Sends, NEW g, NEW period, Gates!Cooled(n, g, period)
  PROVE  Gates!Cooled(n, g, period)'
<1>1. /\ DOMAIN log = 1 .. Len(log) /\ Len(log) \in Nat /\ Next1 = Len(log) + 1
      /\ \A m \in DOMAIN log : log'[m] = log[m]
      /\ Gates!Sends \subseteq DOMAIN log
  BY LogGrows, SendsAfter DEF Next1
<1>2. n \in 1 .. Next1 /\ n \in DOMAIN log /\ log'[n] = log[n]
  BY <1>1
<1>3. \A q : Gates!Passed(n, q, g, q)' = Gates!Passed(n, q, g, q)
  BY <1>2, PassedStays
<1>4. \A q : Gates!Passed(n, q, g, q) \subseteq DOMAIN log
  BY <1>1 DEF Gates!Passed
<1>. QED
  BY <1>1, <1>2, <1>3, <1>4 DEF Gates!Cooled

(* A send that finds more than the period gone by since the latest.        *)
LEMMA CoolingJudges ==
  ASSUME LogInv, NEW e \in Entry, log' = Append(log, e), e.passed # {"reset"}, e.at = clock,
         NEW k \in GateKeys, e.key = k, NEW g, NEW period \in Int, NEW kept, clock' = clock,
         LatestOf(kept, g), CooledSoFar(g, period),
         g \in e.passed <=> kept[k] = -1 \/ clock - kept[k] >= period
  PROVE  CooledSoFar(g, period)'
<1>0. /\ log \in Seq(Entry) /\ clock \in Nat
      /\ \A n \in DOMAIN log : log[n] \in Entry /\ log[n].at \in Nat
  <2>1. log \in Seq(Entry) /\ clock \in Nat
    BY GatesAssumption DEF LogInv
  <2>2. \A n \in DOMAIN log : log[n] \in Entry
    BY <2>1
  <2>. QED
    BY <2>1, <2>2 DEF Entry
<1>1. /\ DOMAIN log = 1 .. Len(log) /\ Len(log) \in Nat /\ Next1 = Len(log) + 1
      /\ log'[Next1] = e /\ \A n \in DOMAIN log : log'[n] = log[n]
      /\ Gates!Sends' = Gates!Sends \cup {Next1} /\ Gates!Sends \subseteq DOMAIN log
  BY <1>0, LogGrows, SendsAfter DEF Next1
<1>2. \A n \in Gates!Sends : Gates!Cooled(n, g, period)'
  BY <1>0, CooledStays DEF CooledSoFar
<1>3. PICK n \in Nat : n = Next1
  BY <1>1
<1>4. Gates!Cooled(n, g, period)'
  <2>1. Gates!Passed(n, k, g, k)' = Through(k, g, k)
    <3>1. Gates!Passed(n, k, g, k)' = Gates!Passed(n, k, g, k)
      BY <1>0, <1>1, <1>3, PassedStays
    <3>. QED
      BY <1>3, <3>1 DEF Through
  <2>2. log'[n] = e /\ Through(k, g, k) \subseteq DOMAIN log
    BY <1>0, <1>1, <1>3, ThroughFacts
  <2>3. kept[k] \in Int /\ Latest(kept, k, g)
    BY <1>0 DEF LatestOf
  <2>4. (\A m \in Through(k, g, k) : clock - log[m].at >= period)
          <=> kept[k] = -1 \/ clock - kept[k] >= period
    <3>1. \A m \in Through(k, g, k) : log[m].at \in Nat
      BY <1>0, <2>2
    <3>. QED
      BY <1>0, <2>3, <3>1 DEF Latest
  <2>5. \A m \in Through(k, g, k) : log'[m].at = log[m].at
    BY <1>1, <2>2
  <2>6. Gates!Cooled(n, g, period)' <=>
          (g \in log'[n].passed <=>
             \A m \in Gates!Passed(n, log[n].key, g, log[n].key)' : log'[n].at - log'[m].at >= period)
    BY DEF Gates!Cooled
  <2>7. Gates!Passed(n, log[n].key, g, log[n].key)' = Through(k, g, k)
    BY <2>1, <2>2
  <2>. QED
    BY <2>2, <2>4, <2>5, <2>6, <2>7
<1>. QED
  BY <1>1, <1>2, <1>3, <1>4 DEF CooledSoFar

(* And the gate remembers it if it lets it through.                        *)
LEMMA CoolingRemembers ==
  ASSUME LogInv, NEW e \in Entry, log' = Append(log, e), e.passed # {"reset"}, e.at = clock,
         NEW k \in GateKeys, e.key = k, NEW g, NEW kept, NEW then, clock' = clock,
         LatestOf(kept, g), then = IF g \in e.passed THEN [kept EXCEPT ![k] = clock] ELSE kept
  PROVE  LatestOf(then, g)'
<1>0. /\ log \in Seq(Entry) /\ clock \in Nat /\ DOMAIN log = 1 .. Len(log)
      /\ log'[Next1] = e /\ \A n \in DOMAIN log : log'[n] = log[n] /\ log[n].at <= clock
  <2>1. log \in Seq(Entry) /\ clock \in Nat /\ \A n \in DOMAIN log : log[n].at <= clock
    BY GatesAssumption DEF LogInv
  <2>. QED
    BY <2>1, LogGrows
<1>1. then \in [GateKeys -> -1 .. clock] /\ kept \in [GateKeys -> -1 .. clock]
  BY <1>0 DEF LatestOf
<1>2. ASSUME NEW q \in GateKeys PROVE Latest(then, q, g)'
  <2>0. Through(q, g, q) \subseteq DOMAIN log /\ Latest(kept, q, g)
    BY <1>0, ThroughFacts DEF LatestOf
  <2>1. CASE q = k /\ g \in e.passed
    <3>0. e.key = q /\ g \in e.passed
      BY <2>1
    <3>1. Through(q, g, q)' = Through(q, g, q) \cup {Next1}
      BY <1>0, <3>0, ThroughGrows
    <3>2. then[q] = clock /\ clock # -1
      BY <1>0, <1>1, <2>1
    <3>3. log'[Next1].at = clock /\ \A m \in Through(q, g, q) : log'[m].at <= clock
      BY <1>0, <2>0
    <3>4. /\ then[q] # -1 /\ Next1 \in Through(q, g, q)'
      BY <3>1, <3>2
    <3>6. ASSUME NEW m \in Through(q, g, q)' PROVE log'[m].at <= then[q]
      <4>1. clock <= clock
        BY <1>0
      <4>2. m \in Through(q, g, q) \/ m = Next1
        BY <3>1
      <4>. QED
        BY <3>2, <3>3, <4>1, <4>2
    <3>5. log'[Next1].at = then[q]
      BY <3>2, <3>3
    <3>. QED
      BY <3>4, <3>5, <3>6 DEF Latest
  <2>2. CASE ~(q = k /\ g \in e.passed)
    <3>1. Through(q, g, q)' = Through(q, g, q) /\ then[q] = kept[q]
      BY <1>0, <1>1, <2>2, ThroughAfterSend
    <3>. QED
      BY <1>0, <2>0, <3>1 DEF Latest
  <2>. QED
    BY <2>1, <2>2
<1>. QED
  BY <1>1, <1>2 DEF LatestOf

(* A reset makes it forget one key, or leaves it alone; and nothing that   *)
(* has been judged is judged anew.                                         *)
LEMMA CoolingForgets ==
  ASSUME LogInv, NEW e \in Entry, log' = Append(log, e), e.passed = {"reset"},
         clock' = clock, NEW g, NEW period, NEW kept, NEW then,
         LatestOf(kept, g), CooledSoFar(g, period),
         then = IF e.key \in GateKeys THEN [kept EXCEPT ![e.key] = -1] ELSE kept
  PROVE  LatestOf(then, g)' /\ CooledSoFar(g, period)'
<1>0. /\ log \in Seq(Entry) /\ clock \in Nat /\ DOMAIN log = 1 .. Len(log)
      /\ Len(log) \in Nat /\ Next1 = Len(log) + 1
      /\ \A n \in DOMAIN log : log'[n] = log[n]
      /\ Gates!Sends' = Gates!Sends /\ Gates!Sends \subseteq DOMAIN log
  <2>1. log \in Seq(Entry) /\ clock \in Nat
    BY GatesAssumption DEF LogInv
  <2>. QED
    BY <2>1, LogGrows, SendsAfter DEF Next1
<1>1. then \in [GateKeys -> -1 .. clock] /\ kept \in [GateKeys -> -1 .. clock]
  BY <1>0 DEF LatestOf
<1>2. ASSUME NEW q \in GateKeys PROVE Latest(then, q, g)'
  <2>0. Through(q, g, q) \subseteq DOMAIN log /\ Latest(kept, q, g)
    BY <1>0, ThroughFacts DEF LatestOf
  <2>1. CASE q = e.key
    <3>1. Through(q, g, q)' = {} /\ then[q] = -1
      BY <1>0, <1>1, <2>1, ThroughAfterReset
    <3>. QED
      BY <3>1 DEF Latest
  <2>2. CASE q # e.key
    <3>1. Through(q, g, q)' = Through(q, g, q) /\ then[q] = kept[q]
      BY <1>0, <1>1, <2>2, ThroughAfterReset
    <3>. QED
      BY <1>0, <2>0, <3>1 DEF Latest
  <2>. QED
    BY <2>1, <2>2
<1>3. \A n \in Gates!Sends : Gates!Cooled(n, g, period)'
  BY <1>0, CooledStays DEF CooledSoFar
<1>. QED
  BY <1>0, <1>1, <1>2, <1>3 DEF LatestOf, CooledSoFar

(* Every step keeps both gates and what has been judged.                   *)
LEMMA CoolingStep ==
  ASSUME LogInv, Cooling, [Gates!Next]_(Gates!vars)
  PROVE  Cooling'
<1>0. /\ log \in Seq(Entry) /\ clock \in Nat
      /\ Cooldown \in Int /\ DedupWindow \in Int
      /\ LatestOf(limited, "limit") /\ CooledSoFar("limit", Cooldown)
      /\ LatestOf(deduped, "dedup") /\ CooledSoFar("dedup", DedupWindow)
  BY GatesAssumption, ChainAssumption DEF LogInv, Cooling
<1>1. ASSUME NEW k \in GateKeys, NEW ok \in BOOLEAN, Gates!Notify(k, ok) PROVE Cooling'
  <2>. DEFINE e == Noted(k, ok)
  <2>1. /\ e \in Entry /\ log' = Append(log, e) /\ clock' = clock /\ e.key = k /\ e.at = clock
        /\ e.passed = Gates!Forwarding(k, ok) /\ e.passed # {"reset"}
    BY <1>1, NotifyWrites
  <2>2. /\ "limit" \in Gates!Forwarding(k, ok) <=> Gates!Limiter!Open(k)
        /\ "dedup" \in Gates!Forwarding(k, ok) <=> Gates!Dedup!Open(k)
    BY DEF Gates!Forwarding
  <2>3. limited[k] \in Int /\ deduped[k] \in Int
    BY <1>0 DEF LatestOf
  <2>4. /\ "limit" \in e.passed <=> limited[k] = -1 \/ clock - limited[k] >= Cooldown
        /\ "dedup" \in e.passed <=> deduped[k] = -1 \/ clock - deduped[k] >= DedupWindow
    BY <1>0, <2>1, <2>2, <2>3 DEF Gates!Limiter!Open, Gates!Limiter!Within, Gates!Limiter!Never,
       Gates!Dedup!Open, Gates!Dedup!Within, Gates!Dedup!Never
  <2>5. /\ limited' = IF "limit" \in e.passed THEN [limited EXCEPT ![k] = clock] ELSE limited
        /\ deduped' = IF "dedup" \in e.passed THEN [deduped EXCEPT ![k] = clock] ELSE deduped
    BY <1>1, <2>1, <2>2 DEF Gates!Notify, Gates!Limiter!Allow, Gates!Dedup!Allow
  <2>. HIDE DEF e
  <2>6. CooledSoFar("limit", Cooldown)' /\ CooledSoFar("dedup", DedupWindow)'
    <3>1. CooledSoFar("limit", Cooldown)'
      BY <1>0, <2>1, <2>4, CoolingJudges
    <3>2. CooledSoFar("dedup", DedupWindow)'
      BY <1>0, <2>1, <2>4, CoolingJudges
    <3>. QED
      BY <3>1, <3>2
  <2>7. LatestOf(limited, "limit")'
    BY <1>0, <2>1, <2>5, CoolingRemembers
  <2>8. LatestOf(deduped, "dedup")'
    BY <1>0, <2>1, <2>5, CoolingRemembers
  <2>. QED
    BY <2>6, <2>7, <2>8 DEF Cooling
<1>2. ASSUME NEW k \in GateKeys \cup {<<>>}, log' = Append(log, ResetOf(k)), clock' = clock,
             limited' = IF k \in GateKeys THEN [limited EXCEPT ![k] = -1] ELSE limited,
             deduped' = IF k \in GateKeys THEN [deduped EXCEPT ![k] = -1] ELSE deduped
      PROVE  Cooling'
  <2>. DEFINE e == ResetOf(k)
  <2>1. e \in Entry /\ e.passed = {"reset"} /\ e.key = k
    BY <1>2, ResetWrites
  <2>2. log' = Append(log, e)
    BY <1>2
  <2>. HIDE DEF e
  <2>3. LatestOf(limited, "limit")' /\ CooledSoFar("limit", Cooldown)'
    BY <1>0, <1>2, <2>1, <2>2, CoolingForgets
  <2>4. LatestOf(deduped, "dedup")' /\ CooledSoFar("dedup", DedupWindow)'
    BY <1>0, <1>2, <2>1, <2>2, CoolingForgets
  <2>. QED
    BY <2>3, <2>4 DEF Cooling
<1>3. ASSUME NEW k \in GateKeys, Gates!ResetKey(k) PROVE Cooling'
  BY <1>2, <1>3 DEF Gates!ResetKey, ResetOf, Gates!Limiter!Reset, Gates!Dedup!Reset,
     Gates!Limiter!Never, Gates!Dedup!Never
<1>4. CASE Gates!ResetEvery
  <2>1. <<>> \notin GateKeys
    BY KeysAreNotEmpty
  <2>. QED
    BY <1>2, <1>4, <2>1 DEF Gates!ResetEvery, ResetOf
<1>5. CASE UNCHANGED <<log, Gates!gates>> /\ clock <= clock' /\ clock' \in 0 .. GatesMaxTime
  <2>1. UNCHANGED <<log, limited, deduped>> /\ clock' \in Nat
    BY <1>5 DEF Gates!gates
  <2>2. -1 .. clock \subseteq -1 .. clock'
    BY <1>0, <1>5, <2>1
  <2>3. CooledSoFar("limit", Cooldown)' /\ CooledSoFar("dedup", DedupWindow)'
    <3>1. /\ Gates!Sends' = Gates!Sends
          /\ \A n, k, g, f : Gates!Passed(n, k, g, f)' = Gates!Passed(n, k, g, f)
      BY <2>1 DEF Gates!Passed, Gates!Sends, Gates!Forgets
    <3>2. ASSUME NEW n, NEW g, NEW period, Gates!Cooled(n, g, period)
          PROVE  Gates!Cooled(n, g, period)'
      BY <2>1, <3>1, <3>2 DEF Gates!Cooled
    <3>3. CooledSoFar("limit", Cooldown)'
      BY <1>0, <3>1, <3>2 DEF CooledSoFar
    <3>4. CooledSoFar("dedup", DedupWindow)'
      BY <1>0, <3>1, <3>2 DEF CooledSoFar
    <3>. QED
      BY <3>3, <3>4
  <2>4. \A k, g, f : Through(k, g, f)' = Through(k, g, f)
    BY <2>1 DEF Through, Next1, Gates!Passed, Gates!Sends, Gates!Forgets
  <2>5. limited \in [GateKeys -> -1 .. clock'] /\ deduped \in [GateKeys -> -1 .. clock']
    BY <1>0, <2>2 DEF LatestOf
  <2>6. LatestOf(limited, "limit")' /\ LatestOf(deduped, "dedup")'
    BY <1>0, <2>1, <2>4, <2>5 DEF LatestOf, Latest
  <2>. QED
    BY <2>3, <2>6 DEF Cooling
<1>. QED
  BY <1>1, <1>3, <1>4, <1>5, GatesStepCases

-----------------------------------------------------------------------------
(* BackoffLimiter.  What it keeps is how many it let through, and when the *)
(* period after the latest of them is over.  Only while the exponential    *)
(* stays in the range of a duration is it as configured: beyond, the run   *)
(* MCKeyGatesBackoff shows that it is not.                                 *)
NoOverflow ==
  \A a \in 1 .. MaxLog : Gates!BackoffGate!Grown(a) \in 0 .. Gates!BackoffGate!Greatest

OverAfter(k) ==
  \E m \in Through(k, "backoff", k) :
    /\ entry[k].nextAt = log[m].at + Gates!Period(Cardinality(Through(k, "backoff", k)))
    /\ \A o \in Through(k, "backoff", k) : log[o].at <= log[m].at
Backed(n) ==
  LET past == Gates!Passed(n, log[n].key, "backoff", log[n].key)
  IN  "backoff" \in log[n].passed <=>
        \A m \in past : log[n].at - log[m].at >= Gates!Period(Cardinality(past))
Backing ==
  /\ entry \in [GateKeys -> [attempts : Nat, nextAt : Int]]
  /\ \A k \in GateKeys :
       /\ entry[k].attempts = Cardinality(Through(k, "backoff", k))
       /\ Through(k, "backoff", k) # {} => OverAfter(k)
  /\ \A n \in Gates!Sends : Backed(n)

(* The periods are integers, and each is what the growth and the cap give. *)
LEMMA PeriodFacts ==
  ASSUME NoOverflow, NEW a \in 1 .. MaxLog
  PROVE  /\ Gates!Period(1) = BaseInterval /\ Gates!Period(a) \in Int
         /\ \A d \in Gates!BackoffGate!ToDuration(Gates!BackoffGate!Grown(a)) :
              d \in Int /\ Gates!BackoffGate!Capped(d) = Gates!Period(a + 1)
<1>0. /\ BaseInterval \in Nat /\ MaxInterval \in Int /\ MaxLog \in Nat /\ a \in Nat
  BY GatesAssumption
<1>1. Gates!BackoffGate!Grown(a) \in Nat /\ Gates!BackoffGate!Grown(a) <= Gates!BackoffGate!Greatest
  BY DEF NoOverflow
<1>2. Gates!BackoffGate!ToDuration(Gates!BackoffGate!Grown(a)) = {Gates!BackoffGate!Grown(a)}
  BY <1>1 DEF Gates!BackoffGate!ToDuration
<1>3. Gates!Period(1) = BaseInterval
  BY DEF Gates!Period
<1>4. Gates!Period(a) \in Int
  <2>1. CASE a = 1
    BY <1>0, <1>3, <2>1
  <2>2. CASE a # 1
    <3>1. a - 1 \in 1 .. MaxLog
      BY <1>0, <2>2
    <3>2. Gates!BackoffGate!Grown(a - 1) \in Nat
      BY <3>1 DEF NoOverflow
    <3>. QED
      BY <1>0, <2>2, <3>2 DEF Gates!Period, Gates!BackoffGate!Grown
  <2>. QED
    BY <2>1, <2>2
<1>5. Gates!BackoffGate!Capped(Gates!BackoffGate!Grown(a)) = Gates!Period(a + 1)
  <2>1. (a + 1) - 1 = a /\ a + 1 # 1
    BY <1>0
  <2>. DEFINE d == Gates!BackoffGate!Grown(a)
  <2>2. Gates!Period(a + 1) = IF d <= MaxInterval THEN d ELSE MaxInterval
    BY <2>1 DEF Gates!Period, Gates!BackoffGate!Grown
  <2>3. d \in Int
    BY <1>1
  <2>. HIDE DEF d
  <2>4. Gates!BackoffGate!Capped(d) = IF d > MaxInterval THEN MaxInterval ELSE d
    BY DEF Gates!BackoffGate!Capped
  <2>5. Gates!BackoffGate!Capped(d) = Gates!Period(a + 1)
    BY <1>0, <2>2, <2>3, <2>4
  <2>. QED
    BY <2>5 DEF d
<1>. QED
  BY <1>1, <1>2, <1>3, <1>4, <1>5

(* What has been judged is not judged anew.                                *)
LEMMA BackedStays ==
  ASSUME log \in Seq(Entry), NEW e \in Entry, log' = Append(log, e),
         NEW n \in Gates!Sends, Backed(n)
  PROVE  Backed(n)'
<1>1. /\ DOMAIN log = 1 .. Len(log) /\ Len(log) \in Nat /\ Next1 = Len(log) + 1
      /\ \A m \in DOMAIN log : log'[m] = log[m]
      /\ Gates!Sends \subseteq DOMAIN log
  BY LogGrows, SendsAfter DEF Next1
<1>2. n \in 1 .. Next1 /\ n \in DOMAIN log /\ log'[n] = log[n]
  BY <1>1
<1>3. \A q : Gates!Passed(n, q, "backoff", q)' = Gates!Passed(n, q, "backoff", q)
  BY <1>2, PassedStays
<1>4. \A q : Gates!Passed(n, q, "backoff", q) \subseteq DOMAIN log
  BY <1>1 DEF Gates!Passed
<1>5. \A a : Gates!Period(a)' = Gates!Period(a)
  BY DEF Gates!Period
<1>. QED
  BY <1>1, <1>2, <1>3, <1>4, <1>5 DEF Backed

(* A notification is judged by the period after the latest, and starts the *)
(* next one.                                                               *)
LEMMA BackingNotify ==
  ASSUME LogInv, Backing, NoOverflow, NEW k \in GateKeys, NEW ok \in BOOLEAN,
         Gates!Notify(k, ok)
  PROVE  Backing'
<1>. DEFINE e == Noted(k, ok)
            p == Through(k, "backoff", k)
<1>0. /\ log \in Seq(Entry) /\ clock \in Nat /\ MaxLog \in Nat /\ BaseInterval \in Nat
      /\ entry \in [GateKeys -> [attempts : Nat, nextAt : Int]]
      /\ \A n \in DOMAIN log : log[n] \in Entry
  <2>1. log \in Seq(Entry) /\ clock \in Nat /\ MaxLog \in Nat /\ BaseInterval \in Nat
    BY GatesAssumption DEF LogInv
  <2>2. \A n \in DOMAIN log : log[n] \in Entry
    BY <2>1
  <2>3. entry \in [GateKeys -> [attempts : Nat, nextAt : Int]]
    BY DEF Backing
  <2>. QED
    BY <2>1, <2>2, <2>3
<1>1. /\ e \in Entry /\ log' = Append(log, e) /\ clock' = clock /\ e.key = k /\ e.at = clock
      /\ e.passed = Gates!Forwarding(k, ok) /\ e.passed # {"reset"} /\ Len(log) < MaxLog
  BY NotifyWrites
<1>2. /\ DOMAIN log = 1 .. Len(log) /\ Len(log) \in Nat /\ Next1 = Len(log) + 1
      /\ log'[Next1] = e /\ \A n \in DOMAIN log : log'[n] = log[n]
      /\ Gates!Sends' = Gates!Sends \cup {Next1} /\ Gates!Sends \subseteq DOMAIN log
  BY <1>0, <1>1, LogGrows, SendsAfter DEF Next1
<1>3. /\ p \subseteq DOMAIN log /\ Next1 \notin p /\ IsFiniteSet(p)
      /\ Cardinality(p) \in 0 .. Len(log) /\ \A m \in p : log[m].at \in Nat /\ log[m].at <= clock
  <2>1. p \subseteq 1 .. Len(log) /\ IsFiniteSet(p) /\ Cardinality(p) \in 0 .. Len(log)
    BY <1>0, ThroughFacts
  <2>2. \A m \in DOMAIN log : log[m].at \in Nat /\ log[m].at <= clock
    BY <1>0 DEF Entry, LogInv
  <2>. QED
    BY <1>2, <2>1, <2>2
<1>4. "backoff" \in e.passed <=> entry[k].attempts = 0 \/ clock >= entry[k].nextAt
  <2>1. "backoff" \in Gates!Forwarding(k, ok) <=> Gates!BackoffGate!Open(k)
    BY DEF Gates!Forwarding
  <2>. QED
    BY <1>1, <2>1 DEF Gates!BackoffGate!Open
<1>5. /\ entry[k].attempts = Cardinality(p) /\ entry[k].attempts \in Nat /\ entry[k].nextAt \in Int
      /\ entry[k].attempts = 0 <=> p = {}
  <2>1. entry[k].attempts = Cardinality(p) /\ entry[k] \in [attempts : Nat, nextAt : Int]
    BY <1>0 DEF Backing
  <2>2. Cardinality(p) = 0 <=> p = {}
    BY <1>3, FS_EmptySet
  <2>. QED
    BY <2>1, <2>2
<1>6. p # {} => Gates!Period(Cardinality(p)) \in Int /\ Cardinality(p) \in 1 .. MaxLog
  <2>1. p # {} => Cardinality(p) \in 1 .. MaxLog
    BY <1>0, <1>1, <1>3, <1>5, <1>2
  <2>. QED
    BY <2>1, PeriodFacts
<1>. HIDE DEF e
<1>7. "backoff" \in e.passed <=>
        \A m \in p : clock - log[m].at >= Gates!Period(Cardinality(p))
  <2>1. CASE p = {}
    BY <1>4, <1>5, <2>1
  <2>2. CASE p # {}
    <3>1. PICK m \in p : /\ entry[k].nextAt = log[m].at + Gates!Period(Cardinality(p))
                         /\ \A o \in p : log[o].at <= log[m].at
      BY <2>2 DEF Backing, OverAfter
    <3>2. PICK period \in Int, t \in Nat :
            /\ period = Gates!Period(Cardinality(p)) /\ t = log[m].at
      BY <1>3, <1>6, <2>2
    <3>3. "backoff" \in e.passed <=> clock >= t + period
      <4>1. entry[k].attempts # 0 /\ entry[k].nextAt = t + period
        BY <1>5, <2>2, <3>1, <3>2
      <4>. QED
        BY <1>4, <4>1
    <3>4. \A o \in p : log[o].at \in Nat /\ log[o].at <= t
      BY <1>3, <3>1, <3>2
    <3>5. clock >= t + period <=> \A o \in p : clock - log[o].at >= period
      <4>1. clock >= t + period <=> clock - t >= period
        BY <1>0, <3>2
      <4>2. \A o \in p : clock - t >= period => clock - log[o].at >= period
        <5>. SUFFICES ASSUME NEW o \in p, clock - t >= period
                      PROVE  clock - log[o].at >= period
          OBVIOUS
        <5>1. PICK a \in Nat, c \in Nat : a = log[o].at /\ c = clock /\ a <= t
          BY <1>0, <3>4
        <5>2. c - t >= period => c - a >= period
          BY <3>2, <5>1
        <5>. QED
          BY <5>1, <5>2
      <4>3. m \in p /\ log[m].at = t
        BY <3>1, <3>2
      <4>. QED
        BY <4>1, <4>2, <4>3
    <3>. QED
      BY <3>2, <3>3, <3>5
  <2>. QED
    BY <2>1, <2>2
<1>8. PICK n \in Nat : n = Next1
  BY <1>2
<1>9. Backed(n)'
  <2>1. Gates!Passed(n, k, "backoff", k)' = p
    <3>1. Gates!Passed(n, k, "backoff", k)' = Gates!Passed(n, k, "backoff", k)
      BY <1>0, <1>1, <1>2, <1>8, PassedStays
    <3>. QED
      BY <1>8, <3>1 DEF Through
  <2>2. log'[n] = e /\ \A m \in p : log'[m].at = log[m].at
    BY <1>2, <1>3, <1>8
  <2>3. Gates!Passed(n, log[n].key, "backoff", log[n].key)' = p
    BY <1>1, <2>1, <2>2
  <2>4. \A a : Gates!Period(a)' = Gates!Period(a)
    BY DEF Gates!Period
  <2>5. Backed(n)' <=> ("backoff" \in e.passed <=>
          \A m \in p : e.at - log'[m].at >= Gates!Period(Cardinality(p)))
    BY <2>2, <2>3, <2>4 DEF Backed
  <2>. QED
    BY <1>1, <1>7, <2>2, <2>5
<1>10. \A m \in Gates!Sends' : Backed(m)'
  <2>1. \A m \in Gates!Sends : Backed(m)'
    BY <1>0, <1>1, BackedStays DEF Backing
  <2>. QED
    BY <1>2, <1>8, <1>9, <2>1
<1>11. /\ "backoff" \notin e.passed => entry' = entry
       /\ "backoff" \in e.passed =>
            entry' = [entry EXCEPT ![k] =
                        [attempts |-> Cardinality(p) + 1,
                         nextAt |-> clock + Gates!Period(Cardinality(p) + 1)]]
  <2>1. Gates!BackoffGate!Allow(k)
    BY DEF Gates!Notify
  <2>2. CASE "backoff" \notin e.passed
    <3>1. entry' = entry
      BY <1>4, <2>1, <2>2 DEF Gates!BackoffGate!Allow, Gates!BackoffGate!Open
    <3>. QED
      BY <2>2, <3>1
  <2>3. CASE "backoff" \in e.passed /\ p = {}
    <3>1. entry' = [entry EXCEPT ![k] = [attempts |-> 1, nextAt |-> clock + BaseInterval]]
      BY <1>4, <1>5, <2>1, <2>3 DEF Gates!BackoffGate!Allow, Gates!BackoffGate!Open
    <3>2. Cardinality(p) + 1 = 1 /\ Gates!Period(1) = BaseInterval
      BY <1>5, <2>3 DEF Gates!Period
    <3>3. Gates!Period(Cardinality(p) + 1) = BaseInterval
      BY <3>2
    <3>. QED
      BY <2>3, <3>1, <3>2, <3>3
  <2>4. CASE "backoff" \in e.passed /\ p # {}
    <3>1. PICK d \in Gates!BackoffGate!ToDuration(Gates!BackoffGate!Grown(entry[k].attempts)) :
            entry' = [entry EXCEPT ![k] = [attempts |-> entry[k].attempts + 1,
                                           nextAt |-> clock + Gates!BackoffGate!Capped(d)]]
      BY <1>0, <1>4, <1>5, <2>1, <2>4 DEF Gates!BackoffGate!Allow, Gates!BackoffGate!Open
    <3>2. Gates!BackoffGate!Capped(d) = Gates!Period(Cardinality(p) + 1)
      BY <1>5, <1>6, <2>4, <3>1, PeriodFacts
    <3>3. entry[k].attempts + 1 = Cardinality(p) + 1
      BY <1>5
    <3>. QED
      BY <2>4, <3>1, <3>2, <3>3
  <2>. QED
    BY <2>2, <2>3, <2>4
<1>12. entry' \in [GateKeys -> [attempts : Nat, nextAt : Int]]
  <2>1. Cardinality(p) + 1 \in 1 .. MaxLog
    BY <1>0, <1>1, <1>2, <1>3
  <2>2. Gates!Period(Cardinality(p) + 1) \in Int
    BY <2>1, PeriodFacts
  <2>. DEFINE next == clock + Gates!Period(Cardinality(p) + 1)
              many == Cardinality(p) + 1
  <2>3. next \in Int /\ many \in Nat
    BY <1>0, <2>1, <2>2
  <2>4. entry' = entry \/ entry' = [entry EXCEPT ![k] = [attempts |-> many, nextAt |-> next]]
    BY <1>11
  <2>. HIDE DEF next, many
  <2>. QED
    BY <1>0, <2>3, <2>4
<1>13. ASSUME NEW q \in GateKeys
       PROVE  /\ entry'[q].attempts = Cardinality(Through(q, "backoff", q)')
              /\ Through(q, "backoff", q)' # {} => OverAfter(q)'
  <2>1. CASE q = k /\ "backoff" \in e.passed
    <3>0. e.key = k /\ "backoff" \in e.passed
      BY <1>1, <2>1
    <3>1. Through(k, "backoff", k)' = p \cup {Next1}
      <4>1. log \in Seq(Entry) /\ e \in Entry /\ log' = Append(log, e) /\ e.passed # {"reset"}
        BY <1>0, <1>1
      <4>. QED
        BY <3>0, <4>1, ThroughGrows
    <3>2. Cardinality(p \cup {Next1}) = Cardinality(p) + 1
      BY <1>3, FS_AddElement
    <3>3. entry'[k].attempts = Cardinality(p) + 1
          /\ entry'[k].nextAt = clock + Gates!Period(Cardinality(p) + 1)
      BY <1>0, <1>11, <2>1
    <3>4. log'[Next1].at = clock /\ \A o \in p : log'[o].at <= clock
      BY <1>1, <1>2, <1>3
    <3>5. \A o \in Through(k, "backoff", k)' : log'[o].at <= log'[n].at
      <4>1. clock <= clock
        BY <1>0
      <4>. QED
        BY <1>8, <3>1, <3>4, <4>1
    <3>6. \A a : Gates!Period(a)' = Gates!Period(a)
      BY DEF Gates!Period
    <3>7. n \in Through(k, "backoff", k)' /\ log'[n].at = clock
      BY <1>8, <3>1, <3>4
    <3>8. entry'[k].nextAt = log'[n].at + Gates!Period(Cardinality(Through(k, "backoff", k)))'
      BY <3>1, <3>2, <3>3, <3>6, <3>7
    <3>9. OverAfter(k)'
      BY <3>5, <3>7, <3>8 DEF OverAfter
    <3>. QED
      BY <2>1, <3>1, <3>2, <3>3, <3>9
  <2>2. CASE ~(q = k /\ "backoff" \in e.passed)
    <3>0. ~(e.key = q /\ "backoff" \in e.passed)
      BY <1>1, <2>2
    <3>1. Through(q, "backoff", q)' = Through(q, "backoff", q)
      BY <1>0, <1>1, <3>0, ThroughAfterSend
    <3>2. entry'[q] = entry[q]
      BY <1>0, <1>11, <2>2
    <3>3. \A m \in Through(q, "backoff", q) : log'[m].at = log[m].at
      BY <1>0, <1>2, ThroughFacts
    <3>4. \A a : Gates!Period(a)' = Gates!Period(a)
      BY DEF Gates!Period
    <3>5. entry[q].attempts = Cardinality(Through(q, "backoff", q))
          /\ (Through(q, "backoff", q) # {} => OverAfter(q))
      BY DEF Backing
    <3>6. OverAfter(q) => OverAfter(q)'
      BY <3>1, <3>2, <3>3, <3>4 DEF OverAfter
    <3>. QED
      BY <3>1, <3>2, <3>5, <3>6
  <2>. QED
    BY <2>1, <2>2
<1>. QED
  BY <1>10, <1>12, <1>13 DEF Backing

(* A reset of a key forgets its entry, and one of every key that of none.  *)
LEMMA BackingReset ==
  ASSUME LogInv, Backing, NEW k \in GateKeys \cup {<<>>}, log' = Append(log, ResetOf(k)),
         entry' = IF k \in GateKeys
                  THEN [entry EXCEPT ![k] = [attempts |-> 0, nextAt |-> 0]] ELSE entry
  PROVE  Backing'
<1>. DEFINE e == ResetOf(k)
<1>1. e \in Entry /\ e.passed = {"reset"} /\ e.key = k /\ log' = Append(log, e)
  BY ResetWrites
<1>. HIDE DEF e
<1>0. /\ log \in Seq(Entry)
      /\ entry \in [GateKeys -> [attempts : Nat, nextAt : Int]]
      /\ entry' \in [GateKeys -> [attempts : Nat, nextAt : Int]]
  BY DEF LogInv, Backing
<1>2. /\ DOMAIN log = 1 .. Len(log) /\ \A n \in DOMAIN log : log'[n] = log[n]
      /\ Gates!Sends' = Gates!Sends
  BY <1>0, <1>1, LogGrows, SendsAfter
<1>3. \A n \in Gates!Sends : Backed(n)'
  BY <1>0, <1>1, BackedStays DEF Backing
<1>4. ASSUME NEW q \in GateKeys
      PROVE  /\ entry'[q].attempts = Cardinality(Through(q, "backoff", q)')
             /\ Through(q, "backoff", q)' # {} => OverAfter(q)'
  <2>1. CASE q = k
    <3>1. Through(q, "backoff", q)' = {}
      BY <1>0, <1>1, <2>1, ThroughAfterReset
    <3>2. entry'[q].attempts = 0
      BY <1>0, <2>1
    <3>. QED
      BY <3>1, <3>2, FS_EmptySet
  <2>2. CASE q # k
    <3>1. Through(q, "backoff", q)' = Through(q, "backoff", q)
      BY <1>0, <1>1, <2>2, ThroughAfterReset
    <3>2. entry'[q] = entry[q]
      BY <1>0, <2>2
    <3>3. \A m \in Through(q, "backoff", q) : log'[m].at = log[m].at
      BY <1>0, <1>2, ThroughFacts
    <3>4. \A a : Gates!Period(a)' = Gates!Period(a)
      BY DEF Gates!Period
    <3>5. entry[q].attempts = Cardinality(Through(q, "backoff", q))
          /\ (Through(q, "backoff", q) # {} => OverAfter(q))
      BY DEF Backing
    <3>6. OverAfter(q) => OverAfter(q)'
      BY <3>1, <3>2, <3>3, <3>4 DEF OverAfter
    <3>. QED
      BY <3>1, <3>2, <3>5, <3>6
  <2>. QED
    BY <2>1, <2>2
<1>. QED
  BY <1>0, <1>2, <1>3, <1>4 DEF Backing

(* Every step keeps what the BackoffLimiter knows.                         *)
LEMMA BackingStep ==
  ASSUME LogInv, Backing, NoOverflow, [Gates!Next]_(Gates!vars)
  PROVE  Backing'
<1>1. ASSUME NEW k \in GateKeys, Gates!ResetKey(k) PROVE Backing'
  <2>1. /\ log' = Append(log, ResetOf(k))
        /\ entry' = [entry EXCEPT ![k] = [attempts |-> 0, nextAt |-> 0]]
    BY <1>1 DEF Gates!ResetKey, ResetOf, Gates!BackoffGate!Reset, Gates!BackoffGate!NoEntry
  <2>. QED
    BY <2>1, BackingReset
<1>2. CASE Gates!ResetEvery
  <2>1. log' = Append(log, ResetOf(<<>>)) /\ entry' = entry /\ <<>> \notin GateKeys
    BY <1>2, KeysAreNotEmpty DEF Gates!ResetEvery, ResetOf
  <2>. QED
    BY <2>1, BackingReset
<1>3. CASE UNCHANGED <<log, Gates!gates>>
  <2>1. UNCHANGED <<log, entry>>
    BY <1>3 DEF Gates!gates
  <2>2. \A k, g, f : Through(k, g, f)' = Through(k, g, f)
    BY <2>1 DEF Through, Next1, Gates!Passed, Gates!Sends, Gates!Forgets
  <2>3. \A a : Gates!Period(a)' = Gates!Period(a)
    BY DEF Gates!Period
  <2>4. \A n : Backed(n)' <=> Backed(n)
    BY <2>1, <2>3 DEF Backed, Gates!Passed, Gates!Sends, Gates!Forgets
  <2>5. \A k : OverAfter(k)' <=> OverAfter(k)
    BY <2>1, <2>2, <2>3 DEF OverAfter
  <2>6. Gates!Sends' = Gates!Sends
    BY <2>1 DEF Gates!Sends
  <2>. QED
    BY <2>1, <2>2, <2>4, <2>5, <2>6 DEF Backing
<1>. QED
  BY <1>1, <1>2, <1>3, BackingNotify, GatesStepCases

-----------------------------------------------------------------------------
(* Escalator.  What it keeps for a closed key is the number and the first  *)
(* of all its delivered notifications: the open notification that ought to *)
(* reset it resets another key.                                            *)
Delivered(k) == {m \in Gates!Sends : log[m].key = k /\ "deliver" \in log[m].passed}
FirstOf(k) ==
  \E m \in Delivered(k) : /\ state[k].firstSeen = log[m].at
                          /\ \A o \in Delivered(k) : log[m].at <= log[o].at
(* No matter from where on one counts, what is due is escalated, and what  *)
(* is escalated is due when one counts from the first.                     *)
Escalated(n) ==
  /\ "escalate" \in log[n].passed => Gates!DeliveredClosed(n) /\ Gates!Due(1, n)
  /\ \A s : Gates!DeliveredClosed(n) /\ Gates!Due(s, n) => "escalate" \in log[n].passed
Escalating ==
  /\ state \in [GateKeys -> [count : Nat, firstSeen : Nat]]
  /\ \A k \in GateKeys :
       IF k[2] = "closed"
       THEN /\ state[k].count = Cardinality(Delivered(k))
            /\ Delivered(k) # {} => FirstOf(k)
       ELSE state[k].count = 0
  /\ \A n \in Gates!Sends : Escalated(n)

(* The delivered notifications of a key are finitely many.                 *)
LEMMA DeliveredFacts ==
  ASSUME LogInv, NEW k
  PROVE  /\ Delivered(k) \subseteq DOMAIN log /\ IsFiniteSet(Delivered(k))
         /\ Cardinality(Delivered(k)) \in 0 .. Len(log)
         /\ \A m \in Delivered(k) : log[m].at \in Nat /\ log[m].at <= clock
<1>1. log \in Seq(Entry) /\ Len(log) \in Nat /\ DOMAIN log = 1 .. Len(log)
  BY DEF LogInv
<1>2. Delivered(k) \subseteq DOMAIN log
  BY DEF Delivered, Gates!Sends
<1>3. /\ IsFiniteSet(1 .. Len(log)) /\ Cardinality(1 .. Len(log)) = Len(log)
  BY <1>1, PositionsCounted
<1>4. /\ IsFiniteSet(Delivered(k)) /\ Cardinality(Delivered(k)) <= Len(log)
  BY <1>1, <1>2, <1>3, FS_Subset
<1>5. \A m \in DOMAIN log : log[m].at \in Nat /\ log[m].at <= clock
  <2>1. \A m \in DOMAIN log : log[m] \in Entry
    BY <1>1
  <2>. QED
    BY <2>1 DEF Entry, LogInv
<1>. QED
  BY <1>1, <1>2, <1>4, <1>5, FS_CardinalityType

(* What an earlier position counts stays as it is.                         *)
LEMMA EscalatedStays ==
  ASSUME log \in Seq(Entry), NEW e \in Entry, log' = Append(log, e),
         NEW n \in Gates!Sends, Escalated(n)
  PROVE  Escalated(n)'
<1>1. /\ DOMAIN log = 1 .. Len(log) /\ Len(log) \in Nat /\ Next1 = Len(log) + 1
      /\ \A m \in DOMAIN log : log'[m] = log[m]
      /\ Gates!Sends \subseteq DOMAIN log
      /\ Gates!Sends' = Gates!Sends \/ Gates!Sends' = Gates!Sends \cup {Next1}
  BY LogGrows, SendsAfter DEF Next1
<1>2. n \in DOMAIN log /\ log'[n] = log[n] /\ ~(Next1 <= n) /\ n \in Nat
  BY <1>1
<1>3. \A s : Gates!ClosedFrom(s, n)' = Gates!ClosedFrom(s, n)
  <2>1. ASSUME NEW s PROVE Gates!ClosedFrom(s, n)' = Gates!ClosedFrom(s, n)
    <3>1. ASSUME NEW m
          PROVE  m \in Gates!ClosedFrom(s, n)' <=> m \in Gates!ClosedFrom(s, n)
      <4>1. m \in Gates!Sends' /\ m <= n <=> m \in Gates!Sends /\ m <= n
        BY <1>1, <1>2
      <4>. QED
        BY <1>1, <1>2, <4>1 DEF Gates!ClosedFrom
    <3>. QED
      BY <3>1
  <2>. QED
    BY <2>1
<1>4. \A s : Gates!ClosedFrom(s, n) \subseteq DOMAIN log
  BY <1>1 DEF Gates!ClosedFrom
<1>5. \A s : Gates!Due(s, n)' <=> Gates!Due(s, n)
  BY <1>1, <1>2, <1>3, <1>4 DEF Gates!Due
<1>6. Gates!DeliveredClosed(n)' <=> Gates!DeliveredClosed(n)
  BY <1>2 DEF Gates!DeliveredClosed
<1>. QED
  BY <1>2, <1>5, <1>6 DEF Escalated

(* A notification is judged by the number and the first of those before.   *)
LEMMA EscalatingNotify ==
  ASSUME LogInv, Escalating, NEW k \in GateKeys, NEW ok \in BOOLEAN, Gates!Notify(k, ok)
  PROVE  Escalating'
<1>. DEFINE e == Noted(k, ok)
            d == Delivered(k)
            closed == ok /\ k[2] = "closed"
<1>0. /\ log \in Seq(Entry) /\ clock \in Nat /\ Threshold \in Int /\ MinDuration \in Int
      /\ state \in [GateKeys -> [count : Nat, firstSeen : Nat]]
  BY GatesAssumption DEF LogInv, Escalating
<1>1. /\ e \in Entry /\ log' = Append(log, e) /\ clock' = clock /\ e.key = k /\ e.at = clock
      /\ e.passed = Gates!Forwarding(k, ok) /\ e.passed # {"reset"}
  BY NotifyWrites
<1>2. /\ DOMAIN log = 1 .. Len(log) /\ Len(log) \in Nat /\ Next1 = Len(log) + 1
      /\ log'[Next1] = e /\ \A n \in DOMAIN log : log'[n] = log[n]
      /\ Gates!Sends' = Gates!Sends \cup {Next1} /\ Gates!Sends \subseteq DOMAIN log
  BY <1>0, <1>1, LogGrows, SendsAfter DEF Next1
<1>3. /\ d \subseteq DOMAIN log /\ IsFiniteSet(d) /\ Cardinality(d) \in Nat /\ Next1 \notin d
      /\ \A m \in d : log[m].at \in Nat /\ log[m].at <= clock
  <2>1. Cardinality(d) \in 0 .. Len(log)
    BY DeliveredFacts
  <2>. QED
    BY <1>2, <2>1, DeliveredFacts
<1>4. state[k].count \in Nat /\ state[k].firstSeen \in Nat
  <2>1. state[k] \in [count : Nat, firstSeen : Nat]
    BY <1>0
  <2>. QED
    BY <2>1
<1>5. /\ "deliver" \in e.passed <=> ok
      /\ "escalate" \in e.passed <=>
           closed /\ state[k].count > 0 /\ state[k].count + 1 >= Threshold
           /\ clock - state[k].firstSeen >= MinDuration
  <2>1. /\ "deliver" \in Gates!Forwarding(k, ok) <=> ok
        /\ "escalate" \in Gates!Forwarding(k, ok) <=> Gates!Escalation!Escalates(k, ok)
    BY DEF Gates!Forwarding
  <2>2. Gates!Escalation!Escalates(k, ok) <=>
           closed /\ state[k].count > 0 /\ state[k].count + 1 >= Threshold
           /\ clock - state[k].firstSeen >= MinDuration
    BY DEF Gates!Escalation!Escalates, Gates!Escalation!IsClosed, Gates!Escalation!Reached,
       Gates!Escalation!LongEnough
  <2>. QED
    BY <1>1, <2>1, <2>2
<1>. HIDE DEF e
<1>6. Delivered(k)' = IF ok THEN d \cup {Next1} ELSE d
  <2>1. ASSUME NEW m
        PROVE  m \in Delivered(k)' <=> m \in d \/ (m = Next1 /\ ok)
    <3>1. m \in Delivered(k)' <=>
            m \in Gates!Sends' /\ log'[m].key = k /\ "deliver" \in log'[m].passed
      BY DEF Delivered
    <3>2. CASE m = Next1
      BY <1>1, <1>2, <1>3, <1>5, <3>1, <3>2
    <3>3. CASE m # Next1
      BY <1>2, <3>1, <3>3 DEF Delivered
    <3>. QED
      BY <3>2, <3>3
  <2>. QED
    BY <2>1
<1>7. ASSUME NEW q \in GateKeys, q # k PROVE Delivered(q)' = Delivered(q)
  <2>1. ASSUME NEW m PROVE m \in Delivered(q)' <=> m \in Delivered(q)
    <3>1. m \in Delivered(q)' <=>
            m \in Gates!Sends' /\ log'[m].key = q /\ "deliver" \in log'[m].passed
      BY DEF Delivered
    <3>2. CASE m = Next1
      BY <1>1, <1>2, <1>7, <3>1, <3>2 DEF Delivered
    <3>3. CASE m # Next1
      BY <1>2, <3>1, <3>3 DEF Delivered
    <3>. QED
      BY <3>2, <3>3
  <2>. QED
    BY <2>1
<1>8. ok => /\ Cardinality(Delivered(k)') = Cardinality(d) + 1
            /\ IsFiniteSet(Delivered(k)') /\ Delivered(k)' = d \cup {Next1}
  BY <1>3, <1>6, FS_AddElement
<1>9. k[2] = "closed" =>
        /\ state[k].count = Cardinality(d) /\ (d # {} <=> Cardinality(d) # 0)
        /\ d # {} => /\ \E m \in d : state[k].firstSeen = log[m].at
                     /\ \A m \in d : state[k].firstSeen <= log[m].at
                     /\ state[k].firstSeen <= clock
  <2>1. Cardinality(d) = 0 <=> d = {}
    BY <1>3, FS_EmptySet
  <2>2. k[2] = "closed" => state[k].count = Cardinality(d) /\ (d # {} => FirstOf(k))
    BY DEF Escalating
  <2>. QED
    BY <1>3, <2>1, <2>2 DEF FirstOf
<1>10. PICK n \in Nat : n = Next1
  BY <1>2
<1>11. log'[n] = e /\ \A m \in d : log'[m] = log[m]
  BY <1>2, <1>3, <1>10
<1>12. /\ Gates!ClosedFrom(1, n)' = Delivered(k)' /\ \A s : Gates!ClosedFrom(s, n)' \subseteq Delivered(k)'
  <2>1. \A m \in Gates!Sends' : 1 <= m /\ m <= n
    BY <1>2, <1>10
  <2>. QED
    BY <1>1, <1>11, <2>1 DEF Gates!ClosedFrom, Delivered
<1>13. Gates!DeliveredClosed(n)' <=> closed
  BY <1>1, <1>5, <1>11 DEF Gates!DeliveredClosed
<1>14. Escalated(n)'
  <2>1. ASSUME "escalate" \in e.passed PROVE Gates!Due(1, n)'
    <3>1. PICK m \in d : state[k].firstSeen = log[m].at
      BY <1>3, <1>5, <1>9, <2>1
    <3>2. m \in Delivered(k)' /\ log'[n].at - log'[m].at >= MinDuration
      BY <1>1, <1>5, <1>8, <1>11, <2>1, <3>1
    <3>3. Cardinality(Delivered(k)') >= Threshold /\ Cardinality(Delivered(k)') > 1
      BY <1>0, <1>3, <1>5, <1>8, <1>9, <2>1
    <3>. QED
      BY <1>12, <3>2, <3>3, SameCounts DEF Gates!Due
  <2>2. ASSUME NEW s, closed, Gates!Due(s, n)' PROVE "escalate" \in e.passed
    <3>. DEFINE c == Cardinality(Gates!ClosedFrom(s, n)')
    <3>1. IsFiniteSet(Gates!ClosedFrom(s, n)') /\ c <= Cardinality(Delivered(k)') /\ c \in Nat
      <4>1. IsFiniteSet(Gates!ClosedFrom(s, n)') /\ c <= Cardinality(Delivered(k)')
        BY <1>8, <1>12, <2>2, FS_Subset
      <4>. QED
        BY <4>1, FS_CardinalityType
    <3>2. /\ c >= Threshold /\ c > 1
          /\ \E m \in Gates!ClosedFrom(s, n)' : log'[n].at - log'[m].at >= MinDuration
      <4>1. c >= Threshold
        BY <2>2, SameCounts DEF Gates!Due
      <4>2. c > 1
        BY <2>2, SameCounts DEF Gates!Due
      <4>3. \E m \in Gates!ClosedFrom(s, n)' : log'[n].at - log'[m].at >= MinDuration
        BY <2>2 DEF Gates!Due
      <4>. QED
        BY <4>1, <4>2, <4>3
    <3>. HIDE DEF c
    <3>3. Cardinality(d) + 1 >= Threshold /\ Cardinality(d) > 0
      BY <1>0, <1>3, <1>8, <2>2, <3>1, <3>2
    <3>4. PICK m \in Delivered(k)' : clock - log'[m].at >= MinDuration
      BY <1>1, <1>11, <1>12, <3>2
    <3>5. clock - state[k].firstSeen >= MinDuration
      <4>1. d # {} /\ state[k].firstSeen <= clock
        BY <1>3, <1>9, <2>2, <3>3
      <4>2. CASE m = Next1
        <5>1. log'[m].at = clock
          BY <1>1, <1>2, <4>2
        <5>. QED
          BY <1>0, <1>4, <3>4, <4>1, <5>1
      <4>3. CASE m # Next1
        <5>1. m \in d
          BY <1>8, <2>2, <4>3
        <5>2. log'[m].at = log[m].at /\ log[m].at \in Nat /\ state[k].firstSeen <= log[m].at
          BY <1>3, <1>9, <1>11, <2>2, <4>1, <5>1
        <5>. QED
          BY <1>0, <1>4, <3>4, <5>2
      <4>. QED
        BY <4>2, <4>3
    <3>. QED
      BY <1>3, <1>4, <1>5, <1>9, <2>2, <3>3, <3>5
  <2>. QED
    BY <1>5, <1>11, <1>13, <2>1, <2>2 DEF Escalated
<1>15. \A m \in Gates!Sends' : Escalated(m)'
  <2>1. \A m \in Gates!Sends : Escalated(m)'
    BY <1>0, <1>1, EscalatedStays DEF Escalating
  <2>. QED
    BY <1>2, <1>10, <1>14, <2>1
<1>16. /\ ~ok => state' = state
       /\ ok /\ k[2] = "closed" =>
            state' = [state EXCEPT ![k] =
                        IF state[k].count = 0 THEN [count |-> 1, firstSeen |-> clock]
                        ELSE [count |-> state[k].count + 1, firstSeen |-> state[k].firstSeen]]
       /\ ok /\ k[2] # "closed" => state' = [state EXCEPT ![k] = [count |-> 0, firstSeen |-> 0]]
  <2>1. Gates!Escalation!Send(k, ok)
    BY DEF Gates!Notify
  <2>2. /\ Gates!Escalation!IsClosed(k) <=> k[2] = "closed"
        /\ Gates!Escalation!Reset(k) => state' = [state EXCEPT ![k] = [count |-> 0, firstSeen |-> 0]]
    BY DEF Gates!Escalation!IsClosed, Gates!Escalation!Reset, Gates!Escalation!NoEntry
  <2>3. Gates!Escalation!Record(k) =>
          state' = [state EXCEPT ![k] =
                      IF state[k].count = 0 THEN [count |-> 1, firstSeen |-> clock]
                      ELSE [count |-> state[k].count + 1, firstSeen |-> state[k].firstSeen]]
    BY DEF Gates!Escalation!Record
  <2>. QED
    BY <2>1, <2>2, <2>3 DEF Gates!Escalation!Send
<1>17. /\ state' \in [GateKeys -> [count : Nat, firstSeen : Nat]]
       /\ \A q \in GateKeys : q # k => state'[q] = state[q]
       /\ ~ok => state'[k] = state[k]
       /\ closed /\ state[k].count = 0 => state'[k].count = 1 /\ state'[k].firstSeen = clock
       /\ closed /\ state[k].count # 0 => /\ state'[k].count = state[k].count + 1
                                          /\ state'[k].firstSeen = state[k].firstSeen
       /\ ok /\ k[2] # "closed" => state'[k].count = 0
  <2>1. state[k] \in [count : Nat, firstSeen : Nat]
    BY <1>0
  <2>2. CASE ~ok
    BY <1>0, <1>16, <2>2
  <2>3. CASE closed
    <3>1. CASE state[k].count = 0
      <4>1. state' = [state EXCEPT ![k] = [count |-> 1, firstSeen |-> clock]]
        BY <1>16, <2>3, <3>1
      <4>. QED
        BY <1>0, <2>3, <3>1, <4>1
    <3>2. CASE state[k].count # 0
      <4>1. state' = [state EXCEPT ![k] = [count |-> state[k].count + 1,
                                           firstSeen |-> state[k].firstSeen]]
        BY <1>16, <2>3, <3>2
      <4>. QED
        BY <1>0, <1>4, <2>3, <3>2, <4>1
    <3>. QED
      BY <3>1, <3>2
  <2>4. CASE ok /\ k[2] # "closed"
    <3>1. state' = [state EXCEPT ![k] = [count |-> 0, firstSeen |-> 0]]
      BY <1>16, <2>4
    <3>. QED
      BY <1>0, <2>4, <3>1
  <2>. QED
    BY <2>2, <2>3, <2>4
<1>18. ASSUME NEW q \in GateKeys
       PROVE  IF q[2] = "closed"
              THEN /\ state'[q].count = Cardinality(Delivered(q)')
                   /\ Delivered(q)' # {} => FirstOf(q)'
              ELSE state'[q].count = 0
  <2>0. IF q[2] = "closed"
        THEN state[q].count = Cardinality(Delivered(q)) /\ (Delivered(q) # {} => FirstOf(q))
        ELSE state[q].count = 0
    BY DEF Escalating
  <2>1. CASE q # k \/ ~ok
    <3>1. state'[q] = state[q] /\ Delivered(q)' = Delivered(q)
      BY <1>6, <1>7, <1>17, <2>1
    <3>2. \A m \in Delivered(q) : log'[m] = log[m]
      BY <1>2, DeliveredFacts
    <3>3. FirstOf(q) => FirstOf(q)'
      BY <3>1, <3>2 DEF FirstOf
    <3>. QED
      BY <2>0, <3>1, <3>3
  <2>2. CASE q = k /\ closed
    <3>1. state'[k].count = Cardinality(Delivered(k)')
      BY <1>3, <1>8, <1>9, <1>17, <2>2
    <3>2. FirstOf(k)'
      <4>1. log'[n].at = clock /\ \A m \in d : log'[m].at = log[m].at
        BY <1>1, <1>11
      <4>2. CASE d = {}
        <5>1. Delivered(k)' = {n} /\ state'[k].firstSeen = log'[n].at
          BY <1>8, <1>9, <1>10, <1>17, <2>2, <4>1, <4>2
        <5>2. log'[n].at <= log'[n].at
          BY <1>0, <4>1
        <5>. QED
          BY <5>1, <5>2 DEF FirstOf
      <4>3. CASE d # {}
        <5>1. state'[k].firstSeen = state[k].firstSeen
          BY <1>9, <1>17, <2>2, <4>3
        <5>2. PICK m \in d : state[k].firstSeen = log[m].at
          BY <1>9, <2>2, <4>3
        <5>3. m \in Delivered(k)' /\ state'[k].firstSeen = log'[m].at
          BY <1>8, <2>2, <4>1, <5>1, <5>2
        <5>4. \A o \in Delivered(k)' : log'[m].at <= log'[o].at
          BY <1>8, <1>9, <1>10, <2>2, <4>1, <4>3, <5>2
        <5>. QED
          BY <5>3, <5>4 DEF FirstOf
      <4>. QED
        BY <4>2, <4>3
    <3>. QED
      BY <2>2, <3>1, <3>2
  <2>3. CASE q = k /\ ok /\ k[2] # "closed"
    BY <1>17, <2>3
  <2>. QED
    BY <2>1, <2>2, <2>3
<1>. QED
  BY <1>15, <1>17, <1>18 DEF Escalating

(* Every step keeps what the Escalator knows; no Reset concerns it.        *)
LEMMA EscalatingStep ==
  ASSUME LogInv, Escalating, [Gates!Next]_(Gates!vars)
  PROVE  Escalating'
<1>1. ASSUME NEW k \in GateKeys \cup {<<>>}, log' = Append(log, ResetOf(k)), state' = state
      PROVE  Escalating'
  <2>. DEFINE e == ResetOf(k)
  <2>1. /\ e \in Entry /\ e.passed = {"reset"} /\ log' = Append(log, e)
        /\ log \in Seq(Entry)
    BY <1>1, ResetWrites DEF LogInv
  <2>. HIDE DEF e
  <2>2. /\ \A n \in DOMAIN log : log'[n] = log[n]
        /\ Gates!Sends' = Gates!Sends /\ Gates!Sends \subseteq DOMAIN log
    BY <2>1, LogGrows, SendsAfter
  <2>3. \A n \in Gates!Sends : Escalated(n)'
    BY <2>1, EscalatedStays DEF Escalating
  <2>4. ASSUME NEW q
        PROVE  Delivered(q)' = Delivered(q) /\ (FirstOf(q) => FirstOf(q)')
    <3>1. Delivered(q)' = Delivered(q) /\ \A m \in Delivered(q) : log'[m] = log[m]
      BY <2>2 DEF Delivered
    <3>. QED
      BY <1>1, <3>1 DEF FirstOf
  <2>. QED
    BY <1>1, <2>2, <2>3, <2>4 DEF Escalating
<1>2. ASSUME NEW k \in GateKeys, Gates!ResetKey(k) PROVE Escalating'
  BY <1>1, <1>2 DEF Gates!ResetKey, ResetOf
<1>3. CASE Gates!ResetEvery
  BY <1>1, <1>3 DEF Gates!ResetEvery, ResetOf
<1>4. CASE UNCHANGED <<log, Gates!gates>>
  <2>1. UNCHANGED <<log, state>>
    BY <1>4 DEF Gates!gates
  <2>2. /\ Gates!Sends' = Gates!Sends /\ \A k : Delivered(k)' = Delivered(k)
        /\ \A s, n : Gates!ClosedFrom(s, n)' = Gates!ClosedFrom(s, n)
    BY <2>1 DEF Delivered, Gates!Sends, Gates!ClosedFrom
  <2>3. \A s, n : Gates!Due(s, n)' <=> Gates!Due(s, n)
    BY <2>1, <2>2 DEF Gates!Due
  <2>4. \A n : Escalated(n)' <=> Escalated(n)
    BY <2>1, <2>3 DEF Escalated, Gates!DeliveredClosed
  <2>5. \A k : FirstOf(k)' <=> FirstOf(k)
    BY <2>1, <2>2 DEF FirstOf
  <2>. QED
    BY <2>1, <2>2, <2>4, <2>5 DEF Escalating
<1>. QED
  BY <1>2, <1>3, <1>4, EscalatingNotify, GatesStepCases

-----------------------------------------------------------------------------
(* Correlator.  What it keeps for a key is how many notifications came     *)
(* from a first one on.  That one is after the last forgetting, and when   *)
(* one from there on was forwarded the number has reached MinEvents.       *)
Kept(k) ==
  {m \in Gates!Sends : log[m].key = k /\ \A r \in m + 1 .. Next1 - 1 : ~Gates!Forgets(r, <<>>)}
KeptFrom(k, p) == {m \in Kept(k) : m >= p}
StartsAt(k, p) ==
  /\ p \in Kept(k) /\ log[p].at = entries[k].firstSeen
  /\ entries[k].count = Cardinality(KeptFrom(k, p))
  /\ \A f \in Through(k, "correlate", <<>>) : f >= p => entries[k].count >= MinEvents

Alike(n) ==
  {m \in Gates!Sends : /\ m <= n /\ log[m].key = log[n].key
                       /\ \A r \in m + 1 .. n - 1 : ~Gates!Forgets(r, <<>>)}
Correlated(n) ==
  "correlate" \in log[n].passed =>
    /\ Cardinality(Gates!Recent(Alike(n), log[n].at, WindowDuration + 1)) >= MinEvents
    /\ \A f \in Gates!Passed(n, log[n].key, "correlate", <<>>) :
         Cardinality({m \in Alike(n) : m > f}) >= MinEvents
Correlating ==
  /\ entries \in [GateKeys -> [count : Nat, firstSeen : Nat]]
  /\ \A k \in GateKeys : entries[k].count # 0 => \E p \in Nat : StartsAt(k, p)
  /\ \A n \in Gates!Sends : Correlated(n)

(* What is kept is a finite set of positions.                              *)
LEMMA KeptFacts ==
  ASSUME LogInv, NEW k
  PROVE  /\ Kept(k) \subseteq 1 .. Len(log) /\ IsFiniteSet(Kept(k))
         /\ Cardinality(Kept(k)) <= Len(log)
         /\ \A S : S \subseteq Kept(k) => /\ IsFiniteSet(S) /\ Cardinality(S) \in Nat
                                          /\ Cardinality(S) <= Len(log)
<1>1. Kept(k) \subseteq 1 .. Len(log) /\ Len(log) \in Nat
  BY DEF Kept, Gates!Sends, LogInv
<1>2. IsFiniteSet(1 .. Len(log)) /\ Cardinality(1 .. Len(log)) = Len(log)
  BY <1>1, PositionsCounted
<1>3. \A S : S \subseteq Kept(k) => IsFiniteSet(S) /\ Cardinality(S) <= Len(log)
  BY <1>1, <1>2, FS_Subset
<1>4. \A S : IsFiniteSet(S) => Cardinality(S) \in Nat
  BY FS_CardinalityType
<1>. QED
  BY <1>1, <1>3, <1>4

(* What was kept stays, unless every key is forgotten.                     *)
LEMMA KeptBefore ==
  ASSUME log \in Seq(Entry), NEW e \in Entry, log' = Append(log, e),
         ~(e.passed = {"reset"} /\ e.key = <<>>), NEW k, NEW m, m # Next1
  PROVE  m \in Kept(k)' <=> m \in Kept(k)
<1>0. /\ DOMAIN log = 1 .. Len(log) /\ Len(log) \in Nat /\ Next1 = Len(log) + 1
      /\ Next1' = Next1 + 1 /\ log'[Next1] = e /\ \A n \in DOMAIN log : log'[n] = log[n]
      /\ Gates!Sends' = Gates!Sends \/ Gates!Sends' = Gates!Sends \cup {Next1}
      /\ Gates!Sends \subseteq DOMAIN log
  BY LogGrows, SendsAfter DEF Next1
<1>. DEFINE Gone(r) == log'[r].passed = {"reset"} /\ log'[r].key = <<>>
<1>1. ~Gone(Next1) /\ \A r \in DOMAIN log : Gone(r) <=> Gates!Forgets(r, <<>>)
  BY <1>0 DEF Gates!Forgets
<1>2. m \in Kept(k)' <=>
        m \in Gates!Sends' /\ log'[m].key = k /\ \A r \in m + 1 .. Next1' - 1 : ~Gone(r)
  BY DEF Kept, Gates!Forgets
<1>. HIDE DEF Gone
<1>3. m \in Gates!Sends' <=> m \in Gates!Sends
  BY <1>0
<1>4. CASE m \in Gates!Sends
  <2>1. /\ m \in 1 .. Len(log) /\ m + 1 .. Next1' - 1 = (m + 1 .. Next1 - 1) \cup {Next1}
        /\ m + 1 .. Next1 - 1 \subseteq DOMAIN log /\ log'[m] = log[m]
    BY <1>0, <1>4
  <2>2. (\A r \in m + 1 .. Next1' - 1 : ~Gone(r)) <=>
          \A r \in m + 1 .. Next1 - 1 : ~Gates!Forgets(r, <<>>)
    BY <1>1, <2>1
  <2>. QED
    BY <1>2, <1>3, <2>1, <2>2 DEF Kept
<1>5. CASE m \notin Gates!Sends
  BY <1>2, <1>3, <1>5 DEF Kept
<1>. QED
  BY <1>4, <1>5

(* A send is kept.                                                         *)
LEMMA KeptAfterSend ==
  ASSUME log \in Seq(Entry), NEW e \in Entry, log' = Append(log, e), e.passed # {"reset"},
         NEW k
  PROVE  \A m : m \in Kept(k)' <=> m \in Kept(k) \/ (m = Next1 /\ e.key = k)
<1>0. /\ DOMAIN log = 1 .. Len(log) /\ Len(log) \in Nat /\ Next1 = Len(log) + 1
      /\ Next1' = Next1 + 1 /\ log'[Next1] = e
      /\ Gates!Sends' = Gates!Sends \cup {Next1} /\ Gates!Sends \subseteq DOMAIN log
  BY LogGrows, SendsAfter DEF Next1
<1>1. \A m : m # Next1 => (m \in Kept(k)' <=> m \in Kept(k))
  BY KeptBefore
<1>2. Next1 \in Kept(k)' <=> e.key = k
  <2>. DEFINE n == Next1
  <2>1. n \in Kept(k)' <=>
          /\ n \in Gates!Sends' /\ log'[n].key = k
          /\ \A r \in n + 1 .. Next1' - 1 : ~(log'[r].passed = {"reset"} /\ log'[r].key = <<>>)
    BY DEF Kept, Gates!Forgets
  <2>2. \A r : r \notin n + 1 .. Next1' - 1
    BY <1>0
  <2>. QED
    BY <1>0, <2>1, <2>2
<1>3. Next1 \notin Kept(k)
  BY <1>0 DEF Kept
<1>. QED
  BY <1>1, <1>2, <1>3

(* The reset of a key leaves what is kept alone.                           *)
LEMMA KeptAfterReset ==
  ASSUME log \in Seq(Entry), NEW e \in Entry, log' = Append(log, e), e.passed = {"reset"},
         e.key # <<>>, NEW k
  PROVE  Kept(k)' = Kept(k)
<1>0. /\ DOMAIN log = 1 .. Len(log) /\ Len(log) \in Nat /\ Next1 = Len(log) + 1
      /\ Gates!Sends' = Gates!Sends /\ Gates!Sends \subseteq DOMAIN log
  BY LogGrows, SendsAfter DEF Next1
<1>1. \A m : m # Next1 => (m \in Kept(k)' <=> m \in Kept(k))
  BY KeptBefore
<1>2. Next1 \notin Kept(k) /\ Next1 \notin Kept(k)'
  <2>1. Next1 \notin Gates!Sends /\ Next1 \notin Gates!Sends'
    BY <1>0
  <2>. QED
    BY <2>1 DEF Kept
<1>. QED
  BY <1>1, <1>2

(* What an earlier position counts stays as it is.                         *)
LEMMA CorrelatedStays ==
  ASSUME log \in Seq(Entry), NEW e \in Entry, log' = Append(log, e),
         NEW n \in Gates!Sends, Correlated(n)
  PROVE  Correlated(n)'
<1>1. /\ DOMAIN log = 1 .. Len(log) /\ Len(log) \in Nat /\ Next1 = Len(log) + 1
      /\ \A m \in DOMAIN log : log'[m] = log[m]
      /\ Gates!Sends \subseteq DOMAIN log
      /\ Gates!Sends' = Gates!Sends \/ Gates!Sends' = Gates!Sends \cup {Next1}
  BY LogGrows, SendsAfter DEF Next1
<1>2. n \in DOMAIN log /\ n \in 1 .. Next1 /\ log'[n] = log[n] /\ ~(Next1 <= n) /\ n \in Nat
  BY <1>1
<1>3. \A r \in DOMAIN log : Gates!Forgets(r, <<>>)' <=> Gates!Forgets(r, <<>>)
  BY <1>1 DEF Gates!Forgets
<1>4. ASSUME NEW m PROVE m \in Alike(n)' <=> m \in Alike(n)
  <2>1. m \in Gates!Sends' /\ m <= n <=> m \in Gates!Sends /\ m <= n
    BY <1>1, <1>2
  <2>2. CASE m \in Gates!Sends /\ m <= n
    <3>1. m + 1 .. n - 1 \subseteq DOMAIN log /\ log'[m] = log[m]
      BY <1>1, <1>2, <2>2
    <3>. QED
      BY <1>2, <1>3, <2>1, <2>2, <3>1 DEF Alike
  <2>3. CASE ~(m \in Gates!Sends /\ m <= n)
    BY <2>1, <2>3 DEF Alike
  <2>. QED
    BY <2>2, <2>3
<1>5. Alike(n)' = Alike(n)
  BY <1>4
<1>6. \A m \in Alike(n) : log'[m] = log[m]
  BY <1>1 DEF Alike
<1>7. Gates!Recent(Alike(n), log[n].at, WindowDuration + 1)'
        = Gates!Recent(Alike(n), log[n].at, WindowDuration + 1)
  BY <1>2, <1>5, <1>6 DEF Gates!Recent
<1>8. \A q : Gates!Passed(n, q, "correlate", <<>>)' = Gates!Passed(n, q, "correlate", <<>>)
  BY <1>2, PassedStays
<1>. QED
  BY <1>2, <1>5, <1>7, <1>8 DEF Correlated

(* A notification counts from the first one on, or is a first one.         *)
LEMMA CorrelatingNotify ==
  ASSUME LogInv, Correlating, NEW k \in GateKeys, NEW ok \in BOOLEAN, Gates!Notify(k, ok)
  PROVE  Correlating'
<1>. DEFINE e == Noted(k, ok)
            starts == entries[k].count = 0 \/ clock - entries[k].firstSeen > WindowDuration
<1>0. /\ log \in Seq(Entry) /\ clock \in Nat /\ WindowDuration \in Int /\ MinEvents \in Int
      /\ entries \in [GateKeys -> [count : Nat, firstSeen : Nat]]
  BY GatesAssumption DEF LogInv, Correlating
<1>1. /\ e \in Entry /\ log' = Append(log, e) /\ clock' = clock /\ e.key = k /\ e.at = clock
      /\ e.passed = Gates!Forwarding(k, ok) /\ e.passed # {"reset"}
  BY NotifyWrites
<1>2. /\ DOMAIN log = 1 .. Len(log) /\ Len(log) \in Nat /\ Next1 = Len(log) + 1
      /\ log'[Next1] = e /\ \A n \in DOMAIN log : log'[n] = log[n]
      /\ Gates!Sends' = Gates!Sends \cup {Next1} /\ Gates!Sends \subseteq DOMAIN log
  BY <1>0, <1>1, LogGrows, SendsAfter DEF Next1
<1>3. entries[k].count \in Nat /\ entries[k].firstSeen \in Nat
  <2>1. entries[k] \in [count : Nat, firstSeen : Nat]
    BY <1>0
  <2>. QED
    BY <2>1
<1>4. "correlate" \in e.passed <=> ~starts /\ entries[k].count + 1 = MinEvents
  <2>1. "correlate" \in Gates!Forwarding(k, ok) <=> Gates!Correlation!Forwards(k)
    BY DEF Gates!Forwarding
  <2>. QED
    BY <1>1, <2>1 DEF Gates!Correlation!Forwards, Gates!Correlation!Starts,
       Gates!Correlation!AtThreshold
<1>5. /\ entries' = [entries EXCEPT ![k] =
                       IF starts THEN [count |-> 1, firstSeen |-> clock]
                       ELSE [count |-> entries[k].count + 1, firstSeen |-> entries[k].firstSeen]]
  <2>1. Gates!Correlation!Record(k)
    BY DEF Gates!Notify
  <2>. QED
    BY <2>1 DEF Gates!Correlation!Record, Gates!Correlation!Starts
<1>. HIDE DEF e, starts
<1>6. /\ entries' \in [GateKeys -> [count : Nat, firstSeen : Nat]]
      /\ \A q \in GateKeys : q # k => entries'[q] = entries[q]
      /\ starts => entries'[k].count = 1 /\ entries'[k].firstSeen = clock
      /\ ~starts => /\ entries'[k].count = entries[k].count + 1
                    /\ entries'[k].firstSeen = entries[k].firstSeen
  <2>1. CASE starts
    <3>1. entries' = [entries EXCEPT ![k] = [count |-> 1, firstSeen |-> clock]]
      BY <1>5, <2>1
    <3>. QED
      BY <1>0, <2>1, <3>1
  <2>2. CASE ~starts
    <3>1. entries' = [entries EXCEPT ![k] = [count |-> entries[k].count + 1,
                                             firstSeen |-> entries[k].firstSeen]]
      BY <1>5, <2>2
    <3>. QED
      BY <1>0, <1>3, <2>2, <3>1
  <2>. QED
    BY <2>1, <2>2
<1>7. PICK n \in Nat : n = Next1
  BY <1>2
<1>8. /\ \A m : m \in Kept(k)' <=> m \in Kept(k) \/ m = n
      /\ \A q \in GateKeys : q # k => Kept(q)' = Kept(q)
  <2>1. \A m : m \in Kept(k)' <=> m \in Kept(k) \/ m = n
    BY <1>0, <1>1, <1>7, KeptAfterSend
  <2>2. ASSUME NEW q \in GateKeys, q # k PROVE Kept(q)' = Kept(q)
    <3>1. \A m : m \in Kept(q)' <=> m \in Kept(q)
      BY <1>0, <1>1, <2>2, KeptAfterSend
    <3>. QED
      BY <3>1
  <2>. QED
    BY <2>1, <2>2
<1>9. /\ \A q : Kept(q) \subseteq 1 .. Len(log) /\ Through(q, "correlate", <<>>) \subseteq 1 .. Len(log)
      /\ \A m \in 1 .. Len(log) : m < n /\ m \in Nat /\ log'[m] = log[m] /\ m # n
      /\ log'[n] = e
  <2>1. \A q : Kept(q) \subseteq 1 .. Len(log) /\ Through(q, "correlate", <<>>) \subseteq 1 .. Len(log)
    BY <1>0, KeptFacts, ThroughFacts
  <2>. QED
    BY <1>2, <1>7, <2>1
<1>10. /\ "correlate" \in e.passed =>
            Through(k, "correlate", <<>>)' = Through(k, "correlate", <<>>) \cup {n}
       /\ "correlate" \notin e.passed =>
            Through(k, "correlate", <<>>)' = Through(k, "correlate", <<>>)
       /\ \A q \in GateKeys : q # k =>
            Through(q, "correlate", <<>>)' = Through(q, "correlate", <<>>)
  <2>1. log \in Seq(Entry) /\ e \in Entry /\ log' = Append(log, e) /\ e.passed # {"reset"} /\ e.key = k
    BY <1>0, <1>1
  <2>2. "correlate" \in e.passed =>
            Through(k, "correlate", <<>>)' = Through(k, "correlate", <<>>) \cup {n}
    BY <1>7, <2>1, ThroughGrows
  <2>3. ASSUME NEW q, q # k \/ "correlate" \notin e.passed
        PROVE  Through(q, "correlate", <<>>)' = Through(q, "correlate", <<>>)
    BY <2>1, <2>3, ThroughAfterSend
  <2>. QED
    BY <2>2, <2>3
(* A first one p before, and the set from it on with the new one.          *)
<1>11. ASSUME NEW p \in Nat, p \in Kept(k)
       PROVE  Cardinality(KeptFrom(k, p)') = Cardinality(KeptFrom(k, p)) + 1
  <2>1. KeptFrom(k, p)' = KeptFrom(k, p) \cup {n} /\ n \notin KeptFrom(k, p)
    <3>1. n >= p /\ n \notin Kept(k)
      BY <1>9, <1>11
    <3>2. \A m : m \in KeptFrom(k, p)' <=> m \in KeptFrom(k, p) \/ m = n
      BY <1>8, <3>1 DEF KeptFrom
    <3>. QED
      BY <3>1, <3>2 DEF KeptFrom
  <2>2. IsFiniteSet(KeptFrom(k, p))
    BY KeptFacts DEF KeptFrom
  <2>. QED
    BY <2>1, <2>2, FS_AddElement
<1>12. ASSUME NEW q \in GateKeys, entries'[q].count # 0
       PROVE  \E p \in Nat : StartsAt(q, p)'
  <2>1. CASE q # k
    <3>1. PICK p \in Nat : StartsAt(q, p)
      BY <1>6, <1>12, <2>1 DEF Correlating
    <3>2. Kept(q)' = Kept(q) /\ KeptFrom(q, p)' = KeptFrom(q, p)
      BY <1>8, <2>1 DEF KeptFrom
    <3>3. entries'[q] = entries[q] /\ Through(q, "correlate", <<>>)' = Through(q, "correlate", <<>>)
      BY <1>6, <1>10, <2>1
    <3>4. log'[p] = log[p]
      BY <1>9, <3>1 DEF StartsAt
    <3>5. StartsAt(q, p)'
      BY <3>1, <3>2, <3>3, <3>4 DEF StartsAt
    <3>. QED
      BY <3>5
  <2>2. CASE q = k /\ starts
    <3>1. Through(k, "correlate", <<>>)' = Through(k, "correlate", <<>>)
      BY <1>4, <1>10, <2>2
    <3>2. KeptFrom(k, n)' = {n}
      <4>1. \A m \in Kept(k) : ~(m >= n)
        BY <1>9
      <4>2. \A m : m \in KeptFrom(k, n)' <=> m = n
        BY <1>8, <4>1 DEF KeptFrom
      <4>. QED
        BY <4>2
    <3>3. n \in Kept(k)' /\ log'[n].at = clock /\ entries'[k].count = 1 /\ entries'[k].firstSeen = clock
      BY <1>1, <1>6, <1>8, <1>9, <2>2
    <3>4. Cardinality({n}) = 1
      BY FS_Singleton
    <3>5. \A f \in Through(k, "correlate", <<>>)' : ~(f >= n)
      BY <1>9, <3>1
    <3>6. StartsAt(k, n)'
      BY <3>2, <3>3, <3>4, <3>5 DEF StartsAt
    <3>. QED
      BY <2>2, <3>6
  <2>3. CASE q = k /\ ~starts
    <3>1. PICK p \in Nat : StartsAt(k, p)
      BY <2>3 DEF Correlating, starts
    <3>2. /\ p \in Kept(k) /\ log[p].at = entries[k].firstSeen
          /\ entries[k].count = Cardinality(KeptFrom(k, p))
          /\ \A f \in Through(k, "correlate", <<>>) : f >= p => entries[k].count >= MinEvents
      BY <3>1 DEF StartsAt
    <3>3. p \in Kept(k)' /\ log'[p].at = entries'[k].firstSeen
      BY <1>6, <1>8, <1>9, <2>3, <3>2
    <3>4. entries'[k].count = Cardinality(KeptFrom(k, p)')
      BY <1>6, <1>11, <2>3, <3>2
    <3>5. ASSUME NEW f \in Through(k, "correlate", <<>>)', f >= p PROVE entries'[k].count >= MinEvents
      <4>1. CASE f \in Through(k, "correlate", <<>>)
        BY <1>0, <1>3, <1>6, <2>3, <3>2, <3>5, <4>1
      <4>2. CASE f \notin Through(k, "correlate", <<>>)
        <5>1. "correlate" \in e.passed
          BY <1>10, <3>5, <4>2
        <5>. QED
          BY <1>0, <1>3, <1>4, <1>6, <2>3, <5>1
      <4>. QED
        BY <4>1, <4>2
    <3>6. StartsAt(k, p)'
      BY <3>3, <3>4, <3>5 DEF StartsAt
    <3>. QED
      BY <2>3, <3>6
  <2>. QED
    BY <2>1, <2>2, <2>3
<1>13. Alike(n)' = Kept(k)'
  <2>1. \A m \in Gates!Sends' : m <= n
    BY <1>2, <1>7
  <2>2. n - 1 = Next1' - 2 /\ Next1' - 1 = n
    BY <1>2, <1>0, <1>1, <1>7, LogGrows
  <2>3. ~(log'[n].passed = {"reset"})
    BY <1>1, <1>9
  <2>4. ASSUME NEW m \in Gates!Sends'
        PROVE  (\A r \in m + 1 .. n - 1 : ~Gates!Forgets(r, <<>>)')
                 <=> (\A r \in m + 1 .. n : ~Gates!Forgets(r, <<>>)')
    <3>1. m \in Nat /\ m <= n
      BY <1>2, <1>7
    <3>2. \A r \in m + 1 .. n : r \in m + 1 .. n - 1 \/ r = n
      BY <3>1
    <3>3. m + 1 .. n - 1 \subseteq m + 1 .. n
      BY <3>1
    <3>4. ~Gates!Forgets(n, <<>>)'
      BY <2>3 DEF Gates!Forgets
    <3>. QED
      BY <3>2, <3>3, <3>4
  <2>5. \A m : m \in Kept(k)' <=>
          m \in Gates!Sends' /\ log'[m].key = k /\ \A r \in m + 1 .. n : ~Gates!Forgets(r, <<>>)'
    BY <2>2 DEF Kept
  <2>6. \A m : m \in Alike(n)' <=>
          /\ m \in Gates!Sends' /\ m <= n /\ log'[m].key = log'[n].key
          /\ \A r \in m + 1 .. n - 1 : ~Gates!Forgets(r, <<>>)'
    BY DEF Alike
  <2>7. \A m : m \in Alike(n)' <=> m \in Kept(k)'
    BY <1>1, <1>9, <2>1, <2>4, <2>5, <2>6
  <2>. QED
    BY <2>7
<1>14. Correlated(n)'
  <2>1. SUFFICES ASSUME "correlate" \in e.passed
                 PROVE  /\ Cardinality(Gates!Recent(Alike(n), log[n].at, WindowDuration + 1)') >= MinEvents
                        /\ \A f \in Gates!Passed(n, log[n].key, "correlate", <<>>)' :
                             Cardinality({m \in Alike(n)' : m > f}) >= MinEvents
    BY <1>9 DEF Correlated
  <2>2. ~starts /\ entries[k].count + 1 = MinEvents
    BY <1>4, <2>1
  <2>3. PICK p \in Nat : StartsAt(k, p)
    BY <2>2 DEF Correlating, starts
  <2>4. /\ p \in Kept(k) /\ log[p].at = entries[k].firstSeen
        /\ \A f \in Through(k, "correlate", <<>>) : ~(f >= p)
        /\ Cardinality(KeptFrom(k, p)') = MinEvents
    <3>1. /\ p \in Kept(k) /\ log[p].at = entries[k].firstSeen
          /\ entries[k].count = Cardinality(KeptFrom(k, p))
          /\ \A f \in Through(k, "correlate", <<>>) : f >= p => entries[k].count >= MinEvents
      BY <2>3 DEF StartsAt
    <3>2. ~(entries[k].count >= MinEvents)
      BY <1>0, <1>3, <2>2
    <3>. QED
      BY <1>11, <2>2, <3>1, <3>2
  <2>5. clock - entries[k].firstSeen <= WindowDuration
    BY <1>0, <1>3, <2>2 DEF starts
  <2>6. KeptFrom(k, p)' \subseteq Gates!Recent(Alike(n), log[n].at, WindowDuration + 1)'
    <3>1. ASSUME NEW m \in KeptFrom(k, p)'
          PROVE  m \in Alike(n)' /\ log'[m].at > log'[n].at - (WindowDuration + 1)
      <4>1. m \in Kept(k)' /\ m >= p /\ log'[n].at = clock
        BY <1>1, <1>9, <3>1 DEF KeptFrom
      <4>2. log'[m].at \in Nat /\ log'[m].at >= entries[k].firstSeen
        <5>1. CASE m = n
          <6>1. log[p].at <= clock
            BY <1>2, <1>9, <2>4 DEF LogInv
          <6>. QED
            BY <1>0, <2>4, <4>1, <5>1, <6>1
        <5>2. CASE m # n
          <6>1. m \in DOMAIN log /\ p \in DOMAIN log /\ log'[m] = log[m] /\ p <= m
            BY <1>2, <1>8, <1>9, <2>4, <4>1, <5>2
          <6>2. log[p].at <= log[m].at
            BY <6>1 DEF LogInv
          <6>3. log[m] \in Entry
            BY <1>0, <6>1
          <6>. QED
            BY <1>3, <2>4, <6>1, <6>2, <6>3 DEF Entry
        <5>. QED
          BY <5>1, <5>2
      <4>. QED
        BY <1>0, <1>3, <1>13, <2>5, <4>1, <4>2
    <3>. QED
      BY <3>1 DEF Gates!Recent
  <2>7. \A S : S \subseteq Kept(k)' => IsFiniteSet(S) /\ Cardinality(S) \in Nat
    <3>1. Kept(k)' = Kept(k) \cup {n} /\ IsFiniteSet(Kept(k))
      BY <1>8, KeptFacts
    <3>2. IsFiniteSet(Kept(k)')
      BY <3>1, FS_AddElement
    <3>3. \A S : S \subseteq Kept(k)' => IsFiniteSet(S)
      BY <3>2, FS_Subset
    <3>. QED
      BY <3>3, FS_CardinalityType
  <2>8. ASSUME NEW S, KeptFrom(k, p)' \subseteq S, S \subseteq Kept(k)'
        PROVE  Cardinality(S) >= MinEvents
    <3>1. IsFiniteSet(S) /\ Cardinality(S) \in Nat
      BY <2>7, <2>8
    <3>2. Cardinality(KeptFrom(k, p)') <= Cardinality(S)
      BY <2>8, <3>1, FS_Subset
    <3>. QED
      BY <1>0, <2>4, <3>1, <3>2
  <2>9. Cardinality(Gates!Recent(Alike(n), log[n].at, WindowDuration + 1)') >= MinEvents
    <3>1. Gates!Recent(Alike(n), log[n].at, WindowDuration + 1)' \subseteq Kept(k)'
      BY <1>13 DEF Gates!Recent
    <3>. QED
      BY <2>6, <2>8, <3>1
  <2>10. Gates!Passed(n, log[n].key, "correlate", <<>>)' = Through(k, "correlate", <<>>)
    <3>1. n \in 1 .. Next1 /\ log \in Seq(Entry) /\ e \in Entry /\ log' = Append(log, e)
      BY <1>0, <1>1, <1>2, <1>7
    <3>2. PICK empty : empty = <<>>
      OBVIOUS
    <3>3. Gates!Passed(n, k, "correlate", empty)' = Gates!Passed(n, k, "correlate", empty)
      BY <3>1, PassedStays
    <3>4. Gates!Passed(n, k, "correlate", <<>>) = Through(k, "correlate", <<>>)
      BY <1>7 DEF Through
    <3>. QED
      BY <1>1, <1>9, <3>2, <3>3, <3>4
  <2>11. ASSUME NEW f \in Through(k, "correlate", <<>>)
         PROVE  Cardinality({m \in Alike(n)' : m > f}) >= MinEvents
    <3>1. f \in Nat /\ ~(f >= p)
      BY <1>9, <2>4
    <3>2. KeptFrom(k, p)' \subseteq {m \in Alike(n)' : m > f}
      <4>1. \A m \in Kept(k)' : m \in Nat
        BY <1>8, <1>9
      <4>. QED
        BY <1>13, <3>1, <4>1 DEF KeptFrom
    <3>3. {m \in Alike(n)' : m > f} \subseteq Kept(k)'
      BY <1>13
    <3>. QED
      BY <2>8, <3>2, <3>3
  <2>. QED
    BY <2>9, <2>10, <2>11
<1>15. \A m \in Gates!Sends' : Correlated(m)'
  <2>1. \A m \in Gates!Sends : Correlated(m)'
    BY <1>0, <1>1, CorrelatedStays DEF Correlating
  <2>. QED
    BY <1>2, <1>7, <1>14, <2>1
<1>. QED
  BY <1>6, <1>12, <1>15 DEF Correlating

(* Every step keeps what the Correlator knows; only its own Reset, of all  *)
(* keys, makes it forget.                                                  *)
LEMMA CorrelatingStep ==
  ASSUME LogInv, Correlating, [Gates!Next]_(Gates!vars)
  PROVE  Correlating'
<1>0. log \in Seq(Entry) /\ entries \in [GateKeys -> [count : Nat, firstSeen : Nat]]
  BY DEF LogInv, Correlating
<1>1. ASSUME NEW k \in GateKeys, Gates!ResetKey(k) PROVE Correlating'
  <2>. DEFINE e == ResetOf(k)
  <2>1. /\ e \in Entry /\ e.passed = {"reset"} /\ log' = Append(log, e) /\ e.key = k
        /\ entries' = entries /\ k # <<>>
    BY <1>1, ResetWrites, KeysAreNotEmpty DEF Gates!ResetKey, ResetOf
  <2>. HIDE DEF e
  <2>2. /\ \A n \in DOMAIN log : log'[n] = log[n]
        /\ Gates!Sends' = Gates!Sends /\ Gates!Sends \subseteq DOMAIN log
    BY <1>0, <2>1, LogGrows, SendsAfter
  <2>3. \A n \in Gates!Sends : Correlated(n)'
    BY <1>0, <2>1, CorrelatedStays DEF Correlating
  <2>4. ASSUME NEW q, NEW p \in Nat, StartsAt(q, p) PROVE StartsAt(q, p)'
    <3>1. Kept(q)' = Kept(q) /\ KeptFrom(q, p)' = KeptFrom(q, p)
      BY <1>0, <2>1, KeptAfterReset DEF KeptFrom
    <3>2. Through(q, "correlate", <<>>)' = Through(q, "correlate", <<>>)
      BY <1>0, <2>1, ThroughAfterReset
    <3>3. log'[p] = log[p]
      BY <2>2, <2>4 DEF StartsAt, Kept
    <3>. QED
      BY <2>1, <2>4, <3>1, <3>2, <3>3 DEF StartsAt
  <2>. QED
    BY <1>0, <2>1, <2>2, <2>3, <2>4 DEF Correlating
<1>2. CASE Gates!ResetEvery
  <2>. DEFINE e == ResetOf(<<>>)
  <2>1. /\ e \in Entry /\ log' = Append(log, e) /\ e.passed = {"reset"}
        /\ entries' = [q \in GateKeys |-> [count |-> 0, firstSeen |-> 0]]
    BY <1>2, ResetWrites DEF Gates!ResetEvery, ResetOf, Gates!Correlation!ResetAll,
       Gates!Correlation!NoEntry
  <2>. HIDE DEF e
  <2>2. Gates!Sends' = Gates!Sends
    BY <1>0, <2>1, SendsAfter
  <2>3. \A n \in Gates!Sends : Correlated(n)'
    BY <1>0, <2>1, CorrelatedStays DEF Correlating
  <2>4. /\ entries' \in [GateKeys -> [count : Nat, firstSeen : Nat]]
        /\ \A q \in GateKeys : entries'[q].count = 0
    BY <2>1
  <2>. QED
    BY <2>2, <2>3, <2>4 DEF Correlating
<1>3. CASE UNCHANGED <<log, Gates!gates>>
  <2>1. UNCHANGED <<log, entries>>
    BY <1>3 DEF Gates!gates
  <2>2. /\ Gates!Sends' = Gates!Sends /\ \A r, f : Gates!Forgets(r, f)' <=> Gates!Forgets(r, f)
        /\ Next1' = Next1
    BY <2>1 DEF Gates!Sends, Gates!Forgets, Next1
  <2>3. /\ \A q : Kept(q)' = Kept(q) /\ \A n : Alike(n)' = Alike(n)
        /\ \A n, q, g, f : Gates!Passed(n, q, g, f)' = Gates!Passed(n, q, g, f)
    BY <2>1, <2>2 DEF Kept, Alike, Gates!Passed
  <2>4. /\ \A q, p : KeptFrom(q, p)' = KeptFrom(q, p)
        /\ \A q, g, f : Through(q, g, f)' = Through(q, g, f)
    BY <2>2, <2>3 DEF KeptFrom, Through
  <2>5. \A q, p : StartsAt(q, p)' <=> StartsAt(q, p)
    BY <2>1, <2>3, <2>4 DEF StartsAt
  <2>6. \A S, t, size : Gates!Recent(S, t, size)' = Gates!Recent(S, t, size)
    BY <2>1 DEF Gates!Recent
  <2>7. \A n : Correlated(n)' <=> Correlated(n)
    BY <2>1, <2>3, <2>6 DEF Correlated
  <2>. QED
    BY <2>1, <2>2, <2>5, <2>7 DEF Correlating
<1>. QED
  BY <1>1, <1>2, <1>3, CorrelatingNotify, GatesStepCases

-----------------------------------------------------------------------------
(* Throttler and WindowCounter.  What such a gate keeps for a key are the  *)
(* times of some that it let through, in their order, and among them are   *)
(* all those in the present window.                                        *)
Ascending(ts) == \A i, j \in DOMAIN ts : i <= j => ts[i] <= ts[j]
LiveOf(ts, cut) == {i \in DOMAIN ts : ts[i] > cut}
PrunedOf(ts, cut) == SubSeq(ts, Len(ts) - Cardinality(LiveOf(ts, cut)) + 1, Len(ts))
OneToOne(h) == \A i, j \in DOMAIN h : h[i] = h[j] => i = j

Matches(h, ts, k, g, f, size) ==
  /\ h \in [DOMAIN ts -> Through(k, g, f)] /\ OneToOne(h)
  /\ \A i \in DOMAIN ts : log[h[i]].at = ts[i]
  /\ \A m \in Through(k, g, f) : log[m].at > clock - size => \E i \in DOMAIN ts : h[i] = m

InWindow(ts, k, g, f, size) ==
  /\ ts \in Seq(Nat) /\ Ascending(ts) /\ \A i \in DOMAIN ts : ts[i] <= clock
  /\ \E h : Matches(h, ts, k, g, f, size)

(* The times after a cutoff are the last ones of an ascending sequence.    *)
LEMMA LiveAreLast ==
  ASSUME NEW ts \in Seq(Nat), Ascending(ts), NEW cut \in Int
  PROVE  /\ Cardinality(LiveOf(ts, cut)) \in 0 .. Len(ts) /\ IsFiniteSet(LiveOf(ts, cut))
         /\ LiveOf(ts, cut) = Len(ts) - Cardinality(LiveOf(ts, cut)) + 1 .. Len(ts)
<1>. DEFINE n == Len(ts)
            live == LiveOf(ts, cut)
            c == Cardinality(live)
            top == n - c + 1 .. n
<1>1. n \in Nat /\ DOMAIN ts = 1 .. n /\ \A i \in 1 .. n : ts[i] \in Nat
  OBVIOUS
<1>2. live \subseteq 1 .. n
  BY <1>1 DEF LiveOf
<1>3. \A i \in live : i .. n \subseteq live
  BY <1>1 DEF LiveOf, Ascending
<1>. HIDE DEF n, live
<1>4. \A a \in Nat : IsFiniteSet(a .. n) /\ (a <= n => Cardinality(a .. n) = n - a + 1)
  <2>1. ASSUME NEW a \in Nat
        PROVE  IsFiniteSet(a .. n) /\ (a <= n => Cardinality(a .. n) = n - a + 1)
    <3>1. IsFiniteSet(a .. n) /\ Cardinality(a .. n) = IF a > n THEN 0 ELSE n - a + 1
      BY <1>1, FS_Interval
    <3>. QED
      BY <1>1, <3>1
  <2>. QED
    BY <2>1
<1>5. IsFiniteSet(1 .. n) /\ Cardinality(1 .. n) = n
  <2>1. IsFiniteSet(1 .. n) /\ Cardinality(1 .. n) = IF 1 > n THEN 0 ELSE n - 1 + 1
    BY <1>1, FS_Interval
  <2>. QED
    BY <1>1, <2>1
<1>6. IsFiniteSet(live) /\ c \in Nat /\ c <= n
  <2>1. IsFiniteSet(live) /\ c <= n
    BY <1>2, <1>5, FS_Subset
  <2>. QED
    BY <2>1, FS_CardinalityType
<1>7. live \subseteq top
  <2>1. ASSUME NEW i \in live PROVE i \in top
    <3>1. i \in Nat /\ i <= n
      BY <1>1, <1>2
    <3>2. Cardinality(i .. n) <= c /\ Cardinality(i .. n) = n - i + 1
      BY <1>3, <1>4, <1>6, <3>1, FS_Subset
    <3>. QED
      BY <1>1, <1>6, <3>1, <3>2
  <2>. QED
    BY <2>1
<1>8. IsFiniteSet(top) /\ Cardinality(top) = c
  <2>1. n - c + 1 \in Int
    BY <1>1, <1>6
  <2>. DEFINE a == n - c + 1
  <2>. HIDE DEF a
  <2>2. IsFiniteSet(a .. n) /\ Cardinality(a .. n) = IF a > n THEN 0 ELSE n - a + 1
    BY <1>1, <2>1, FS_Interval DEF a
  <2>3. Cardinality(a .. n) = c
    BY <1>1, <1>6, <2>2 DEF a
  <2>. QED
    BY <2>2, <2>3 DEF a
<1>9. live = top
  BY <1>7, <1>8, FS_Subset
<1>. QED
  BY <1>1, <1>6, <1>9 DEF n, live

(* So that the pruned sequence is what is left of the sequence from there. *)
LEMMA PrunedFacts ==
  ASSUME NEW ts \in Seq(Nat), Ascending(ts), NEW cut \in Int
  PROVE  /\ PrunedOf(ts, cut) \in Seq(Nat)
         /\ Len(PrunedOf(ts, cut)) = Cardinality(LiveOf(ts, cut))
         /\ DOMAIN PrunedOf(ts, cut) = 1 .. Cardinality(LiveOf(ts, cut))
         /\ \A i \in DOMAIN PrunedOf(ts, cut) :
              /\ i + Len(ts) - Cardinality(LiveOf(ts, cut)) \in LiveOf(ts, cut)
              /\ PrunedOf(ts, cut)[i] = ts[i + Len(ts) - Cardinality(LiveOf(ts, cut))]
         /\ \A j \in LiveOf(ts, cut) :
              /\ j - (Len(ts) - Cardinality(LiveOf(ts, cut))) \in DOMAIN PrunedOf(ts, cut)
<1>. DEFINE n == Len(ts)
            c == Cardinality(LiveOf(ts, cut))
            p == PrunedOf(ts, cut)
<1>1. n \in Nat /\ DOMAIN ts = 1 .. n /\ \A i \in 1 .. n : ts[i] \in Nat
  OBVIOUS
<1>2. c \in 0 .. n /\ LiveOf(ts, cut) = n - c + 1 .. n
  BY LiveAreLast
<1>3. p = SubSeq(ts, n - c + 1, n)
  BY DEF PrunedOf
<1>. HIDE DEF n, c, p
<1>4. p \in Seq(Nat) /\ Len(p) = c /\ \A i \in 1 .. c : p[i] = ts[i + (n - c + 1) - 1]
  <2>1. n - c + 1 \in 1 .. n + 1
    BY <1>1, <1>2
  <2>2. \A i \in n - c + 1 .. n : ts[i] \in Nat
    BY <1>1, <1>2
  <2>3. Len(p) = n - (n - c + 1) + 1
    BY <1>1, <1>2, <1>3, <2>1
  <2>4. p = [i \in 1 .. c |-> ts[i + (n - c + 1) - 1]]
    BY <1>1, <1>2, <1>3, <2>1
  <2>. QED
    BY <1>1, <1>2, <2>2, <2>3, <2>4
<1>5. \A i \in 1 .. c : i + n - c \in n - c + 1 .. n /\ i + (n - c + 1) - 1 = i + n - c
  BY <1>1, <1>2
<1>6. \A j \in n - c + 1 .. n : j - (n - c) \in 1 .. c
  BY <1>1, <1>2
<1>7. DOMAIN p = 1 .. c
  BY <1>4
<1>. QED
  BY <1>1, <1>2, <1>4, <1>5, <1>6, <1>7 DEF n, c, p

(* What went through in the present window is as many as are live.         *)
LEMMA LiveAreRecent ==
  ASSUME LogInv, NEW ts, NEW k, NEW g, NEW f, NEW size \in Int, InWindow(ts, k, g, f, size)
  PROVE  /\ Cardinality(LiveOf(ts, clock - size))
              = Cardinality(Gates!Recent(Through(k, g, f), clock, size))
         /\ LiveOf(ts, clock - size) # {} <=> Gates!Recent(Through(k, g, f), clock, size) # {}
<1>. DEFINE live == LiveOf(ts, clock - size)
            recent == Gates!Recent(Through(k, g, f), clock, size)
<1>1. PICK h : Matches(h, ts, k, g, f, size)
  BY DEF InWindow
<1>. DEFINE b == [i \in live |-> h[i]]
<1>2. live \subseteq DOMAIN ts /\ \A i \in DOMAIN ts : i \in live <=> ts[i] > clock - size
  BY DEF LiveOf
<1>3. \A m : m \in recent <=> m \in Through(k, g, f) /\ log[m].at > clock - size
  BY DEF Gates!Recent
<1>4. b \in [live -> recent]
  BY <1>1, <1>2, <1>3 DEF Matches
<1>5. \A i, j \in live : b[i] = b[j] => i = j
  BY <1>1, <1>2 DEF OneToOne, Matches
<1>6. \A m \in recent : \E i \in live : b[i] = m
  BY <1>1, <1>2, <1>3 DEF Matches
<1>7. IsFiniteSet(live)
  <2>1. ts \in Seq(Nat) /\ Ascending(ts) /\ clock - size \in Int
    BY GatesAssumption DEF InWindow, LogInv
  <2>. QED
    BY <2>1, LiveAreLast
<1>. HIDE DEF b, live, recent
<1>8. ExistsBijection(live, recent)
  BY <1>4, <1>5, <1>6 DEF ExistsBijection, Bijection, Injection, Surjection, IsInjective
<1>9. Cardinality(recent) = Cardinality(live)
  BY <1>7, <1>8, FS_Bijection
<1>10. live # {} <=> recent # {}
  BY <1>4, <1>6
<1>. QED
  BY <1>9, <1>10 DEF live, recent

(* Pruning loses nothing of the present window.                            *)
LEMMA PrunedInWindow ==
  ASSUME LogInv, NEW ts, NEW k, NEW g, NEW f, NEW size \in Int, InWindow(ts, k, g, f, size)
  PROVE  InWindow(PrunedOf(ts, clock - size), k, g, f, size)
<1>. DEFINE cut == clock - size
            p == PrunedOf(ts, cut)
            d == Len(ts) - Cardinality(LiveOf(ts, cut))
<1>1. /\ ts \in Seq(Nat) /\ Ascending(ts) /\ cut \in Int
      /\ \A i \in DOMAIN ts : ts[i] <= clock
  BY GatesAssumption DEF InWindow, LogInv
<1>2. PICK h : /\ h \in [DOMAIN ts -> Through(k, g, f)] /\ OneToOne(h)
               /\ \A i \in DOMAIN ts : log[h[i]].at = ts[i]
               /\ \A m \in Through(k, g, f) : log[m].at > cut => \E i \in DOMAIN ts : h[i] = m
  BY DEF InWindow, Matches
<1>3. /\ Len(ts) \in Nat /\ d \in Int /\ Cardinality(LiveOf(ts, cut)) \in Nat
      /\ DOMAIN p \subseteq Nat /\ p \in Seq(Nat)
      /\ \A i \in DOMAIN p : i + d \in LiveOf(ts, cut) /\ p[i] = ts[i + d]
      /\ \A j \in LiveOf(ts, cut) : j - d \in DOMAIN p
  <2>1. Cardinality(LiveOf(ts, cut)) \in Nat /\ Len(ts) \in Nat
    BY <1>1, LiveAreLast
  <2>2. \A i \in Nat : i + Len(ts) - Cardinality(LiveOf(ts, cut)) = i + d
    BY <2>1
  <2>3. /\ p \in Seq(Nat) /\ DOMAIN p = 1 .. Cardinality(LiveOf(ts, cut))
        /\ \A j \in LiveOf(ts, cut) : j - d \in DOMAIN p
        /\ \A i \in DOMAIN p :
              /\ i + Len(ts) - Cardinality(LiveOf(ts, cut)) \in LiveOf(ts, cut)
              /\ p[i] = ts[i + Len(ts) - Cardinality(LiveOf(ts, cut))]
    <3>1. ts \in Seq(Nat) /\ Ascending(ts) /\ cut \in Int
      BY <1>1
    <3>. HIDE DEF cut
    <3>. QED
      BY <3>1, PrunedFacts, Zenon
  <2>8. DOMAIN p \subseteq Nat
    BY <2>3
  <2>4. \A j \in LiveOf(ts, cut) : j - d \in DOMAIN p
    BY <2>3
  <2>5. \A i \in DOMAIN p : i \in Nat
    BY <2>3
  <2>6. \A i \in DOMAIN p : i + d \in LiveOf(ts, cut) /\ p[i] = ts[i + d]
    <3>. HIDE DEF d, p, cut
    <3>. QED
      BY <2>2, <2>3, <2>5
  <2>7. d \in Int
    BY <2>1
  <2>. HIDE DEF d, p, cut
  <2>. QED
    BY <2>1, <2>3, <2>4, <2>6, <2>7, <2>8
<1>4. /\ LiveOf(ts, cut) \subseteq DOMAIN ts /\ DOMAIN ts \subseteq Nat
      /\ \A j \in DOMAIN ts : j \in LiveOf(ts, cut) <=> ts[j] > cut
  BY <1>1 DEF LiveOf
<1>. HIDE DEF p, d, cut
<1>5. Ascending(p) /\ \A i \in DOMAIN p : p[i] <= clock
  <2>1. \A i, j \in DOMAIN p : i <= j => i + d <= j + d
    BY <1>3
  <2>. QED
    BY <1>1, <1>3, <1>4, <2>1 DEF Ascending
<1>. DEFINE b == [i \in DOMAIN p |-> h[i + d]]
<1>6. b \in [DOMAIN p -> Through(k, g, f)]
  BY <1>2, <1>3, <1>4
<1>7. OneToOne(b)
  <2>1. \A i, j \in DOMAIN p : h[i + d] = h[j + d] => i + d = j + d
    BY <1>2, <1>3, <1>4 DEF OneToOne
  <2>2. \A i, j \in DOMAIN p : i + d = j + d => i = j
    BY <1>3
  <2>. QED
    BY <2>1, <2>2 DEF OneToOne
<1>8. \A i \in DOMAIN p : log[b[i]].at = p[i]
  BY <1>2, <1>3, <1>4
<1>9. ASSUME NEW m \in Through(k, g, f), log[m].at > cut PROVE \E i \in DOMAIN p : b[i] = m
  <2>1. PICK j \in DOMAIN ts : h[j] = m
    BY <1>2, <1>9
  <2>2. j \in LiveOf(ts, cut) /\ j \in Nat
    BY <1>2, <1>4, <1>9, <2>1
  <2>3. j - d \in DOMAIN p /\ (j - d) + d = j
    BY <1>3, <2>2
  <2>. QED
    BY <2>1, <2>3
<1>. HIDE DEF b
<1>10. Matches(b, p, k, g, f, size)
  BY <1>6, <1>7, <1>8, <1>9 DEF Matches, cut
<1>11. InWindow(p, k, g, f, size)
  BY <1>3, <1>5, <1>10 DEF InWindow
<1>. QED
  BY <1>11 DEF p, cut

(* The time of a notification that goes through is appended.               *)
LEMMA GrownInWindow ==
  ASSUME LogInv, NEW e \in Entry, log' = Append(log, e), e.passed # {"reset"}, e.at = clock,
         clock' = clock, NEW p, NEW g, NEW f, NEW size \in Int, g \in e.passed,
         NEW k, e.key = k, InWindow(p, k, g, f, size)
  PROVE  \A q : q = Append(p, clock) => InWindow(q, k, g, f, size)'
<1>. SUFFICES ASSUME NEW q, q = Append(p, clock) PROVE InWindow(q, k, g, f, size)'
  OBVIOUS
<1>. DEFINE t == Through(k, g, f)
            u == Through(k, g, f)'
<1>0. /\ log \in Seq(Entry) /\ clock \in Nat /\ p \in Seq(Nat) /\ Ascending(p)
      /\ \A i \in DOMAIN p : p[i] <= clock
  BY GatesAssumption DEF LogInv, InWindow
<1>1. /\ log'[Next1] = e /\ Next1 \notin DOMAIN log /\ t \subseteq DOMAIN log
      /\ \A n \in DOMAIN log : log'[n] = log[n]
  <2>1. t \subseteq 1 .. Len(log)
    BY <1>0, ThroughFacts
  <2>. QED
    BY <1>0, <2>1, LogGrows
<1>2. u = t \cup {Next1}
  BY <1>0, ThroughGrows
<1>3. PICK n \in Nat : n = Next1
  BY <1>0, LogGrows
<1>4. PICK h : /\ h \in [DOMAIN p -> t] /\ OneToOne(h)
               /\ \A i \in DOMAIN p : log[h[i]].at = p[i]
               /\ \A m \in t : log[m].at > clock - size => \E i \in DOMAIN p : h[i] = m
  BY DEF InWindow, Matches
<1>5. /\ q \in Seq(Nat) /\ DOMAIN p = 1 .. Len(p) /\ Len(p) \in Nat
      /\ DOMAIN q = DOMAIN p \cup {Len(p) + 1} /\ Len(p) + 1 \notin DOMAIN p
      /\ q[Len(p) + 1] = clock /\ \A i \in DOMAIN p : q[i] = p[i]
  BY <1>0
<1>. DEFINE newest == Len(p) + 1
            b == [i \in DOMAIN q |-> IF i = newest THEN n ELSE h[i]]
<1>6. newest \in DOMAIN q /\ \A i \in DOMAIN q : i \in Nat /\ (i = newest \/ (i \in DOMAIN p /\ i < newest))
  BY <1>5
<1>. HIDE DEF newest, t, u
<1>7. Ascending(q) /\ \A i \in DOMAIN q : q[i] <= clock
  <2>1. \A i \in DOMAIN q : q[i] <= clock
    <3>1. clock <= clock
      BY <1>0
    <3>. QED
      BY <1>0, <1>5, <1>6, <3>1 DEF newest
  <2>2. ASSUME NEW i \in DOMAIN q, NEW j \in DOMAIN q, i <= j PROVE q[i] <= q[j]
    <3>1. CASE j = newest
      BY <1>5, <2>1, <3>1 DEF newest
    <3>2. CASE j # newest
      <4>1. i \in DOMAIN p /\ j \in DOMAIN p
        <5>1. j \in DOMAIN p /\ j < newest /\ i \in Nat /\ j \in Nat /\ newest \in Nat
          BY <1>5, <1>6, <3>2 DEF newest
        <5>2. i # newest
          BY <2>2, <5>1
        <5>. QED
          BY <1>6, <5>1, <5>2
      <4>. QED
        BY <1>0, <1>5, <2>2, <4>1 DEF Ascending
    <3>. QED
      BY <3>1, <3>2
  <2>. QED
    BY <2>1, <2>2 DEF Ascending
<1>8. /\ b[newest] = n /\ \A i \in DOMAIN p : b[i] = h[i] /\ h[i] \in t /\ h[i] # n /\ i # newest
  BY <1>1, <1>3, <1>4, <1>5, <1>6 DEF newest
<1>9. b \in [DOMAIN q -> u]
  BY <1>2, <1>3, <1>4, <1>6
<1>10. DOMAIN b = DOMAIN q
  OBVIOUS
<1>. HIDE DEF b
<1>11. OneToOne(b)
  <2>1. ASSUME NEW i \in DOMAIN q, NEW j \in DOMAIN q, b[i] = b[j] PROVE i = j
    <3>1. CASE i = newest \/ j = newest
      BY <1>6, <1>8, <2>1, <3>1
    <3>2. CASE i # newest /\ j # newest
      BY <1>4, <1>6, <1>8, <2>1, <3>2 DEF OneToOne
    <3>. QED
      BY <3>1, <3>2
  <2>. QED
    BY <1>10, <2>1 DEF OneToOne
<1>12. \A i \in DOMAIN q : log'[b[i]].at = q[i]
  <2>1. log'[b[newest]].at = q[newest]
    BY <1>1, <1>3, <1>5, <1>8 DEF newest
  <2>2. \A i \in DOMAIN p : log'[b[i]].at = q[i]
    <3>1. \A i \in DOMAIN p : b[i] = h[i] /\ h[i] \in DOMAIN log
      BY <1>1, <1>8
    <3>2. \A i \in DOMAIN p : log'[b[i]] = log[h[i]]
      BY <1>1, <3>1
    <3>. QED
      BY <1>4, <1>5, <3>2
  <2>. QED
    BY <1>6, <2>1, <2>2
<1>13. ASSUME NEW m \in u, log'[m].at > clock - size PROVE \E i \in DOMAIN q : b[i] = m
  <2>1. CASE m = n
    BY <1>6, <1>8, <2>1
  <2>2. CASE m # n
    <3>1. m \in t /\ log'[m] = log[m]
      BY <1>1, <1>2, <1>3, <1>13, <2>2
    <3>2. PICK i \in DOMAIN p : h[i] = m
      BY <1>4, <1>13, <3>1
    <3>. QED
      BY <1>5, <1>8, <3>2
  <2>. QED
    BY <2>1, <2>2
<1>14. q \in Seq(Nat)
  BY <1>5
<1>15. PICK c : c = b
  OBVIOUS
<1>16. Matches(c, q, k, g, f, size)'
  <2>1. clock' - size = clock - size
    OBVIOUS
  <2>. QED
    BY <1>9, <1>11, <1>12, <1>13, <1>15, <2>1 DEF Matches, u
<1>17. Ascending(q)' /\ \A i \in DOMAIN q : q[i] <= clock'
  BY <1>7 DEF Ascending
<1>. QED
  BY <1>14, <1>16, <1>17 DEF InWindow

(* What the gate keeps for a key still fits when the log has not changed   *)
(* for that gate and that key and some time has passed.                    *)
LEMMA StillInWindow ==
  ASSUME LogInv, NEW p, NEW k, NEW g, NEW f, NEW size \in Int, InWindow(p, k, g, f, size),
         clock' \in Nat, clock <= clock', Through(k, g, f)' = Through(k, g, f),
         \A m \in Through(k, g, f) : log'[m] = log[m]
  PROVE  InWindow(p, k, g, f, size)'
<1>0. /\ log \in Seq(Entry) /\ clock \in Nat /\ p \in Seq(Nat) /\ Ascending(p)
      /\ \A i \in DOMAIN p : p[i] <= clock /\ p[i] \in Nat
      /\ \A m \in Through(k, g, f) : log[m].at \in Nat
  <2>1. /\ log \in Seq(Entry) /\ clock \in Nat /\ p \in Seq(Nat) /\ Ascending(p)
        /\ \A i \in DOMAIN p : p[i] <= clock
    BY GatesAssumption DEF LogInv, InWindow
  <2>2. \A m \in Through(k, g, f) : log[m] \in Entry
    <3>1. Through(k, g, f) \subseteq 1 .. Len(log)
      BY <2>1, ThroughFacts
    <3>. QED
      BY <2>1, <3>1
  <2>. QED
    BY <2>1, <2>2 DEF Entry
<1>1. PICK h : Matches(h, p, k, g, f, size)
  BY DEF InWindow
<1>2. \A i \in DOMAIN p : p[i] <= clock' /\ log'[h[i]].at = p[i]
  <2>1. /\ h \in [DOMAIN p -> Through(k, g, f)]
        /\ \A i \in DOMAIN p : log[h[i]].at = p[i]
    BY <1>1 DEF Matches
  <2>2. \A i \in DOMAIN p : log'[h[i]] = log[h[i]]
    BY <2>1
  <2>3. \A i \in DOMAIN p : p[i] <= clock'
    BY <1>0
  <2>. QED
    BY <2>1, <2>2, <2>3
<1>3. \A m \in Through(k, g, f) : log'[m].at > clock' - size => \E i \in DOMAIN p : h[i] = m
  <2>1. \A m \in Through(k, g, f) : log'[m].at > clock' - size => log[m].at > clock - size
    BY <1>0
  <2>. QED
    BY <1>1, <2>1 DEF Matches
<1>4. Matches(h, p, k, g, f, size)'
  BY <1>1, <1>2, <1>3 DEF Matches
<1>. QED
  BY <1>0, <1>2, <1>4 DEF InWindow

(* A gate that keeps nothing has let nothing through.                      *)
LEMMA NothingInWindow ==
  ASSUME NEW k, NEW g, NEW f, NEW size
  PROVE  /\ Through(k, g, f) = {} => InWindow(<<>>, k, g, f, size)
         /\ Through(k, g, f)' = {} => InWindow(<<>>, k, g, f, size)'
<1>1. <<>> \in Seq(Nat) /\ DOMAIN <<>> = {} /\ Ascending(<<>>) /\ OneToOne(<<>>)
  BY DEF Ascending, OneToOne
<1>2. <<>> \in [DOMAIN <<>> -> {}]
  BY <1>1
<1>3. Through(k, g, f) = {} => Matches(<<>>, <<>>, k, g, f, size)
  BY <1>1, <1>2 DEF Matches
<1>4. Through(k, g, f)' = {} => Matches(<<>>, <<>>, k, g, f, size)'
  BY <1>1, <1>2 DEF Matches
<1>. QED
  BY <1>1, <1>3, <1>4 DEF InWindow

(* A gate that keeps such a sequence for every key; own says whether the   *)
(* reset of a key makes it forget that key, or only the one of every key.  *)
Forgot(own, k) == IF own THEN k ELSE <<>>
SlidOf(ts, g, own, size, max) ==
  /\ ts \in [GateKeys -> Seq(Nat)]
  /\ \A k \in GateKeys : Len(ts[k]) <= max /\ InWindow(ts[k], k, g, Forgot(own, k), size)
Counted(n, g, own, size, max) ==
  g \in log[n].passed <=>
    Cardinality(Gates!Recent(Gates!Passed(n, log[n].key, g, Forgot(own, log[n].key)),
                             log[n].at, size)) < max
CountedSoFar(g, own, size, max) == \A n \in Gates!Sends : Counted(n, g, own, size, max)
Sliding ==
  /\ SlidOf(bursts, "throttle", FALSE, BurstWindow, MaxBurst)
  /\ CountedSoFar("throttle", FALSE, BurstWindow, MaxBurst)
  /\ SlidOf(timestamps, "window", TRUE, Gates!Size, Gates!MaxEvents)
  /\ CountedSoFar("window", TRUE, Gates!Size, Gates!MaxEvents)

(* What has been judged is not judged anew.                                *)
LEMMA CountedStays ==
  ASSUME log \in Seq(Entry), NEW e \in Entry, log' = Append(log, e), NEW n \in Gates!Sends,
         NEW g, NEW own, NEW size, NEW max, Counted(n, g, own, size, max)
  PROVE  Counted(n, g, own, size, max)'
<1>1. /\ DOMAIN log = 1 .. Len(log) /\ Len(log) \in Nat /\ Next1 = Len(log) + 1
      /\ \A m \in DOMAIN log : log'[m] = log[m]
      /\ Gates!Sends \subseteq DOMAIN log
  BY LogGrows, SendsAfter DEF Next1
<1>2. n \in 1 .. Next1 /\ n \in DOMAIN log /\ log'[n] = log[n]
  BY <1>1
<1>3. \A k, f : Gates!Passed(n, k, g, f)' = Gates!Passed(n, k, g, f)
  BY <1>2, PassedStays
<1>4. \A k, f : Gates!Passed(n, k, g, f) \subseteq DOMAIN log
  BY <1>1 DEF Gates!Passed
<1>5. \A k, f, t : Gates!Recent(Gates!Passed(n, k, g, f), t, size)'
                     = Gates!Recent(Gates!Passed(n, k, g, f), t, size)
  BY <1>1, <1>3, <1>4 DEF Gates!Recent
<1>6. \A k : Forgot(own, k)' = Forgot(own, k)
  BY DEF Forgot
<1>. QED
  BY <1>2, <1>5, <1>6 DEF Counted

(* A send is judged by how many of the times that the gate keeps are live. *)
LEMMA SlidingJudges ==
  ASSUME LogInv, NEW e \in Entry, log' = Append(log, e), e.passed # {"reset"}, e.at = clock,
         NEW k \in GateKeys, e.key = k, NEW g, NEW own, NEW size \in Int, NEW max, NEW ts,
         clock' = clock, SlidOf(ts, g, own, size, max), CountedSoFar(g, own, size, max),
         g \in e.passed <=> Cardinality(LiveOf(ts[k], clock - size)) < max
  PROVE  CountedSoFar(g, own, size, max)'
<1>0. log \in Seq(Entry) /\ clock \in Nat
  BY GatesAssumption DEF LogInv
<1>1. /\ DOMAIN log = 1 .. Len(log) /\ Len(log) \in Nat /\ Next1 = Len(log) + 1
      /\ log'[Next1] = e /\ \A n \in DOMAIN log : log'[n] = log[n]
      /\ Gates!Sends' = Gates!Sends \cup {Next1} /\ Gates!Sends \subseteq DOMAIN log
  BY <1>0, LogGrows, SendsAfter DEF Next1
<1>2. \A n \in Gates!Sends : Counted(n, g, own, size, max)'
  BY <1>0, CountedStays DEF CountedSoFar
<1>3. PICK n \in Nat : n = Next1
  BY <1>1
<1>4. PICK f : f = Forgot(own, k)
  OBVIOUS
<1>5. Gates!Passed(n, k, g, f)' = Through(k, g, f) /\ Through(k, g, f) \subseteq DOMAIN log
  <2>1. Gates!Passed(n, k, g, f)' = Gates!Passed(n, k, g, f)
    BY <1>0, <1>1, <1>3, PassedStays
  <2>2. Through(k, g, f) \subseteq DOMAIN log
    BY <1>0, <1>1, ThroughFacts
  <2>. QED
    BY <1>3, <2>1, <2>2 DEF Through
<1>6. Gates!Recent(Gates!Passed(n, k, g, f), clock, size)'
        = Gates!Recent(Through(k, g, f), clock, size)
  BY <1>1, <1>5 DEF Gates!Recent
<1>7. g \in e.passed <=> Cardinality(Gates!Recent(Through(k, g, f), clock, size)) < max
  <2>1. PICK p : p = ts[k]
    OBVIOUS
  <2>2. InWindow(p, k, g, f, size)
    BY <1>4, <2>1 DEF SlidOf
  <2>3. Cardinality(LiveOf(p, clock - size))
          = Cardinality(Gates!Recent(Through(k, g, f), clock, size))
    BY <2>2, LiveAreRecent
  <2>. QED
    BY <2>1, <2>3
<1>8. Counted(n, g, own, size, max)'
  <2>1. log'[n] = e /\ e.key = k /\ e.at = clock /\ clock' = clock /\ Forgot(own, k)' = f
    BY <1>1, <1>3, <1>4 DEF Forgot
  <2>2. Counted(n, g, own, size, max)' <=>
          (g \in log'[n].passed <=>
             Cardinality(Gates!Recent(Gates!Passed(n, k, g, f), clock, size)') < max)
    BY <2>1 DEF Counted
  <2>. QED
    BY <1>6, <1>7, <2>1, <2>2
<1>. QED
  BY <1>1, <1>2, <1>3, <1>8 DEF CountedSoFar

(* And the gate keeps what is live, with the time of the send if it lets   *)
(* it through.                                                             *)
LEMMA SlidingRemembers ==
  ASSUME LogInv, NEW e \in Entry, log' = Append(log, e), e.passed # {"reset"}, e.at = clock,
         NEW k \in GateKeys, e.key = k, NEW g, NEW own, NEW size \in Int, NEW max \in Int,
         NEW ts, NEW then, clock' = clock, SlidOf(ts, g, own, size, max),
         g \in e.passed <=> Cardinality(LiveOf(ts[k], clock - size)) < max,
         NEW pruned, pruned = PrunedOf(ts[k], clock - size),
         then = [ts EXCEPT ![k] = IF g \in e.passed THEN Append(pruned, clock) ELSE pruned]
  PROVE  SlidOf(then, g, own, size, max)'
<1>0. /\ log \in Seq(Entry) /\ clock \in Nat /\ clock' \in Nat /\ clock <= clock'
      /\ ts \in [GateKeys -> Seq(Nat)]
      /\ DOMAIN log = 1 .. Len(log) /\ \A n \in DOMAIN log : log'[n] = log[n]
  <2>1. log \in Seq(Entry) /\ clock \in Nat
    BY GatesAssumption DEF LogInv
  <2>. QED
    BY <2>1, LogGrows DEF SlidOf
<1>1. PICK f : f = Forgot(own, k)
  OBVIOUS
<1>2. PICK p : p = ts[k]
  OBVIOUS
<1>3. InWindow(p, k, g, f, size) /\ Len(p) <= max
  BY <1>1, <1>2 DEF SlidOf
<1>4. InWindow(pruned, k, g, f, size)
  <2>1. InWindow(PrunedOf(p, clock - size), k, g, f, size)
    BY <1>3, PrunedInWindow
  <2>. QED
    BY <1>2, <2>1
<1>5. /\ p \in Seq(Nat) /\ Len(pruned) = Cardinality(LiveOf(p, clock - size))
      /\ Cardinality(LiveOf(p, clock - size)) \in Nat
      /\ Cardinality(LiveOf(p, clock - size)) <= Len(p)
  <2>1. p \in Seq(Nat) /\ Ascending(p) /\ clock - size \in Int
    BY <1>0, <1>3 DEF InWindow
  <2>2. Cardinality(LiveOf(p, clock - size)) \in 0 .. Len(p)
    BY <2>1, LiveAreLast
  <2>3. Len(PrunedOf(p, clock - size)) = Cardinality(LiveOf(p, clock - size))
    BY <2>1, PrunedFacts
  <2>. QED
    BY <1>2, <2>1, <2>2, <2>3
<1>6. pruned \in Seq(Nat) /\ Len(pruned) <= max
  BY <1>3, <1>4, <1>5 DEF InWindow
<1>7. PICK kept : kept = IF g \in e.passed THEN Append(pruned, clock) ELSE pruned
  OBVIOUS
<1>8. kept \in Seq(Nat) /\ Len(kept) <= max
  BY <1>0, <1>2, <1>5, <1>6, <1>7
<1>9. InWindow(kept, k, g, f, size)'
  <2>1. CASE g \in e.passed
    <3>1. kept = Append(pruned, clock)
      BY <1>7, <2>1
    <3>. QED
      BY <1>4, <2>1, <3>1, GrownInWindow
  <2>2. CASE g \notin e.passed
    <3>1. Through(k, g, f)' = Through(k, g, f) /\ Through(k, g, f) \subseteq DOMAIN log
      BY <1>0, <2>2, ThroughAfterSend, ThroughFacts
    <3>2. \A m \in Through(k, g, f) : log'[m] = log[m]
      BY <1>0, <3>1
    <3>. QED
      BY <1>0, <1>4, <1>7, <2>2, <3>1, <3>2, StillInWindow
  <2>. QED
    BY <2>1, <2>2
<1>10. then \in [GateKeys -> Seq(Nat)] /\ then[k] = kept /\ \A q \in GateKeys : q # k => then[q] = ts[q]
  BY <1>0, <1>7, <1>8
<1>11. ASSUME NEW q \in GateKeys, q # k
       PROVE  Len(ts[q]) <= max /\ InWindow(ts[q], q, g, Forgot(own, q), size)'
  <2>1. PICK o : o = Forgot(own, q)
    OBVIOUS
  <2>2. PICK r : r = ts[q]
    OBVIOUS
  <2>3. InWindow(r, q, g, o, size) /\ Len(r) <= max
    BY <2>1, <2>2 DEF SlidOf
  <2>4. Through(q, g, o)' = Through(q, g, o) /\ Through(q, g, o) \subseteq DOMAIN log
    BY <1>0, <1>11, ThroughAfterSend, ThroughFacts
  <2>5. \A m \in Through(q, g, o) : log'[m] = log[m]
    BY <1>0, <2>4
  <2>6. InWindow(r, q, g, o, size)'
    BY <1>0, <2>3, <2>4, <2>5, StillInWindow
  <2>. QED
    BY <2>1, <2>2, <2>3, <2>6 DEF Forgot
<1>12. Forgot(own, k)' = f
  BY <1>1 DEF Forgot
<1>13. ASSUME NEW q \in GateKeys
       PROVE  Len(then[q]) <= max /\ InWindow(then[q], q, g, Forgot(own, q), size)'
  <2>1. CASE q = k
    BY <1>8, <1>9, <1>10, <1>12, <2>1
  <2>2. CASE q # k
    BY <1>10, <1>11, <2>2
  <2>. QED
    BY <2>1, <2>2
<1>. QED
  BY <1>10, <1>13 DEF SlidOf

(* A reset makes it forget the keys that the reset is for.                 *)
LEMMA SlidingForgets ==
  ASSUME LogInv, NEW e \in Entry, log' = Append(log, e), e.passed = {"reset"}, clock' = clock,
         NEW g, NEW own, NEW size \in Int, NEW max \in Nat, NEW ts,
         NEW then \in [GateKeys -> Seq(Nat)],
         SlidOf(ts, g, own, size, max), CountedSoFar(g, own, size, max),
         \A q \in GateKeys : then[q] = IF Forgot(own, q) = e.key THEN <<>> ELSE ts[q]
  PROVE  SlidOf(then, g, own, size, max)' /\ CountedSoFar(g, own, size, max)'
<1>0. /\ log \in Seq(Entry) /\ clock \in Nat /\ clock' \in Nat /\ clock <= clock'
      /\ DOMAIN log = 1 .. Len(log) /\ \A n \in DOMAIN log : log'[n] = log[n]
      /\ Gates!Sends' = Gates!Sends
  <2>1. log \in Seq(Entry) /\ clock \in Nat
    BY GatesAssumption DEF LogInv
  <2>. QED
    BY <2>1, LogGrows, SendsAfter
<1>1. ASSUME NEW q \in GateKeys
      PROVE  Len(then[q]) <= max /\ InWindow(then[q], q, g, Forgot(own, q), size)'
  <2>1. PICK o : o = Forgot(own, q)
    OBVIOUS
  <2>2. Forgot(own, q)' = o
    BY <2>1 DEF Forgot
  <2>3. CASE o = e.key
    <3>1. Through(q, g, o)' = {}
      BY <1>0, <2>3, ThroughAfterReset
    <3>2. InWindow(<<>>, q, g, o, size)'
      BY <3>1, NothingInWindow
    <3>3. then[q] = <<>>
      BY <2>1, <2>3
    <3>4. Len(<<>>) <= max
      OBVIOUS
    <3>. QED
      BY <2>2, <3>2, <3>3, <3>4
  <2>4. CASE o # e.key
    <3>1. PICK r : r = ts[q]
      OBVIOUS
    <3>2. InWindow(r, q, g, o, size) /\ Len(r) <= max /\ then[q] = r
      BY <2>1, <2>4, <3>1 DEF SlidOf
    <3>3. Through(q, g, o)' = Through(q, g, o) /\ Through(q, g, o) \subseteq DOMAIN log
      BY <1>0, <2>4, ThroughAfterReset, ThroughFacts
    <3>4. \A m \in Through(q, g, o) : log'[m] = log[m]
      BY <1>0, <3>3
    <3>5. InWindow(r, q, g, o, size)'
      BY <1>0, <3>2, <3>3, <3>4, StillInWindow
    <3>. QED
      BY <2>2, <3>2, <3>5
  <2>. QED
    BY <2>3, <2>4
<1>2. CountedSoFar(g, own, size, max)'
  BY <1>0, CountedStays DEF CountedSoFar
<1>. QED
  BY <1>1, <1>2 DEF SlidOf

(* While nothing is written the clock may go on.                           *)
LEMMA SlidingWaits ==
  ASSUME LogInv, log' = log, clock <= clock', clock' \in Nat,
         NEW g, NEW own, NEW size \in Int, NEW max, NEW ts,
         SlidOf(ts, g, own, size, max), CountedSoFar(g, own, size, max)
  PROVE  SlidOf(ts, g, own, size, max)' /\ CountedSoFar(g, own, size, max)'
<1>1. \A k, f : Through(k, g, f)' = Through(k, g, f)
  BY DEF Through, Next1, Gates!Passed, Gates!Sends, Gates!Forgets
<1>2. ASSUME NEW q \in GateKeys PROVE InWindow(ts[q], q, g, Forgot(own, q), size)'
  <2>1. PICK o : o = Forgot(own, q)
    OBVIOUS
  <2>2. PICK r : r = ts[q]
    OBVIOUS
  <2>3. InWindow(r, q, g, o, size)
    BY <2>1, <2>2 DEF SlidOf
  <2>4. InWindow(r, q, g, o, size)'
    BY <1>1, <2>3, StillInWindow
  <2>. QED
    BY <2>1, <2>2, <2>4 DEF Forgot
<1>3. CountedSoFar(g, own, size, max)'
  <2>1. /\ Gates!Sends' = Gates!Sends /\ \A k : Forgot(own, k)' = Forgot(own, k)
        /\ \A n, k, f : Gates!Passed(n, k, g, f)' = Gates!Passed(n, k, g, f)
        /\ \A ms, t : Gates!Recent(ms, t, size)' = Gates!Recent(ms, t, size)
    BY DEF Gates!Recent, Gates!Passed, Gates!Sends, Gates!Forgets, Forgot
  <2>2. ASSUME NEW n \in Gates!Sends PROVE Counted(n, g, own, size, max)'
    <3>1. Counted(n, g, own, size, max)
      BY DEF CountedSoFar
    <3>2. Gates!Recent(Gates!Passed(n, log[n].key, g, Forgot(own, log[n].key)), log[n].at, size)'
            = Gates!Recent(Gates!Passed(n, log[n].key, g, Forgot(own, log[n].key)), log[n].at, size)
      BY <2>1 DEF Gates!Recent
    <3>. QED
      BY <3>1, <3>2 DEF Counted
  <2>. QED
    BY <2>1, <2>2 DEF CountedSoFar
<1>. QED
  BY <1>2, <1>3 DEF SlidOf

(* What the two gates keep and answer, in these terms.                     *)
LEMMA ThrottleFacts ==
  ASSUME NEW k \in GateKeys
  PROVE  /\ Gates!Throttle!Pruned(k) = PrunedOf(bursts[k], clock - BurstWindow)
         /\ Gates!Throttle!Live(k) = LiveOf(bursts[k], clock - BurstWindow)
<1>1. Gates!Throttle!Live(k) = LiveOf(bursts[k], clock - BurstWindow)
  BY DEF Gates!Throttle!Live, Gates!Throttle!AfterCutoff, LiveOf
<1>. QED
  BY <1>1, SameCounts DEF Gates!Throttle!Pruned, PrunedOf

(* The same for the WindowCounter.                                         *)
LEMMA WindowFacts ==
  ASSUME NEW k \in GateKeys
  PROVE  /\ Gates!Window!Pruned(k) = PrunedOf(timestamps[k], clock - Gates!Size)
         /\ Gates!Window!Live(k) = LiveOf(timestamps[k], clock - Gates!Size)
<1>1. Gates!Window!Live(k) = LiveOf(timestamps[k], clock - Gates!Size)
  BY DEF Gates!Window!Live, Gates!Window!AfterCutoff, LiveOf
<1>. QED
  BY <1>1, SameCounts DEF Gates!Window!Pruned, PrunedOf

(* The limits are integers.                                                *)
LEMMA LimitsAreNumbers ==
  MaxBurst \in Nat /\ BurstWindow \in Int /\ Gates!Size \in Int /\ Gates!MaxEvents \in Nat
BY GatesAssumption DEF Gates!Size, Gates!MaxEvents

(* Every step keeps both gates and what has been judged.                   *)
LEMMA SlidingStep ==
  ASSUME LogInv, Sliding, [Gates!Next]_(Gates!vars)
  PROVE  Sliding'
<1>0. /\ log \in Seq(Entry) /\ clock \in Nat
      /\ SlidOf(bursts, "throttle", FALSE, BurstWindow, MaxBurst)
      /\ CountedSoFar("throttle", FALSE, BurstWindow, MaxBurst)
      /\ SlidOf(timestamps, "window", TRUE, Gates!Size, Gates!MaxEvents)
      /\ CountedSoFar("window", TRUE, Gates!Size, Gates!MaxEvents)
  <2>1. log \in Seq(Entry) /\ clock \in Nat
    BY GatesAssumption DEF LogInv
  <2>. QED
    BY <2>1 DEF Sliding
<1>1. PICK size, max : size = Gates!Size /\ max = Gates!MaxEvents
  OBVIOUS
<1>2. /\ size \in Int /\ max \in Nat /\ BurstWindow \in Int /\ MaxBurst \in Nat
      /\ Gates!Size' = size /\ Gates!MaxEvents' = max
  BY <1>1, LimitsAreNumbers DEF Gates!Size, Gates!MaxEvents
<1>3. PICK b, w : b = bursts /\ w = timestamps
  OBVIOUS
<1>4. /\ SlidOf(b, "throttle", FALSE, BurstWindow, MaxBurst) /\ b \in [GateKeys -> Seq(Nat)]
      /\ SlidOf(w, "window", TRUE, size, max) /\ w \in [GateKeys -> Seq(Nat)]
      /\ CountedSoFar("window", TRUE, size, max)
  BY <1>0, <1>1, <1>3 DEF SlidOf
<1>5. ASSUME SlidOf(bursts, "throttle", FALSE, BurstWindow, MaxBurst)',
             CountedSoFar("throttle", FALSE, BurstWindow, MaxBurst)',
             SlidOf(timestamps, "window", TRUE, size, max)',
             CountedSoFar("window", TRUE, size, max)'
      PROVE  Sliding'
  BY <1>2, <1>5 DEF Sliding
<1>6. ASSUME NEW k \in GateKeys, NEW ok \in BOOLEAN, Gates!Notify(k, ok) PROVE Sliding'
  <2>. DEFINE e == Noted(k, ok)
  <2>1. /\ e \in Entry /\ log' = Append(log, e) /\ clock' = clock /\ e.key = k /\ e.at = clock
        /\ e.passed = Gates!Forwarding(k, ok) /\ e.passed # {"reset"}
    BY <1>6, NotifyWrites
  <2>2. /\ "throttle" \in Gates!Forwarding(k, ok) <=> Gates!Throttle!Open(k)
        /\ "window" \in Gates!Forwarding(k, ok) <=> Gates!Window!Open(k)
    BY DEF Gates!Forwarding
  <2>3. PICK pb, pw : pb = PrunedOf(b[k], clock - BurstWindow) /\ pw = PrunedOf(w[k], clock - size)
    OBVIOUS
  <2>4. pb = Gates!Throttle!Pruned(k) /\ pw = Gates!Window!Pruned(k)
    BY <1>1, <1>3, <2>3, ThrottleFacts, WindowFacts
  <2>5. /\ Len(pb) = Cardinality(LiveOf(b[k], clock - BurstWindow))
        /\ Len(pw) = Cardinality(LiveOf(w[k], clock - size))
    <3>1. b[k] \in Seq(Nat) /\ Ascending(b[k]) /\ clock - BurstWindow \in Int
      <4>1. InWindow(b[k], k, "throttle", Forgot(FALSE, k), BurstWindow)
        BY <1>4 DEF SlidOf
      <4>. QED
        BY <1>0, <1>2, <1>4, <4>1 DEF InWindow
    <3>2. w[k] \in Seq(Nat) /\ Ascending(w[k]) /\ clock - size \in Int
      <4>1. InWindow(w[k], k, "window", Forgot(TRUE, k), size)
        BY <1>4 DEF SlidOf
      <4>. QED
        BY <1>0, <1>2, <1>4, <4>1 DEF InWindow
    <3>3. Len(pb) = Cardinality(LiveOf(b[k], clock - BurstWindow))
      BY <2>3, <3>1, PrunedFacts
    <3>4. Len(pw) = Cardinality(LiveOf(w[k], clock - size))
      BY <2>3, <3>2, PrunedFacts
    <3>. QED
      BY <3>3, <3>4
  <2>6. /\ "throttle" \in e.passed <=> Cardinality(LiveOf(b[k], clock - BurstWindow)) < MaxBurst
        /\ "window" \in e.passed <=> Cardinality(LiveOf(w[k], clock - size)) < max
    BY <1>1, <2>1, <2>2, <2>4, <2>5 DEF Gates!Throttle!Open, Gates!Window!Open
  <2>7. /\ bursts' = [b EXCEPT ![k] = IF "throttle" \in e.passed THEN Append(pb, clock) ELSE pb]
        /\ timestamps' = [w EXCEPT ![k] = IF "window" \in e.passed THEN Append(pw, clock) ELSE pw]
    BY <1>3, <1>6, <2>1, <2>2, <2>4 DEF Gates!Notify, Gates!Throttle!Allow, Gates!Window!Allow
  <2>. HIDE DEF e
  <2>8. CountedSoFar("throttle", FALSE, BurstWindow, MaxBurst)'
    BY <1>0, <1>2, <1>4, <2>1, <2>6, SlidingJudges
  <2>9. CountedSoFar("window", TRUE, size, max)'
    BY <1>0, <1>2, <1>4, <2>1, <2>6, SlidingJudges
  <2>10. PICK tb, tw : tb = bursts' /\ tw = timestamps'
    OBVIOUS
  <2>11. SlidOf(tb, "throttle", FALSE, BurstWindow, MaxBurst)'
    <3>1. /\ pb = PrunedOf(b[k], clock - BurstWindow) /\ MaxBurst \in Int
          /\ tb = [b EXCEPT ![k] = IF "throttle" \in e.passed THEN Append(pb, clock) ELSE pb]
      BY <1>2, <2>3, <2>7, <2>10
    <3>. QED
      BY <1>2, <1>4, <2>1, <2>6, <3>1, SlidingRemembers
  <2>12. SlidOf(tw, "window", TRUE, size, max)'
    <3>1. /\ pw = PrunedOf(w[k], clock - size) /\ max \in Int
          /\ tw = [w EXCEPT ![k] = IF "window" \in e.passed THEN Append(pw, clock) ELSE pw]
      BY <1>2, <2>3, <2>7, <2>10
    <3>. QED
      BY <1>2, <1>4, <2>1, <2>6, <3>1, SlidingRemembers
  <2>. QED
    BY <1>5, <2>8, <2>9, <2>10, <2>11, <2>12
<1>7. ASSUME NEW k \in GateKeys \cup {<<>>}, log' = Append(log, ResetOf(k)), clock' = clock,
             bursts' = IF k = <<>> THEN [q \in GateKeys |-> <<>>] ELSE bursts,
             timestamps' = IF k \in GateKeys THEN [timestamps EXCEPT ![k] = <<>>] ELSE timestamps
      PROVE  Sliding'
  <2>. DEFINE e == ResetOf(k)
  <2>1. e \in Entry /\ e.passed = {"reset"} /\ e.key = k /\ log' = Append(log, e)
    BY <1>7, ResetWrites
  <2>. HIDE DEF e
  <2>2. PICK tb, tw : tb = bursts' /\ tw = timestamps'
    OBVIOUS
  <2>3. <<>> \in Seq(Nat) /\ <<>> \notin GateKeys
    BY KeysAreNotEmpty
  <2>4. tb \in [GateKeys -> Seq(Nat)]
    BY <1>3, <1>4, <1>7, <2>2, <2>3
  <2>5. tw \in [GateKeys -> Seq(Nat)]
    BY <1>3, <1>4, <1>7, <2>2, <2>3
  <2>6. \A q \in GateKeys : tb[q] = IF Forgot(FALSE, q) = e.key THEN <<>> ELSE b[q]
    BY <1>3, <1>7, <2>1, <2>2 DEF Forgot
  <2>7. \A q \in GateKeys : tw[q] = IF Forgot(TRUE, q) = e.key THEN <<>> ELSE w[q]
    BY <1>3, <1>4, <1>7, <2>1, <2>2, <2>3 DEF Forgot
  <2>8. /\ SlidOf(tb, "throttle", FALSE, BurstWindow, MaxBurst)'
        /\ CountedSoFar("throttle", FALSE, BurstWindow, MaxBurst)'
    <3>1. SlidOf(b, "throttle", FALSE, BurstWindow, MaxBurst)
          /\ CountedSoFar("throttle", FALSE, BurstWindow, MaxBurst)
      BY <1>0, <1>4
    <3>2. BurstWindow \in Int /\ MaxBurst \in Nat /\ clock' = clock
      BY <1>2, <1>7
    <3>. QED
      BY <2>1, <2>4, <2>6, <3>1, <3>2, SlidingForgets, ZenonT(40)
  <2>9. SlidOf(tw, "window", TRUE, size, max)' /\ CountedSoFar("window", TRUE, size, max)'
    <3>1. SlidOf(w, "window", TRUE, size, max) /\ CountedSoFar("window", TRUE, size, max)
      BY <1>4
    <3>2. size \in Int /\ max \in Nat /\ clock' = clock
      BY <1>2, <1>7
    <3>. QED
      BY <2>1, <2>5, <2>7, <3>1, <3>2, SlidingForgets, ZenonT(40)
  <2>. QED
    BY <1>5, <2>2, <2>8, <2>9
<1>8. ASSUME NEW k \in GateKeys, Gates!ResetKey(k) PROVE Sliding'
  <2>1. k # <<>>
    BY KeysAreNotEmpty
  <2>. QED
    BY <1>7, <1>8, <2>1 DEF Gates!ResetKey, ResetOf, Gates!Window!Reset
<1>9. CASE Gates!ResetEvery
  <2>1. <<>> \notin GateKeys
    BY KeysAreNotEmpty
  <2>. QED
    BY <1>7, <1>9, <2>1 DEF Gates!ResetEvery, ResetOf, Gates!Throttle!ResetAll
<1>10. CASE UNCHANGED <<log, Gates!gates>> /\ clock <= clock' /\ clock' \in 0 .. GatesMaxTime
  <2>1. log' = log /\ clock' \in Nat /\ clock <= clock' /\ bursts' = b /\ timestamps' = w
    BY <1>3, <1>10 DEF Gates!gates
  <2>2. /\ SlidOf(b, "throttle", FALSE, BurstWindow, MaxBurst)'
        /\ CountedSoFar("throttle", FALSE, BurstWindow, MaxBurst)'
    BY <1>0, <1>2, <1>4, <2>1, SlidingWaits
  <2>3. SlidOf(w, "window", TRUE, size, max)' /\ CountedSoFar("window", TRUE, size, max)'
    BY <1>2, <1>4, <2>1, SlidingWaits
  <2>. QED
    BY <1>5, <2>1, <2>2, <2>3
<1>. QED
  BY <1>6, <1>8, <1>9, <1>10, GatesStepCases

(* What Count and Keys of the WindowCounter report.                        *)
LEMMA CountsAreRecent ==
  ASSUME LogInv, Sliding, NEW k \in GateKeys
  PROVE  LET recent == Gates!Recent(Gates!Passed(Len(log) + 1, k, "window", k), clock, Gates!Size)
         IN  /\ Gates!Window!Count(k) = Cardinality(recent)
             /\ k \in Gates!Window!ActiveKeys <=> recent # {}
<1>1. InWindow(timestamps[k], k, "window", k, Gates!Size) /\ Gates!Size \in Int
  BY LimitsAreNumbers DEF Sliding, SlidOf, Forgot
<1>2. PICK p, size : p = timestamps[k] /\ size = Gates!Size
  OBVIOUS
<1>3. /\ Cardinality(LiveOf(p, clock - size))
           = Cardinality(Gates!Recent(Through(k, "window", k), clock, size))
      /\ LiveOf(p, clock - size) # {} <=> Gates!Recent(Through(k, "window", k), clock, size) # {}
  BY <1>1, <1>2, LiveAreRecent
<1>4. Gates!Window!Live(k) = LiveOf(p, clock - size)
  BY <1>2, WindowFacts
<1>5. Gates!Window!Count(k) = Cardinality(LiveOf(p, clock - size))
  BY <1>4, SameCounts DEF Gates!Window!Count
<1>6. k \in Gates!Window!ActiveKeys <=> LiveOf(p, clock - size) # {}
  BY <1>4 DEF Gates!Window!ActiveKeys
<1>7. Gates!Passed(Len(log) + 1, k, "window", k) = Through(k, "window", k)
  BY DEF Through, Next1
<1>. QED
  BY <1>2, <1>3, <1>5, <1>6, <1>7

-----------------------------------------------------------------------------
(* Suppressor.  It keeps its windows only; what is to be proved is that    *)
(* its comparisons are arithmetic on the clock face.                       *)

(* A remainder is told by being one.                                       *)
LEMMA RemainderIs ==
  ASSUME NEW x \in Int, NEW q \in Int, NEW r \in 0 .. Day - 1, x = Day * q + r
  PROVE  x % Day = r
<1>. DEFINE p == x \div Day
            s == x % Day
<1>0. Day \in Nat \ {0}
  BY GatesAssumption
<1>1. x = Day * p + s
  BY <1>0
<1>2. s \in 0 .. Day - 1 /\ p \in Int
  BY <1>0
<1>. HIDE DEF p, s
<1>3. ~(q - p >= 1)
  <2>1. q - p >= 1 => Day * (q - p) >= Day
    BY <1>0, <1>2
  <2>. QED
    BY <1>0, <1>1, <1>2, <2>1
<1>4. ~(p - q >= 1)
  <2>1. p - q >= 1 => Day * (p - q) >= Day
    BY <1>0, <1>2
  <2>. QED
    BY <1>0, <1>1, <1>2, <2>1
<1>5. p = q
  BY <1>2, <1>3, <1>4
<1>. QED
  BY <1>0, <1>1, <1>2, <1>5 DEF s

(* How far round the clock it is from the one to the other.                *)
LEMMA Round ==
  ASSUME NEW x \in Int, NEW a \in 0 .. Day - 1
  PROVE  /\ x % Day \in 0 .. Day - 1
         /\ (x - a) % Day = IF a <= x % Day THEN (x % Day) - a ELSE (x % Day) - a + Day
<1>. DEFINE p == x \div Day
            s == x % Day
<1>0. Day \in Nat \ {0}
  BY GatesAssumption
<1>1. x = Day * p + s
  BY <1>0
<1>2. s \in 0 .. Day - 1 /\ p \in Int
  BY <1>0
<1>. HIDE DEF p, s
<1>3. CASE a <= s
  <2>1. x - a = Day * p + (s - a) /\ s - a \in 0 .. Day - 1 /\ x - a \in Int
    BY <1>0, <1>1, <1>2, <1>3
  <2>2. (x - a) % Day = s - a
    BY <1>2, <2>1, RemainderIs
  <2>. QED
    BY <1>2, <1>3, <2>2 DEF s
<1>4. CASE ~(a <= s)
  <2>1. x - a = Day * (p - 1) + (s - a + Day) /\ s - a + Day \in 0 .. Day - 1
        /\ x - a \in Int /\ p - 1 \in Int
    BY <1>0, <1>1, <1>2, <1>4
  <2>2. (x - a) % Day = s - a + Day
    BY <2>1, RemainderIs
  <2>. QED
    BY <1>2, <1>4, <2>2 DEF s
<1>. QED
  BY <1>3, <1>4

(* A window covers an instant when going back from it one meets its start. *)
LEMMA CoversIsRound ==
  ASSUME NEW w \in [start : 0 .. Day - 1, end : 0 .. Day - 1], NEW t \in Nat
  PROVE  Gates!Suppression!Covers(w, t % Day)
           <=> (t - w.start) % Day < (w.end - w.start) % Day
<1>. DEFINE a == w.start
            b == w.end
            s == t % Day
<1>0. Day \in Nat \ {0} /\ a \in 0 .. Day - 1 /\ b \in 0 .. Day - 1 /\ t \in Int /\ b \in Int
  BY GatesAssumption
<1>1. s \in 0 .. Day - 1 /\ (t - a) % Day = IF a <= s THEN s - a ELSE s - a + Day
  BY <1>0, Round
<1>2. b % Day = b
  <2>1. b = Day * 0 + b
    BY <1>0
  <2>. QED
    BY <1>0, <2>1, RemainderIs
<1>3. (b - a) % Day = IF a <= b THEN b - a ELSE b - a + Day
  BY <1>0, <1>2, Round
<1>4. Gates!Suppression!Covers(w, s)
        <=> (a <= b /\ a <= s /\ s < b) \/ (a > b /\ (a <= s \/ s < b))
  BY DEF Gates!Suppression!Covers
<1>. HIDE DEF a, b, s
<1>5. ((a <= b /\ a <= s /\ s < b) \/ (a > b /\ (a <= s \/ s < b)))
        <=> (IF a <= s THEN s - a ELSE s - a + Day) < (IF a <= b THEN b - a ELSE b - a + Day)
  BY <1>0, <1>1
<1>. QED
  BY <1>1, <1>3, <1>4, <1>5 DEF a, b, s

(* So that an instant is suppressed as the policy in force says.           *)
LEMMA SuppressedByPolicy ==
  ASSUME LogInv, windows \in Policies
  PROVE  Gates!SuppressedAsConfigured
<1>1. clock \in Nat /\ windows \subseteq [start : 0 .. Day - 1, end : 0 .. Day - 1]
  BY GatesAssumption DEF LogInv
<1>2. \A w \in windows : Gates!Suppression!Covers(w, clock % Day)
                           <=> (clock - w.start) % Day < (w.end - w.start) % Day
  BY <1>1, CoversIsRound
<1>. QED
  BY <1>2 DEF Gates!SuppressedAsConfigured, Gates!Suppression!IsSuppressed,
     Gates!Suppression!SecondsOfDay

-----------------------------------------------------------------------------
(* Each gate, and all of them.  BackoffLimiter is left out of GatesInv for *)
(* it needs an assumption that the others do without; of it this says only *)
(* that it counts no more than there was to count.                         *)
AttemptsBounded ==
  DOMAIN entry = GateKeys /\ \A k \in GateKeys : entry[k].attempts \in 0 .. Len(log)
GatesInv ==
  LogInv /\ Cooling /\ Sliding /\ Escalating /\ Correlating /\ AttemptsBounded
  /\ windows \in Policies

(* At the start nothing is kept and nothing has been judged.               *)
LEMMA GatesStart == Gates!Init => GatesInv /\ Backing
<1>. SUFFICES ASSUME Gates!Init PROVE GatesInv /\ Backing
  OBVIOUS
<1>1. LogInv /\ Gates!Sends = {} /\ \A k, g, f : Through(k, g, f) = {}
  BY LogStart
<1>2. clock = 0 /\ log = <<>> /\ clock \in Nat /\ windows \in Policies /\ Len(log) = 0
  <2>1. clock = 0 /\ log = <<>> /\ windows \in Policies
    BY DEF Gates!Init
  <2>. QED
    BY <2>1
<1>3. Cooling
  <2>1. /\ limited = [k \in GateKeys |-> -1] /\ deduped = [k \in GateKeys |-> -1]
    BY DEF Gates!Init, Gates!Limiter!Init, Gates!Limiter!Never, Gates!Dedup!Init,
       Gates!Dedup!Never
  <2>2. -1 \in -1 .. clock
    BY <1>2
  <2>3. LatestOf(limited, "limit") /\ LatestOf(deduped, "dedup")
    BY <1>1, <2>1, <2>2 DEF LatestOf, Latest
  <2>. QED
    BY <1>1, <2>3 DEF Cooling, CooledSoFar
<1>4. Sliding
  <2>1. bursts = [k \in GateKeys |-> <<>>] /\ timestamps = [k \in GateKeys |-> <<>>]
    BY DEF Gates!Init, Gates!Throttle!Init, Gates!Window!Init
  <2>2. <<>> \in Seq(Nat) /\ Len(<<>>) = 0 /\ MaxBurst \in Nat /\ Gates!MaxEvents \in Nat
    BY LimitsAreNumbers
  <2>3. \A k, g, f, size : InWindow(<<>>, k, g, f, size)
    BY <1>1, NothingInWindow
  <2>4. /\ SlidOf(bursts, "throttle", FALSE, BurstWindow, MaxBurst)
        /\ SlidOf(timestamps, "window", TRUE, Gates!Size, Gates!MaxEvents)
    <3>1. \A k \in GateKeys : bursts[k] = <<>> /\ timestamps[k] = <<>>
      BY <2>1
    <3>2. bursts \in [GateKeys -> Seq(Nat)] /\ timestamps \in [GateKeys -> Seq(Nat)]
      BY <2>1, <2>2
    <3>3. \A max \in Nat : Len(<<>>) <= max
      BY <2>2
    <3>4. SlidOf(bursts, "throttle", FALSE, BurstWindow, MaxBurst)
      BY <2>2, <2>3, <3>1, <3>2, <3>3, Zenon DEF SlidOf
    <3>5. SlidOf(timestamps, "window", TRUE, Gates!Size, Gates!MaxEvents)
      BY <2>2, <2>3, <3>1, <3>2, <3>3, Zenon DEF SlidOf
    <3>. QED
      BY <3>4, <3>5
  <2>. QED
    BY <1>1, <2>4 DEF Sliding, CountedSoFar
<1>5. Escalating
  <2>1. state = [k \in GateKeys |-> [count |-> 0, firstSeen |-> 0]]
    BY DEF Gates!Init, Gates!Escalation!Init, Gates!Escalation!NoEntry
  <2>2. \A k : Delivered(k) = {}
    BY <1>1 DEF Delivered
  <2>3. Cardinality({}) = 0
    BY FS_EmptySet
  <2>. QED
    BY <1>1, <2>1, <2>2, <2>3 DEF Escalating
<1>6. Correlating
  <2>1. entries = [k \in GateKeys |-> [count |-> 0, firstSeen |-> 0]]
    BY DEF Gates!Init, Gates!Correlation!Init, Gates!Correlation!NoEntry
  <2>. QED
    BY <1>1, <2>1 DEF Correlating
<1>7. entry = [k \in GateKeys |-> [attempts |-> 0, nextAt |-> 0]]
  BY DEF Gates!Init, Gates!BackoffGate!Init, Gates!BackoffGate!NoEntry
<1>8. AttemptsBounded
  BY <1>2, <1>7 DEF AttemptsBounded
<1>9. Backing
  <2>1. Cardinality({}) = 0
    BY FS_EmptySet
  <2>. QED
    BY <1>1, <1>7, <2>1 DEF Backing
<1>. QED
  BY <1>1, <1>2, <1>3, <1>4, <1>5, <1>6, <1>8, <1>9 DEF GatesInv

(* Every step keeps the number of attempts below that of notifications.    *)
LEMMA AttemptsStep ==
  ASSUME LogInv, AttemptsBounded, [Gates!Next]_(Gates!vars)
  PROVE  AttemptsBounded'
<1>0. log \in Seq(Entry) /\ Len(log) \in Nat
  BY DEF LogInv
<1>1. ASSUME NEW e, log' = Append(log, e), DOMAIN entry' = GateKeys,
             \A q \in GateKeys : \/ entry'[q].attempts = entry[q].attempts
                                 \/ entry'[q].attempts = entry[q].attempts + 1
                                 \/ entry'[q].attempts = 0
                                 \/ entry'[q].attempts = 1
      PROVE  AttemptsBounded'
  <2>1. Len(log') = Len(log) + 1
    BY <1>0, <1>1
  <2>. QED
    BY <1>0, <1>1, <2>1 DEF AttemptsBounded
<1>2. ASSUME NEW k \in GateKeys, NEW ok \in BOOLEAN, Gates!Notify(k, ok) PROVE AttemptsBounded'
  <2>1. log' = Append(log, Noted(k, ok)) /\ Gates!BackoffGate!Allow(k)
    BY <1>2 DEF Gates!Notify, Noted
  <2>2. /\ DOMAIN entry' = GateKeys
        /\ \A q \in GateKeys : \/ entry'[q].attempts = entry[q].attempts
                               \/ entry'[q].attempts = entry[q].attempts + 1
                               \/ entry'[q].attempts = 1
    <3>1. CASE UNCHANGED entry
      BY <3>1 DEF AttemptsBounded
    <3>2. CASE entry' = [entry EXCEPT ![k] = [attempts |-> 1, nextAt |-> clock + BaseInterval]]
      BY <3>2 DEF AttemptsBounded
    <3>3. ASSUME NEW d,
                 entry' = [entry EXCEPT ![k] =
                             [attempts |-> @.attempts + 1,
                              nextAt |-> clock + Gates!BackoffGate!Capped(d)]]
          PROVE  /\ DOMAIN entry' = GateKeys
                 /\ \A q \in GateKeys : \/ entry'[q].attempts = entry[q].attempts
                                        \/ entry'[q].attempts = entry[q].attempts + 1
      BY <3>3 DEF AttemptsBounded
    <3>. QED
      BY <2>1, <3>1, <3>2, <3>3 DEF Gates!BackoffGate!Allow
  <2>. QED
    BY <1>1, <2>1, <2>2
<1>3. ASSUME NEW k \in GateKeys, Gates!ResetKey(k) PROVE AttemptsBounded'
  <2>1. /\ log' = Append(log, ResetOf(k))
        /\ entry' = [entry EXCEPT ![k] = [attempts |-> 0, nextAt |-> 0]]
    BY <1>3 DEF Gates!ResetKey, ResetOf, Gates!BackoffGate!Reset, Gates!BackoffGate!NoEntry
  <2>2. /\ DOMAIN entry' = GateKeys
        /\ \A q \in GateKeys : \/ entry'[q].attempts = entry[q].attempts
                               \/ entry'[q].attempts = 0
    BY <2>1 DEF AttemptsBounded
  <2>. QED
    BY <1>1, <2>1, <2>2
<1>4. CASE Gates!ResetEvery
  <2>1. log' = Append(log, ResetOf(<<>>)) /\ entry' = entry
    BY <1>4 DEF Gates!ResetEvery, ResetOf
  <2>. QED
    BY <1>1, <2>1 DEF AttemptsBounded
<1>5. CASE UNCHANGED <<log, Gates!gates>>
  BY <1>5 DEF Gates!gates, AttemptsBounded
<1>. QED
  BY <1>2, <1>3, <1>4, <1>5, GatesStepCases

(* The policy in force is one of the given ones.                           *)
LEMMA PolicyStep ==
  ASSUME windows \in Policies, [Gates!Next]_(Gates!vars)
  PROVE  windows' \in Policies
BY DEF Gates!Next, Gates!vars, Gates!Tick, Gates!UpdatePolicy, Gates!Suppression!UpdatePolicy,
   Gates!ResetEvery, Gates!ResetKey, Gates!Notify

(* The invariant of the gates is one.                                      *)
THEOREM GatesInductive == Gates!Spec => []GatesInv
<1>1. Gates!Init => GatesInv
  BY GatesStart
<1>2. GatesInv /\ [Gates!Next]_(Gates!vars) => GatesInv'
  BY LogStep, CoolingStep, SlidingStep, EscalatingStep, CorrelatingStep, AttemptsStep,
     PolicyStep DEF GatesInv
<1>. QED
  BY <1>1, <1>2, PTL DEF Gates!Spec

(* And, where the exponential stays in range, so is that of the backoff.   *)
THEOREM BackoffInductive == ASSUME NoOverflow PROVE Gates!Spec => [](LogInv /\ Backing)
<1>1. Gates!Init => LogInv /\ Backing
  BY GatesStart DEF GatesInv
<1>2. LogInv /\ Backing /\ [Gates!Next]_(Gates!vars) => (LogInv /\ Backing)'
  BY LogStep, BackingStep
<1>. QED
  BY <1>1, <1>2, PTL DEF Gates!Spec

(* Limiter, Deduplicator, Throttler, WindowCounter and Suppressor refuse   *)
(* what their policies say, and only that.                                 *)
LEMMA ConfiguredMeans == GatesInv => GatesAsConfigured
<1>. SUFFICES ASSUME GatesInv PROVE GatesAsConfigured
  OBVIOUS
<1>1. Gates!CooldownExact
  BY DEF GatesInv, Cooling, CooledSoFar, Gates!CooldownExact
<1>2. ASSUME NEW n \in Gates!Sends
      PROVE  /\ "throttle" \in log[n].passed <=>
                  Gates!Cardinality(Gates!Recent(Gates!Passed(n, log[n].key, "throttle", <<>>),
                                                 log[n].at, BurstWindow)) < MaxBurst
             /\ "window" \in log[n].passed <=>
                  Gates!Cardinality(Gates!Recent(Gates!Passed(n, log[n].key, "window", log[n].key),
                                                 log[n].at, Gates!Size)) < Gates!MaxEvents
  <2>1. /\ Counted(n, "throttle", FALSE, BurstWindow, MaxBurst)
        /\ Counted(n, "window", TRUE, Gates!Size, Gates!MaxEvents)
    BY DEF GatesInv, Sliding, CountedSoFar
  <2>. QED
    BY <2>1, SameCounts DEF Counted, Forgot
<1>3. ASSUME NEW k \in GateKeys
      PROVE  LET recent == Gates!Recent(Gates!Passed(Len(log) + 1, k, "window", k),
                                        clock, Gates!Size)
             IN  /\ Gates!Window!Count(k) = Gates!Cardinality(recent)
                 /\ k \in Gates!Window!ActiveKeys <=> recent # {}
  BY CountsAreRecent, SameCounts DEF GatesInv
<1>4. Gates!WindowExact
  BY <1>2, <1>3 DEF Gates!WindowExact
<1>. QED
  BY <1>1, <1>4, SuppressedByPolicy DEF GatesInv, GatesAsConfigured, Gates!GatesAsConfigured

(* A notification is escalated as one of at least Threshold that were      *)
(* delivered, and whenever that holds of those since the port was open.    *)
LEMMA EscalatingMeans == Escalating => EscalationJustified
BY DEF Escalating, Escalated, EscalationJustified, Gates!EscalationJustified

(* One of MinEvents is forwarded, MinEvents after the one before it.       *)
LEMMA CorrelatingMeans == Correlating => CorrelatedOnce
<1>. SUFFICES ASSUME Correlating, NEW n \in Gates!Sends, "correlate" \in log[n].passed
              PROVE  /\ Gates!Cardinality(Gates!Recent(Alike(n), log[n].at, WindowDuration + 1))
                          >= MinEvents
                     /\ \A f \in Gates!Passed(n, log[n].key, "correlate", <<>>) :
                          Gates!Cardinality({m \in Alike(n) : m > f}) >= MinEvents
  BY DEF CorrelatedOnce, Gates!CorrelatedOnce, Alike
<1>. QED
  BY SameCounts DEF Correlating, Correlated

(* The periods of a key follow the policy.                                 *)
LEMMA BackingMeans == Backing => BackoffExact
BY SameCounts DEF Backing, Backed, BackoffExact, Gates!BackoffExact

(* What the gates keep is of the right kind and bounded by the log.        *)
LEMMA GatesTyped == GatesInv => Gates!TypeOK
<1>. SUFFICES ASSUME GatesInv PROVE Gates!TypeOK
  OBVIOUS
<1>1. LogInv /\ Cooling /\ Sliding /\ Escalating /\ Correlating /\ AttemptsBounded
      /\ windows \in Policies
  BY DEF GatesInv
<1>2. Len(log) \in Nat /\ Len(log) <= MaxLog /\ MaxLog \in Nat /\ clock \in 0 .. GatesMaxTime
  BY <1>1, GatesAssumption DEF LogInv
<1>3. /\ limited \in [GateKeys -> -1 .. clock] /\ deduped \in [GateKeys -> -1 .. clock]
  BY <1>1 DEF Cooling, LatestOf
<1>4. ASSUME NEW k \in GateKeys
      PROVE  /\ Len(bursts[k]) <= MaxBurst /\ Len(timestamps[k]) <= Gates!MaxEvents
             /\ entry[k].attempts \in 0 .. MaxLog
             /\ state[k].count \in 0 .. MaxLog
             /\ entries[k].count \in 0 .. MaxLog
  <2>1. Len(bursts[k]) <= MaxBurst /\ Len(timestamps[k]) <= Gates!MaxEvents
    BY <1>1 DEF Sliding, SlidOf
  <2>2. entry[k].attempts \in 0 .. MaxLog
    BY <1>1, <1>2 DEF AttemptsBounded
  <2>3. state[k].count \in 0 .. MaxLog
    <3>1. Cardinality(Delivered(k)) \in 0 .. Len(log)
      BY <1>1, DeliveredFacts
    <3>2. state[k].count = Cardinality(Delivered(k)) \/ state[k].count = 0
      BY <1>1 DEF Escalating
    <3>. QED
      BY <1>2, <3>1, <3>2
  <2>4. entries[k].count \in 0 .. MaxLog
    <3>1. CASE entries[k].count = 0
      BY <1>2, <3>1
    <3>2. CASE entries[k].count # 0
      <4>1. PICK p \in Nat : entries[k].count = Cardinality(KeptFrom(k, p))
        BY <1>1, <3>2 DEF Correlating, StartsAt
      <4>2. KeptFrom(k, p) \subseteq Kept(k)
        BY DEF KeptFrom
      <4>3. Cardinality(KeptFrom(k, p)) \in Nat /\ Cardinality(KeptFrom(k, p)) <= Len(log)
        BY <1>1, <4>2, KeptFacts
      <4>. QED
        BY <1>2, <4>1, <4>3
    <3>. QED
      BY <3>1, <3>2
  <2>. QED
    BY <2>1, <2>2, <2>3, <2>4
<1>. QED
  BY <1>1, <1>2, <1>3, <1>4 DEF Gates!TypeOK

-----------------------------------------------------------------------------
(* The documented pipeline.  Nothing was forwarded later than what the     *)
(* Deduplicator remembers.                                                 *)
PipelineInv ==
  /\ clock \in 0 .. GatesMaxTime
  /\ seen \in [{1} -> -1 .. clock]
  /\ forwarded \in [0 .. GatesMaxTime -> Nat]
  /\ \A t \in 0 .. GatesMaxTime : forwarded[t] > 0 => t <= seen[1]
  /\ Pipeline!OncePerWindow

(* A call of the Deduplicator, whoever it comes from.                      *)
LEMMA DedupKeeps == ASSUME PipelineInv, clock' = clock, Pipeline!Dedup PROVE PipelineInv'
<1>0. /\ Cooldown \in Nat \ {0} /\ GatesMaxTime \in Nat /\ clock \in Nat
      /\ clock \in 0 .. GatesMaxTime /\ seen[1] \in -1 .. clock
      /\ seen \in [{1} -> -1 .. clock] /\ forwarded \in [0 .. GatesMaxTime -> Nat]
  BY GatesAssumption, ChainAssumption DEF PipelineInv
<1>1. Pipeline!IsNew <=> seen[1] = -1 \/ clock - seen[1] >= Cooldown
  BY <1>0 DEF Pipeline!IsNew, Pipeline!Key, Pipeline!Deduplicator!Open,
     Pipeline!Deduplicator!Within, Pipeline!Deduplicator!Never
<1>2. CASE ~Pipeline!IsNew
  <2>1. UNCHANGED <<seen, forwarded>>
    BY <1>2 DEF Pipeline!Dedup, Pipeline!IsNew, Pipeline!Deduplicator!Allow, Pipeline!Key
  <2>. QED
    BY <2>1 DEF PipelineInv, Pipeline!OncePerWindow
<1>3. CASE Pipeline!IsNew
  <2>1. /\ seen' = [seen EXCEPT ![1] = clock]
        /\ forwarded' = [forwarded EXCEPT ![clock] = forwarded[clock] + 1]
    BY <1>3 DEF Pipeline!Dedup, Pipeline!IsNew, Pipeline!Deduplicator!Allow, Pipeline!Key
  <2>2. seen[1] < clock \/ seen[1] = -1
    BY <1>0, <1>1, <1>3
  <2>3. ASSUME NEW t \in 0 .. GatesMaxTime, forwarded[t] > 0
        PROVE  t <= seen[1] /\ t < clock /\ clock - t >= Cooldown
    BY <1>0, <1>1, <1>3, <2>2, <2>3 DEF PipelineInv
  <2>4. forwarded[clock] = 0
    BY <1>0, <2>3
  <2>5. /\ seen' \in [{1} -> -1 .. clock'] /\ seen'[1] = clock
        /\ forwarded' \in [0 .. GatesMaxTime -> Nat] /\ forwarded'[clock] = 1
        /\ \A t \in 0 .. GatesMaxTime : t # clock => forwarded'[t] = forwarded[t]
    BY <1>0, <2>1, <2>4
  <2>6. \A t \in 0 .. GatesMaxTime : forwarded'[t] > 0 => t <= seen'[1]
    BY <1>0, <2>3, <2>5
  <2>7. Pipeline!OncePerWindow'
    <3>1. \A t \in 0 .. GatesMaxTime : forwarded'[t] <= 1
      <4>1. \A t \in 0 .. GatesMaxTime : forwarded[t] <= 1
        BY DEF PipelineInv, Pipeline!OncePerWindow
      <4>2. 1 <= 1
        OBVIOUS
      <4>. QED
        BY <2>5, <4>1, <4>2
    <3>2. ASSUME NEW s \in 0 .. GatesMaxTime, NEW t \in 0 .. GatesMaxTime, s < t,
                 forwarded'[s] > 0, forwarded'[t] > 0
          PROVE  t - s >= Cooldown
      <4>1. CASE t = clock
        BY <1>0, <2>3, <2>5, <3>2, <4>1
      <4>2. CASE s = clock
        BY <1>0, <2>3, <2>5, <3>2, <4>2
      <4>3. CASE s # clock /\ t # clock
        BY <2>5, <3>2, <4>3 DEF PipelineInv, Pipeline!OncePerWindow
      <4>. QED
        BY <4>1, <4>2, <4>3
    <3>. QED
      BY <3>1, <3>2 DEF Pipeline!OncePerWindow
  <2>. QED
    BY <1>0, <2>5, <2>6, <2>7 DEF PipelineInv
<1>. QED
  BY <1>2, <1>3

(* Through whichever stages a notification gets there, and again.          *)
THEOREM PipelineRationed == Pipeline!Spec => []PipelineInv
<1>0. GatesMaxTime \in Nat /\ Cooldown \in Nat \ {0}
  BY GatesAssumption, ChainAssumption
<1>1. Pipeline!Init => PipelineInv
  BY <1>0 DEF Pipeline!Init, Pipeline!Deduplicator!Init, Pipeline!Deduplicator!Never,
     Pipeline!Key, PipelineInv, Pipeline!OncePerWindow
<1>2. ASSUME PipelineInv, [Pipeline!Next]_(Pipeline!vars) PROVE PipelineInv'
  <2>1. ASSUME UNCHANGED <<seen, forwarded, clock>> PROVE PipelineInv'
    BY <1>2, <2>1 DEF PipelineInv, Pipeline!OncePerWindow
  <2>2. ASSUME clock' = clock, Pipeline!Limit PROVE PipelineInv'
    BY <1>2, <2>1, <2>2, DedupKeeps DEF Pipeline!Limit
  <2>3. CASE Pipeline!Tick
    <3>1. clock' = clock + 1 /\ clock' \in 0 .. GatesMaxTime /\ -1 .. clock \subseteq -1 .. clock'
      BY <1>0, <1>2, <2>3 DEF PipelineInv, Pipeline!Tick
    <3>2. UNCHANGED <<seen, forwarded>>
      BY <2>3 DEF Pipeline!Tick
    <3>3. seen \in [{1} -> -1 .. clock']
      BY <1>2, <3>1 DEF PipelineInv
    <3>. QED
      BY <1>2, <3>1, <3>2, <3>3 DEF PipelineInv, Pipeline!OncePerWindow
  <2>4. ASSUME NEW c \in Callers, Pipeline!Send(c) \/ Pipeline!DigestStage(c) PROVE PipelineInv'
    BY <2>1, <2>4 DEF Pipeline!Send, Pipeline!DigestStage, Pipeline!Call
  <2>5. ASSUME NEW c \in Callers, Pipeline!LimiterStage(c) PROVE PipelineInv'
    BY <2>2, <2>5 DEF Pipeline!LimiterStage, Pipeline!Call
  <2>6. ASSUME NEW c \in Callers, Pipeline!DedupStage(c) PROVE PipelineInv'
    BY <1>2, <2>6, DedupKeeps DEF Pipeline!DedupStage, Pipeline!Call
  <2>7. CASE Pipeline!DigestFlush
    BY <2>2, <2>7 DEF Pipeline!DigestFlush
  <2>8. CASE UNCHANGED Pipeline!vars
    BY <2>1, <2>8 DEF Pipeline!vars
  <2>. QED
    BY <1>2, <2>3, <2>4, <2>5, <2>6, <2>7, <2>8 DEF Pipeline!Next
<1>. QED
  BY <1>1, <1>2, PTL DEF Pipeline!Spec

-----------------------------------------------------------------------------
(* All of them in one model.  A behaviour of it is one of the gates, one   *)
(* of the chain and one of the pipeline.                                   *)
THEOREM EachGates == MCSpec => Gates!Spec /\ Spec /\ Pipeline!Spec
<1>1. MCInit => Gates!Init /\ Init /\ Pipeline!Init
  BY DEF MCInit
<1>2. ASSUME [MCNext]_all
      PROVE  [Gates!Next]_(Gates!vars) /\ [Next]_vars /\ [Pipeline!Next]_(Pipeline!vars)
  <2>v. /\ UNCHANGED gates /\ UNCHANGED clock => UNCHANGED Gates!vars
        /\ UNCHANGED pipeline /\ UNCHANGED clock => UNCHANGED Pipeline!vars
    BY DEF gates, pipeline, Gates!vars, Gates!gates, Pipeline!vars
  <2>1. CASE InGates(Gates!Next)
    <3>1. UNCHANGED clock \/ Gates!Tick
      BY <2>1 DEF InGates, Gates!Next, Gates!UpdatePolicy, Gates!ResetEvery, Gates!ResetKey,
         Gates!Notify
    <3>2. Gates!Tick /\ UNCHANGED pipeline => Pipeline!Tick
      BY DEF Gates!Tick, Pipeline!Tick, pipeline
    <3>. QED
      BY <2>1, <2>v, <3>1, <3>2 DEF InGates, Pipeline!Next
  <2>2. CASE InChain(Next)
    BY <2>2, <2>v DEF InChain
  <2>3. CASE InPipeline(Pipeline!Next)
    <3>1. UNCHANGED clock \/ Pipeline!Tick
      BY <2>3 DEF InPipeline, Pipeline!Next, Pipeline!Send, Pipeline!DigestStage,
         Pipeline!LimiterStage, Pipeline!DedupStage, Pipeline!Call, Pipeline!DigestFlush
    <3>2. Pipeline!Tick /\ UNCHANGED gates => Gates!Tick
      BY DEF Gates!Tick, Pipeline!Tick, gates, Gates!gates
    <3>. QED
      BY <2>3, <2>v, <3>1, <3>2 DEF InPipeline, Gates!Next
  <2>4. CASE UNCHANGED all
    <3>1. UNCHANGED gates /\ UNCHANGED pipeline /\ UNCHANGED vars /\ UNCHANGED clock
      BY <2>4 DEF all
    <3>. QED
      BY <3>1, <2>v
  <2>. QED
    BY <1>2, <2>1, <2>2, <2>3, <2>4 DEF MCNext
<1>. QED
  BY <1>1, <1>2, PTL DEF MCSpec, Gates!Spec, Spec, Pipeline!Spec

(* For any keys, periods, limits and policies, Limiter, Deduplicator,      *)
(* Throttler, WindowCounter and Suppressor answer exactly what the log of  *)
(* their earlier answers and resets asks for.                              *)
THEOREM ExactlyAsConfigured == MCSpec => []GatesAsConfigured
BY EachGates, GatesInductive, ConfiguredMeans, PTL

(* So does BackoffLimiter, as long as its exponential does not overflow.   *)
THEOREM BackoffAsConfigured == ASSUME NoOverflow PROVE MCSpec => []BackoffExact
BY EachGates, BackoffInductive, BackingMeans, PTL

(* Escalator and Correlator pass on what their policies justify.           *)
THEOREM EscalationsJustified == MCSpec => []EscalationJustified
<1>1. GatesInv => EscalationJustified
  BY EscalatingMeans DEF GatesInv
<1>. QED
  BY <1>1, EachGates, GatesInductive, PTL

(* A burst is reported once per MinEvents of its notifications.            *)
THEOREM CorrelatedOncePerBurst == MCSpec => []CorrelatedOnce
<1>1. GatesInv => CorrelatedOnce
  BY CorrelatingMeans DEF GatesInv
<1>. QED
  BY <1>1, EachGates, GatesInductive, PTL

(* A key gets through the chain's limiter and through the documented       *)
(* pipeline's Deduplicator once a period, with any number of callers.      *)
THEOREM OnceAPeriod == MCSpec => []OncePerPeriod
<1>1. ConstantsOK /\ RationOK
  BY ChainAssumption DEF ConstantsOK, RationOK
<1>2. Spec => []PostsRationed
  BY <1>1, OncePerCooldown
<1>3. PipelineInv /\ PostsRationed => OncePerPeriod
  BY DEF PipelineInv, OncePerPeriod
<1>. QED
  BY <1>2, <1>3, EachGates, PipelineRationed, PTL

(* Gates and chain keep what is of the right kind.                         *)
THEOREM GatesTypeCorrect == MCSpec => []GatesTypeOK
<1>1. ConstantsOK
  BY ChainAssumption DEF ConstantsOK
<1>2. Spec => []TypeOK
  BY <1>1, TypeCorrect
<1>3. GatesInv /\ TypeOK => GatesTypeOK
  BY GatesTyped DEF GatesTypeOK
<1>. QED
  BY <1>2, <1>3, EachGates, GatesInductive, PTL
=============================================================================
