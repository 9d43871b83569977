---------------------------- MODULE DaemonProofs ----------------------------
(* Proofs about one poll cycle of the daemon, for every configuration.     *)
EXTENDS Daemon, FiniteSetTheorems, WellFoundedInduction, TLAPS

Received == {k \in Target : worker[k] = "received"}

(* While PollAll collects: the workers that sent and were not yet received *)
(* are exactly the contents of the channel, the loop's counter counts the  *)
(* received ones, and every received result is in its own slot.            *)
CycleInv ==
  pc = "polling" =>
    /\ received = Cardinality(Received)
    /\ \A k \in Target : worker[k] # "none"
    /\ ch = {[idx |-> k, state |-> dialed[k]] :
               k \in {m \in Target : worker[m] = "sent"}}
    /\ \A k \in Target : worker[k] \in {"sent", "received"} => dialed[k] \in Observed
    /\ \A k \in Received : results[k] = dialed[k]

IInv ==
  /\ TypeOK
  /\ CycleInv
  /\ ResultsAligned
  /\ NoGoroutineLeft
  /\ states = seen
  /\ pc = "acting" => i \in Target

(* A nonempty set of natural numbers has a least element.                  *)
LEMMA LeastNumber ==
  ASSUME NEW T, T \subseteq Nat, T # {}
  PROVE  \E x \in T : \A y \in T : x <= y
<1>. DEFINE R == {ss \in Nat \X Nat : ss[1] < ss[2]}
<1>1. IsWellFoundedOn(R, Nat)
  BY NatLessThanWellFounded DEF OpToRel
<1>. HIDE DEF R
<1>2. PICK x \in T : \A y \in T : ~ (<<y, x>> \in R)
  BY <1>1, WFMin
<1>3. \A y \in T : x <= y
  <2>. SUFFICES ASSUME NEW y \in T, y < x PROVE FALSE
    OBVIOUS
  <2>1. <<y, x>> \in Nat \X Nat
    OBVIOUS
  <2>2. <<y, x>> \in R
    BY <2>1 DEF R
  <2>. QED
    BY <1>2, <2>2
<1>. QED
  BY <1>3

(* The number of targets, and each target's key.                           *)
LEMMA TargetFacts ==
  /\ Len(Ports) \in Nat
  /\ IsFiniteSet(Target)
  /\ Cardinality(Target) = Len(Ports)
  /\ \A k \in Target : Key(k) \in Keys
<1>1. Len(Ports) \in Nat
  BY PortsAssumption
<1>2. IsFiniteSet(1 .. Len(Ports)) /\ Cardinality(1 .. Len(Ports)) = Len(Ports)
  <2>. HIDE PortsAssumption
  <2>1. ASSUME NEW n \in Nat
        PROVE  IsFiniteSet(1 .. n) /\ Cardinality(1 .. n) = n
    <3>1. 1 \in Int /\ n \in Int
      OBVIOUS
    <3>2. /\ IsFiniteSet(1 .. n)
          /\ Cardinality(1 .. n) = IF 1 > n THEN 0 ELSE n - 1 + 1
      BY <3>1, FS_Interval
    <3>. QED
      BY <3>2
  <2>. QED
    BY <1>1, <2>1
<1>. QED
  BY <1>1, <1>2 DEF Target, Keys

(* Executor.Run finds an entry for the port of every result: its last      *)
(* return, "no config found", is not reached from tick.                    *)
LEMMA ConfigFound ==
  ASSUME NEW k \in Target
  PROVE  /\ MatchingConfig(Ports[k].port) \in Target
         /\ Ports[MatchingConfig(Ports[k].port)].port = Ports[k].port
<1>. DEFINE T == {m \in Target : Ports[m].port = Ports[k].port}
<1>1. T \subseteq Nat /\ T # {}
  BY TargetFacts DEF Target
<1>2. PICK n \in T : \A m \in T : n <= m
  BY <1>1, LeastNumber
<1>. QED
  BY <1>2 DEF MatchingConfig

(* The program starts in a state of the invariant.                         *)
LEMMA InitHolds == Init => IInv
<1>. SUFFICES ASSUME Init PROVE IInv
  OBVIOUS
<1>1. NoReport \in [changed : BOOLEAN, prev : State, curr : State]
  BY DEF NoReport, State
<1>2. /\ results \in [Target -> State] /\ dialed \in [Target -> State]
      /\ states \in [Keys -> State] /\ seen \in [Keys -> State]
  BY DEF Init, State
<1>3. /\ cancelled \in BOOLEAN
      /\ ch \subseteq [idx : Target, state : Observed]
      /\ calls \subseteq Target \X (Nat \ {0})
  BY DEF Init
<1>4. /\ tickC \in 0 .. 1 /\ received \in 0 .. Len(Ports)
      /\ i \in 1 .. Len(Ports) + 1 /\ j \in Nat \ {0}
  BY TargetFacts DEF Init
<1>5. worker \in [Target -> {"none", "dialing", "sent", "received"}]
  BY DEF Init
<1>6. TypeOK
  BY <1>1, <1>2, <1>3, <1>4, <1>5 DEF Init, TypeOK
<1>. QED
  BY <1>6 DEF Init, IInv, CycleInv, ResultsAligned, NoGoroutineLeft

(* Every step of the daemon, its workers and its environment keeps it.     *)
LEMMA StepHolds == IInv /\ [Next]_vars => IInv'
<1>. SUFFICES ASSUME IInv, [Next]_vars PROVE IInv'
  OBVIOUS
<1>. USE TargetFacts
<1>0. TypeOK /\ CycleInv /\ ResultsAligned /\ NoGoroutineLeft /\ states = seen
      /\ (pc = "acting" => i \in Target)
  BY DEF IInv
<1>1. CASE Start
  BY <1>0, <1>1 DEF Start, IInv, TypeOK, CycleInv, ResultsAligned, NoGoroutineLeft
<1>2. CASE TickerFire
  BY <1>0, <1>2 DEF TickerFire, IInv, TypeOK, CycleInv, ResultsAligned,
     NoGoroutineLeft, Received
<1>3. CASE Cancel
  BY <1>0, <1>3 DEF Cancel, IInv, TypeOK, CycleInv, ResultsAligned,
     NoGoroutineLeft, Received
<1>4. CASE SelectDone
  BY <1>0, <1>4 DEF SelectDone, IInv, TypeOK, CycleInv, ResultsAligned,
     NoGoroutineLeft
<1>5. CASE SelectTick
  <2>1. TypeOK'
    BY <1>0, <1>5 DEF SelectTick, TypeOK, State
  <2>2. Received' = {}
    BY <1>0, <1>5 DEF SelectTick, Received
  <2>3. CycleInv'
    BY <1>0, <1>5, <2>2, FS_EmptySet DEF SelectTick, CycleInv, Received
  <2>. QED
    BY <1>0, <1>5, <2>1, <2>3 DEF SelectTick, IInv, ResultsAligned, NoGoroutineLeft
<1>6. CASE \E k \in Target : Dial(k)
  <2>. PICK k \in Target : Dial(k)
    BY <1>6
  <2>. PICK s \in Observed :
         /\ ch' = ch \cup {[idx |-> k, state |-> s]}
         /\ dialed' = [dialed EXCEPT ![k] = s]
    BY DEF Dial, DialOutcome
  <2>1. pc = "polling" /\ pc' = "polling"
    BY <1>0 DEF Dial, NoGoroutineLeft
  <2>2. TypeOK'
    BY <1>0 DEF Dial, TypeOK, State
  <2>3. Received' = Received
    BY <1>0 DEF Dial, TypeOK, Received
  <2>4. ch' = {[idx |-> n, state |-> dialed'[n]] :
                 n \in {m \in Target : worker'[m] = "sent"}}
    <3>1. {m \in Target : worker'[m] = "sent"} =
            {m \in Target : worker[m] = "sent"} \cup {k}
      BY <1>0 DEF Dial, TypeOK
    <3>2. \A n \in {m \in Target : worker[m] = "sent"} : dialed'[n] = dialed[n]
      BY <1>0 DEF Dial, TypeOK
    <3>3. dialed'[k] = s
      BY <1>0 DEF TypeOK
    <3>. QED
      BY <1>0, <2>1, <3>1, <3>2, <3>3 DEF CycleInv
  <2>5. CycleInv'
    BY <1>0, <2>1, <2>3, <2>4 DEF Dial, TypeOK, CycleInv, Received
  <2>. QED
    BY <1>0, <2>1, <2>2, <2>5 DEF Dial, IInv, ResultsAligned, NoGoroutineLeft
<1>7. CASE Recv
  <2>. PICK ir \in ch :
         /\ ch' = ch \ {ir}
         /\ results' = [results EXCEPT ![ir.idx] = ir.state]
         /\ worker' = [worker EXCEPT ![ir.idx] = "received"]
    BY <1>7 DEF Recv, Slot
  <2>1. pc = "polling" /\ pc' = "polling" /\ dialed' = dialed
    BY <1>7 DEF Recv
  <2>2. PICK k \in Target : worker[k] = "sent" /\ ir = [idx |-> k, state |-> dialed[k]]
    BY <1>0, <2>1 DEF CycleInv
  <2>3. dialed[k] \in Observed
    BY <1>0, <2>1, <2>2 DEF CycleInv
  <2>4. TypeOK'
    BY <1>0, <1>7, <2>2, <2>3 DEF Recv, TypeOK, State
  <2>5. Received' = Received \cup {k} /\ k \notin Received
    BY <1>0, <2>2 DEF TypeOK, Received
  <2>6. received' = Cardinality(Received')
    <3>1. IsFiniteSet(Received)
      BY FS_Subset DEF Received
    <3>2. Cardinality(Received') = Cardinality(Received) + 1
      BY <2>5, <3>1, FS_AddElement
    <3>. QED
      BY <1>0, <1>7, <2>1, <3>2 DEF Recv, CycleInv
  <2>7. ch' = {[idx |-> n, state |-> dialed'[n]] :
                 n \in {m \in Target : worker'[m] = "sent"}}
    <3>1. {m \in Target : worker'[m] = "sent"} =
            {m \in Target : worker[m] = "sent"} \ {k}
      BY <1>0, <2>2 DEF TypeOK
    <3>. QED
      BY <1>0, <2>1, <2>2, <3>1 DEF CycleInv
  <2>8. CycleInv'
    <3>1. \A n \in Received' : results'[n] = dialed'[n]
      BY <1>0, <2>1, <2>2, <2>5 DEF TypeOK, CycleInv, Received
    <3>2. \A n \in Target : /\ worker'[n] # "none"
                            /\ worker'[n] \in {"sent", "received"} => dialed'[n] \in Observed
      BY <1>0, <2>1, <2>2, <2>3 DEF TypeOK, CycleInv
    <3>. QED
      BY <2>6, <2>7, <3>1, <3>2 DEF CycleInv
  <2>. QED
    BY <1>0, <1>7, <2>1, <2>4, <2>8 DEF Recv, IInv, ResultsAligned, NoGoroutineLeft
<1>8. CASE PollReturn
  <2>1. Received = Target
    <3>1. Cardinality(Received) = Cardinality(Target)
      BY <1>0, <1>8 DEF PollReturn, AllReceived, CycleInv
    <3>. QED
      BY <3>1, FS_Subset DEF Received
  <2>2. ch = {}
    BY <1>0, <1>8, <2>1 DEF PollReturn, CycleInv, Received
  <2>3. TypeOK'
    BY <1>0, <1>8 DEF PollReturn, TypeOK
  <2>. QED
    BY <1>0, <1>8, <2>1, <2>2, <2>3 DEF PollReturn, IInv, CycleInv, Received,
       ResultsAligned, NoGoroutineLeft
<1>9. CASE Update
  <2>1. i \in Target /\ Key(i) \in Keys /\ results[i] = dialed[i] /\ results[i] \in State
    BY <1>0, <1>9 DEF Update, TypeOK, ResultsAligned, State, Target
  <2>. DEFINE changed == Changed(states[Key(i)], results[i])
  <2>2. TypeOK'
    <3>1. changed \in BOOLEAN
      BY DEF Changed
    <3>2. report' \in [changed : BOOLEAN, prev : State, curr : State]
      BY <1>0, <1>9, <2>1, <3>1 DEF Update, TypeOK
    <3>3. states' \in [Keys -> State] /\ seen' \in [Keys -> State]
      BY <1>0, <1>9, <2>1 DEF Update, TypeOK
    <3>4. pc' \in {"acting", "handling"} /\ i' \in 1 .. Len(Ports) + 1 /\ j' = 1 /\ calls' = {}
      BY <1>0, <1>9, <2>1 DEF Update, TypeOK
    <3>. QED
      BY <1>0, <1>9, <3>2, <3>3, <3>4 DEF Update, TypeOK
  <2>3. states' = seen'
    BY <1>0, <1>9, <2>1 DEF Update, TypeOK
  <2>4. pc' \in {"acting", "handling"} /\ (pc' = "acting" => i' = i)
    BY <1>9 DEF Update
  <2>. QED
    BY <1>0, <1>9, <2>1, <2>2, <2>3, <2>4 DEF Update, IInv, CycleInv, ResultsAligned,
       NoGoroutineLeft
<1>10. CASE RunAction
  <2>1. i \in Target
    BY <1>0, <1>10 DEF RunAction
  <2>2. MatchingConfig(Ports[i].port) \in Target
    BY <2>1, ConfigFound
  <2>3. calls' \subseteq Target \X (Nat \ {0}) /\ j' \in Nat \ {0}
    BY <1>0, <1>10, <2>2 DEF RunAction, TypeOK
  <2>4. TypeOK'
    BY <1>0, <1>10, <2>3 DEF RunAction, TypeOK
  <2>. QED
    BY <1>0, <1>10, <2>4 DEF RunAction, IInv, CycleInv, ResultsAligned, NoGoroutineLeft
<1>11. CASE ActionsReturn
  BY <1>0, <1>11 DEF ActionsReturn, Target, IInv, TypeOK, CycleInv, ResultsAligned,
     NoGoroutineLeft
<1>12. CASE TickReturn
  BY <1>0, <1>12 DEF TickReturn, IInv, TypeOK, CycleInv, ResultsAligned,
     NoGoroutineLeft
<1>13. CASE UNCHANGED vars
  BY <1>0, <1>13 DEF vars, IInv, TypeOK, CycleInv, Received, ResultsAligned,
     NoGoroutineLeft
<1>. QED
  BY <1>1, <1>2, <1>3, <1>4, <1>5, <1>6, <1>7, <1>8, <1>9, <1>10, <1>11, <1>12,
     <1>13 DEF Next, Terminated

(* The strengthened invariant holds in every reachable state.              *)
THEOREM Inductive == Spec => []IInv
BY InitHolds, StepHolds, PTL DEF Spec

(* Every variable of the daemon keeps its type, for every configuration.   *)
THEOREM TypeCorrect == Spec => []TypeOK
BY Inductive, PTL DEF IInv

(* PollAll puts every result in its own target's slot, for any number of   *)
(* targets and any order in which their goroutines finish.                 *)
THEOREM PollAllAligned == Spec => []ResultsAligned
BY Inductive, PTL DEF IInv

(* PollAll returns only after it has received from every goroutine it      *)
(* started, so neither a tick nor the return of Run leaves one behind.     *)
THEOREM NoLeak == Spec => []NoGoroutineLeft
BY Inductive, PTL DEF IInv

(* tick fires actions exactly for the results that differ from the last    *)
(* observation of the same host and port, and never for a first one.       *)
THEOREM ChangesOnly == Spec => ReportsAreChanges
<1>. DEFINE A == /\ pc = "handling" /\ pc' = "acting" =>
                      /\ seen[Key(i)] # "unknown"
                      /\ seen[Key(i)] # dialed[i]
                      /\ report'.prev = seen[Key(i)] /\ report'.curr = dialed[i]
                 /\ pc = "handling" /\ pc' = "handling" /\ i' = i + 1 =>
                      seen[Key(i)] \in {"unknown", dialed[i]}
<1>1. ASSUME IInv, [Next]_vars PROVE [A]_vars
  <2>. SUFFICES ASSUME Next, pc = "handling" PROVE A
    BY <1>1
  <2>0. TypeOK /\ ResultsAligned /\ states = seen /\ NoGoroutineLeft
    BY <1>1 DEF IInv
  <2>1. CASE Update
    <3>1. i \in Target /\ results[i] = dialed[i]
      BY <2>0, <2>1 DEF Update, TypeOK, ResultsAligned, Target
    <3>2. /\ pc' = "acting" <=> Changed(seen[Key(i)], dialed[i])
          /\ report'.prev = seen[Key(i)] /\ report'.curr = dialed[i]
      BY <2>0, <2>1, <3>1 DEF Update
    <3>. QED
      BY <2>1, <3>1, <3>2 DEF Update, Changed
  <2>2. CASE UNCHANGED <<pc, i>>
    BY <2>0, <2>2 DEF TypeOK
  <2>3. CASE TickReturn
    BY <2>3 DEF TickReturn
  <2>. QED
    BY <2>0, <2>1, <2>2, <2>3 DEF Next, Start, TickerFire, Cancel, SelectDone,
       SelectTick, Dial, Recv, PollReturn, RunAction, ActionsReturn, Terminated,
       NoGoroutineLeft
<1>2. IInv /\ [Next]_vars => [A]_vars
  BY <1>1
<1>. QED
  BY Inductive, <1>2, PTL DEF Spec, ReportsAreChanges

-----------------------------------------------------------------------------
(* Entries that share a port number have no actions, unless they are the   *)
(* same entry.  Executor.Run looks entries up by port alone: without this  *)
(* ActionsOfTheTarget is false (run daemon_hosts).                         *)
OnePortOneEntry ==
  \A k, m \in Target :
    Ports[k].port = Ports[m].port =>
      k = m \/ (Ports[k].actions = <<>> /\ Ports[m].actions = <<>>)

(* While the executor is at action j, the calls made are those expected of *)
(* the actions before it; a cancelled context only takes calls away.       *)
ActionsInv ==
  pc = "acting" =>
    /\ j \in 1 .. Len(Ports[i].actions) + 1
    /\ calls \subseteq Expected(i, results[i])
    /\ ~cancelled => calls = {c \in Expected(i, results[i]) : c[2] < j}

(* The executor runs the target's own actions.                             *)
LEMMA OwnActions ==
  ASSUME OnePortOneEntry, NEW k \in Target
  PROVE  /\ ActionsOf(k) = Ports[k].actions
         /\ Len(Ports[k].actions) \in Nat
         /\ Ports[k].actions # <<>> => MatchingConfig(Ports[k].port) = k
         /\ \A n \in 1 .. Len(Ports[k].actions) : Ports[k].actions[n] \in ActionConfig
<1>1. Ports[k] \in PortConfig
  BY PortsAssumption DEF Target
<1>2. Ports[k].actions \in Seq(ActionConfig)
  BY <1>1 DEF PortConfig
<1>. QED
  BY <1>2, ConfigFound DEF OnePortOneEntry, ActionsOf

(* The actions to fire are those the loop selects and performs.            *)
LEMMA ExpectedCalls ==
  ASSUME NEW k \in Target, NEW st, NEW c
  PROVE  c \in Expected(k, st) <=>
           \E n \in 1 .. Len(Ports[k].actions) :
             /\ c = <<k, n>>
             /\ Selected(Ports[k].actions[n], st)
             /\ Performs(Ports[k].actions[n], FALSE)
BY DEF Expected, Selected, Performs, FiresWebhook, FiresScript

(* They are pairs of the target and a position in its list of actions.     *)
LEMMA ExpectedShape ==
  ASSUME NEW k \in Target, NEW st, NEW c \in Expected(k, st)
  PROVE  c[2] \in 1 .. Len(Ports[k].actions) /\ c = <<k, c[2]>>
<1>1. PICK n \in 1 .. Len(Ports[k].actions) : c = <<k, n>>
  BY DEF Expected
<1>. QED
  BY <1>1

(* Every step keeps the calls of the actions before j.                     *)
LEMMA ActionsStep ==
  ASSUME OnePortOneEntry, IInv, ActionsInv, [Next]_vars
  PROVE  ActionsInv'
<1>0. TypeOK /\ NoGoroutineLeft /\ (pc = "acting" => i \in Target)
  BY DEF IInv
<1>1. CASE Update
  <2>. SUFFICES ASSUME pc' = "acting" PROVE ActionsInv'
    BY DEF ActionsInv
  <2>1. i' = i /\ i \in Target /\ j' = 1 /\ calls' = {}
    BY <1>0, <1>1 DEF Update, TypeOK, Target
  <2>2. {c \in Expected(i', results'[i']) : c[2] < 1} = {}
    <3>. SUFFICES ASSUME NEW c \in Expected(i, results'[i]), c[2] < 1 PROVE FALSE
      BY <2>1
    <3>. QED
      BY <2>1, ExpectedShape, OwnActions
  <2>. QED
    BY <2>1, <2>2, OwnActions DEF ActionsInv
<1>2. CASE RunAction
  <2>0. /\ pc = "acting" /\ i \in Target /\ i' = i /\ j' = j + 1 /\ results' = results
        /\ cancelled' = cancelled /\ cancelled \in BOOLEAN
    BY <1>0, <1>2 DEF RunAction, TypeOK
  <2>1. /\ ActionsOf(i) = Ports[i].actions /\ Len(Ports[i].actions) \in Nat
        /\ j \in 1 .. Len(Ports[i].actions)
        /\ MatchingConfig(Ports[i].port) = i
    BY <1>0, <1>2, <2>0, OwnActions DEF RunAction, TypeOK
  <2>. DEFINE a == Ports[i].actions[j]
              fires == Selected(a, results[i]) /\ Performs(a, cancelled)
  <2>2. calls' = IF fires THEN calls \cup {<<i, j>>} ELSE calls
    BY <1>2, <2>1 DEF RunAction
  <2>3. fires => <<i, j>> \in Expected(i, results[i])
    BY <2>0, <2>1, ExpectedCalls DEF Performs
  <2>4. ~cancelled => (<<i, j>> \in Expected(i, results[i]) <=> fires)
    BY <2>0, <2>1, ExpectedCalls DEF Performs
  <2>5. \A c \in Expected(i, results[i]) : c[2] \in Nat /\ (c[2] = j => c = <<i, j>>)
    <3>. TAKE c \in Expected(i, results[i])
    <3>1. c[2] \in 1 .. Len(Ports[i].actions) /\ c = <<i, c[2]>>
      BY <2>0, ExpectedShape
    <3>. QED
      BY <2>1, <3>1
  <2>6. calls \subseteq Expected(i, results[i])
        /\ (~cancelled => calls = {c \in Expected(i, results[i]) : c[2] < j})
    BY <2>0 DEF ActionsInv
  <2>7. calls' \subseteq Expected(i, results[i])
    BY <2>2, <2>3, <2>6
  <2>8. ~cancelled => calls' = {c \in Expected(i, results[i]) : c[2] < j + 1}
    <3>. HIDE DEF fires
    <3>1. j \in Nat
      BY <2>1
    <3>. QED
      BY <2>2, <2>4, <2>5, <2>6, <3>1
  <2>. QED
    BY <2>0, <2>1, <2>7, <2>8 DEF ActionsInv
<1>3. CASE UNCHANGED <<pc, i, j, results, calls>> /\ (cancelled' = cancelled \/ cancelled')
  BY <1>3 DEF ActionsInv
<1>4. CASE pc' # "acting"
  BY <1>4 DEF ActionsInv
<1>. QED
  BY <1>0, <1>1, <1>2, <1>3, <1>4 DEF Next, Start, TickerFire, Cancel, SelectDone,
     SelectTick, Dial, Recv, PollReturn, ActionsReturn, TickReturn, Terminated,
     NoGoroutineLeft, vars

(* A change fires only the target's own actions for its new state, and all *)
(* of them unless the context was cancelled, for every configuration in    *)
(* which entries with actions have a port number of their own.             *)
THEOREM OwnActionsFired ==
  ASSUME OnePortOneEntry
  PROVE  Spec => []ActionsOfTheTarget
<1>1. Init => ActionsInv
  BY DEF Init, ActionsInv
<1>2. IInv /\ ActionsInv /\ [Next]_vars => ActionsInv'
  BY ActionsStep
<1>3. IInv /\ ActionsInv => ActionsOfTheTarget
  <2>. SUFFICES ASSUME IInv, ActionsInv, pc = "acting" PROVE ActionsOfTheTarget
    BY DEF ActionsOfTheTarget
  <2>1. i \in Target
    BY DEF IInv
  <2>2. \A c \in Expected(i, results[i]) : c[2] \in 1 .. Len(Ports[i].actions)
    BY <2>1, ExpectedShape
  <2>3. ActionsOf(i) = Ports[i].actions /\ Len(Ports[i].actions) \in Nat
    BY <2>1, OwnActions
  <2>4. /\ j \in 1 .. Len(Ports[i].actions) + 1
        /\ calls \subseteq Expected(i, results[i])
        /\ ~cancelled => calls = {c \in Expected(i, results[i]) : c[2] < j}
    BY DEF ActionsInv
  <2>5. j > Len(Ports[i].actions) =>
          {c \in Expected(i, results[i]) : c[2] < j} = Expected(i, results[i])
    BY <2>2, <2>3, <2>4
  <2>. QED
    BY <2>3, <2>4, <2>5 DEF ActionsOfTheTarget
<1>. QED
  BY <1>1, <1>2, <1>3, Inductive, PTL DEF Spec
=============================================================================
