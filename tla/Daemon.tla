------------------------------- MODULE Daemon -------------------------------
(***************************************************************************)
(* The portwatch daemon: the select loop of daemon.Run over a ticker and a *)
(* context, one poll cycle (poller.PollAll: a goroutine per target and a   *)
(* buffered channel), the state tracker and the action executor.           *)
(*                                                                         *)
(* The goroutine that executes Run is `pc'; the goroutines of PollAll are  *)
(* `worker'; signal delivery and the runtime's ticker are the actions      *)
(* Cancel and TickerFire.  The variables seen, dialed, report and calls    *)
(* are history variables: no action reads them in a guard.                 *)
(***************************************************************************)
EXTENDS Integers, Sequences, FiniteSets

CONSTANTS Ports,      \* cfg.Ports: a sequence of [host, port, actions]
          Interval,   \* cfg.Interval, a time.Duration in the clock's units
          Second,     \* time.Second in the same units
          Width       \* bits of time.Duration (64 in Go; scaled here)

Observed == {"open", "closed"}
State == Observed \cup {"unknown"}
ActionConfig == [on : {"open", "closed", "any"}, type : STRING, target : BOOLEAN]
PortConfig == [host : STRING, port : Nat, actions : Seq(ActionConfig)]

ASSUME PortsAssumption == Ports \in Seq(PortConfig)
ASSUME ClockAssumption ==
  /\ Interval \in Nat \ {0}        \* config.validate refuses the others
  /\ Second \in Nat \ {0}
  /\ Width \in Nat \ {0}

Target == 1 .. Len(Ports)
Key(k) == <<Ports[k].host, Ports[k].port>>
Keys == {Key(k) : k \in Target}

-----------------------------------------------------------------------------
(* The two's complement value of n in Width bits, as Go's int64 product.   *)
Wrap(n) == LET m == n % (2 ^ Width)
           IN  IF m >= 2 ^ (Width - 1) THEN m - 2 ^ Width ELSE m

(* time.Duration(d.cfg.Interval) * time.Second                             *)
TickerInterval == Wrap(Interval * Second)

(* The first entry of cfg.Ports with the port's number.                    *)
MatchingConfig(port) ==
  CHOOSE k \in Target : /\ Ports[k].port = port
                        /\ \A m \in Target : Ports[m].port = port => k <= m

ActionsOf(k) == Ports[MatchingConfig(Ports[k].port)].actions

(* The action is selected by the new state.                                *)
SelectedLoosely(a, state) == TRUE
Selected(a, state) == a.on = state \/ a.on = "any"

(* fireWebhook and fireScript return early without a URL or a path.        *)
FiresWebhook(a) == a.type = "webhook" /\ a.target
FiresScript(a) == a.type = "script" /\ a.target

(* The switch on the type; a call under a cancelled context is not made.   *)
Performs(a, done) == (FiresWebhook(a) \/ FiresScript(a)) /\ ~done

-----------------------------------------------------------------------------
VARIABLES
  pc,        \* where Run is: start, select, polling, handling, acting, ...
  cancelled, \* ctx.Done() is closed
  tickC,     \* ticks waiting in ticker.C (a channel of capacity one)
  worker,    \* the goroutine of each target of the current poll cycle
  ch,        \* the channel of PollAll, results tagged with their index
  received,  \* receives that the collecting loop has done in this cycle
  results,   \* the slice PollAll returns
  states,    \* Tracker.states; "unknown" stands for an absent key
  i,         \* index of the result tick is at
  j,         \* index of the action Executor.Run is at
  dialed,    \* history: outcome of each target's latest dial
  seen,      \* history: per key, the outcome handled last
  report,    \* history: the change found by the Update of the current i
  calls      \* history: action calls made for that change

vars == <<pc, cancelled, tickC, worker, ch, received, results, states, i, j,
          dialed, seen, report, calls>>

NoReport == [changed |-> FALSE, prev |-> "unknown", curr |-> "unknown"]

Init ==
  /\ pc = "start"
  /\ cancelled = FALSE
  /\ tickC = 0
  /\ worker = [k \in Target |-> "none"]
  /\ ch = {}
  /\ received = 0
  /\ results = [k \in Target |-> "unknown"]
  /\ states = [key \in Keys |-> "unknown"]
  /\ i = 1
  /\ j = 1
  /\ dialed = [k \in Target |-> "unknown"]
  /\ seen = [key \in Keys |-> "unknown"]
  /\ report = NoReport
  /\ calls = {}

-----------------------------------------------------------------------------
(* time.NewTicker panics on an interval that is not positive.              *)
Start ==
  /\ pc = "start"
  /\ pc' = IF TickerInterval > 0 THEN "select" ELSE "panicked"
  /\ UNCHANGED <<cancelled, tickC, worker, ch, received, results, states, i, j,
                 dialed, seen, report, calls>>

(* The runtime sends a tick; it drops it when the channel is full.         *)
TickerFire ==
  /\ pc \notin {"start", "stopped", "panicked"}
  /\ tickC' = 1
  /\ UNCHANGED <<pc, cancelled, worker, ch, received, results, states, i, j,
                 dialed, seen, report, calls>>

(* SIGINT or SIGTERM cancels the context of signal.NotifyContext.          *)
Cancel ==
  /\ cancelled = FALSE
  /\ cancelled' = TRUE
  /\ UNCHANGED <<pc, tickC, worker, ch, received, results, states, i, j,
                 dialed, seen, report, calls>>

SelectDone ==
  /\ pc = "select" /\ cancelled
  /\ pc' = "stopped"
  /\ UNCHANGED <<cancelled, tickC, worker, ch, received, results, states, i, j,
                 dialed, seen, report, calls>>

(* case <-ticker.C: PollAll allocates its slice and channel and starts one *)
(* goroutine per target.                                                   *)
SelectTick ==
  /\ pc = "select" /\ tickC = 1
  /\ tickC' = 0
  /\ pc' = "polling"
  /\ worker' = [k \in Target |-> "dialing"]
  /\ ch' = {}
  /\ received' = 0
  /\ results' = [k \in Target |-> "unknown"]
  /\ UNCHANGED <<cancelled, states, i, j, dialed, seen, report, calls>>

DialOutcomeUnset == State
DialOutcome == Observed

(* A worker's dial succeeds, or fails or times out; it sends the indexed   *)
(* result (the channel has room for all) and ends.                         *)
Dial(k) ==
  /\ worker[k] = "dialing"
  /\ \E s \in DialOutcome :
       /\ ch' = ch \cup {[idx |-> k, state |-> s]}
       /\ dialed' = [dialed EXCEPT ![k] = s]
  /\ worker' = [worker EXCEPT ![k] = "sent"]
  /\ UNCHANGED <<pc, cancelled, tickC, received, results, states, i, j,
                 seen, report, calls>>

SlotByArrival(ir) == received + 1
Slot(ir) == ir.idx

(* ir := <-ch; results[ir.idx] = ir.result                                 *)
Recv ==
  /\ pc = "polling" /\ received < Len(Ports)
  /\ \E ir \in ch :
       /\ ch' = ch \ {ir}
       /\ results' = [results EXCEPT ![Slot(ir)] = ir.state]
       /\ worker' = [worker EXCEPT ![ir.idx] = "received"]
  /\ received' = received + 1
  /\ UNCHANGED <<pc, cancelled, tickC, states, i, j, dialed, seen, report, calls>>

OneResultEarly == received >= Len(Ports) - 1
OneResultMore == received = Len(Ports) + 1
AllReceived == received = Len(Ports)

PollReturn ==
  /\ pc = "polling" /\ AllReceived
  /\ pc' = "handling"
  /\ i' = 1
  /\ UNCHANGED <<cancelled, tickC, worker, ch, received, results, states, j,
                 dialed, seen, report, calls>>

ChangedOrNew(prev, curr) == prev # curr
(* !exists || previous == current means that nothing changed.              *)
Changed(prev, curr) == prev # "unknown" /\ prev # curr

(* tracker.Update for the result at i, and the branch on its answer.       *)
Update ==
  /\ pc = "handling" /\ i <= Len(Ports)
  /\ LET prev == states[Key(i)]
         curr == results[i]
         changed == Changed(prev, curr)
     IN  /\ states' = [states EXCEPT ![Key(i)] = curr]
         /\ report' = [changed |-> changed, prev |-> prev, curr |-> curr]
         /\ seen' = [seen EXCEPT ![Key(i)] = dialed[i]]
         /\ pc' = IF changed THEN "acting" ELSE "handling"
         /\ i' = IF changed THEN i ELSE i + 1
  /\ j' = 1
  /\ calls' = {}
  /\ UNCHANGED <<cancelled, tickC, worker, ch, received, results, dialed>>

(* One action of the matching entry: its call is attempted or it is only   *)
(* logged; either way the loop goes on with the next action.               *)
RunAction ==
  /\ pc = "acting" /\ j <= Len(ActionsOf(i))
  /\ LET a == ActionsOf(i)[j]
     IN  calls' = IF Selected(a, results[i]) /\ Performs(a, cancelled)
                    THEN calls \cup {<<MatchingConfig(Ports[i].port), j>>}
                    ELSE calls
  /\ j' = j + 1
  /\ UNCHANGED <<pc, cancelled, tickC, worker, ch, received, results, states, i,
                 dialed, seen, report>>

ActionsReturn ==
  /\ pc = "acting" /\ j > Len(ActionsOf(i))
  /\ pc' = "handling"
  /\ i' = i + 1
  /\ UNCHANGED <<cancelled, tickC, worker, ch, received, results, states, j,
                 dialed, seen, report, calls>>

TickReturn ==
  /\ pc = "handling" /\ i > Len(Ports)
  /\ pc' = "select"
  /\ UNCHANGED <<cancelled, tickC, worker, ch, received, results, states, i, j,
                 dialed, seen, report, calls>>

Terminated == pc \in {"stopped", "panicked"} /\ UNCHANGED vars

Next ==
  \/ Start \/ TickerFire \/ Cancel \/ SelectDone \/ SelectTick
  \/ \E k \in Target : Dial(k)
  \/ Recv \/ PollReturn \/ Update \/ RunAction \/ ActionsReturn \/ TickReturn
  \/ Terminated

Spec == Init /\ [][Next]_vars

(* Every goroutine of the daemon runs, dials end by their timeout, action  *)
(* calls end by theirs, and select chooses at random among ready cases, so *)
(* a case that is ready again and again is eventually chosen.              *)
FairSpec ==
  /\ Spec
  /\ WF_vars(Start) /\ SF_vars(SelectDone)
  /\ \A k \in Target : WF_vars(Dial(k))
  /\ WF_vars(Recv) /\ WF_vars(PollReturn) /\ WF_vars(Update)
  /\ WF_vars(RunAction) /\ WF_vars(ActionsReturn) /\ WF_vars(TickReturn)

-----------------------------------------------------------------------------
TypeOK ==
  /\ pc \in {"start", "select", "polling", "handling", "acting", "stopped",
             "panicked"}
  /\ cancelled \in BOOLEAN
  /\ tickC \in 0 .. 1
  /\ worker \in [Target -> {"none", "dialing", "sent", "received"}]
  /\ ch \subseteq [idx : Target, state : Observed]
  /\ received \in 0 .. Len(Ports)
  /\ results \in [Target -> State]
  /\ states \in [Keys -> State]
  /\ i \in 1 .. Len(Ports) + 1
  /\ j \in Nat \ {0}
  /\ dialed \in [Target -> State]
  /\ seen \in [Keys -> State]
  /\ report \in [changed : BOOLEAN, prev : State, curr : State]
  /\ calls \subseteq Target \X (Nat \ {0})

(* When PollAll has returned, each result is the outcome of its own        *)
(* target's dial in this cycle, whatever order the workers finished in.    *)
ResultsAligned ==
  pc \in {"handling", "acting"} =>
    \A k \in Target : results[k] = dialed[k] /\ results[k] \in Observed

(* Outside a poll cycle no worker is left running and no result is left in *)
(* the channel: shutting down leaks no goroutine.                          *)
NoGoroutineLeft ==
  pc # "polling" => ch = {} /\ \A k \in Target : worker[k] \in {"none", "received"}

(* Actions are run for a result exactly when its key was observed before   *)
(* in the other state, and the change reported is between those two; the   *)
(* first observation is silent.  seen follows the dials and the tracker    *)
(* follows the results: reports are tied to what the network answered.     *)
ReportsAreChanges ==
  [][ /\ pc = "handling" /\ pc' = "acting" =>
           /\ seen[Key(i)] # "unknown"
           /\ seen[Key(i)] # dialed[i]
           /\ report'.prev = seen[Key(i)] /\ report'.curr = dialed[i]
      /\ pc = "handling" /\ pc' = "handling" /\ i' = i + 1 =>
           seen[Key(i)] \in {"unknown", dialed[i]}
    ]_vars

(* The actions of target k that its change to `state' has to fire.         *)
Expected(k, state) ==
  {<<k, n>> : n \in {m \in 1 .. Len(Ports[k].actions) :
      /\ Ports[k].actions[m].on \in {state, "any"}
      /\ Ports[k].actions[m].type \in {"webhook", "script"}
      /\ Ports[k].actions[m].target}}

(* A change of a target fires only actions configured for that target and  *)
(* the new state, and all of them unless the context was cancelled.        *)
ActionsOfTheTarget ==
  pc = "acting" =>
    /\ calls \subseteq Expected(i, results[i])
    /\ j > Len(ActionsOf(i)) /\ ~cancelled => calls = Expected(i, results[i])

(* Once the context is cancelled, Run returns.                             *)
CancelStops == cancelled ~> pc = "stopped"

(* The daemon gets as far as its ticker: the configured interval is one it *)
(* can poll at.                                                            *)
NeverPanics == pc # "panicked"
=============================================================================
