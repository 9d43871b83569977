----------------------------- MODULE MCGoroutines -----------------------------
(* The goroutines of the daemon, and those that meet in the guards around  *)
(* a downstream dispatcher: a circuit breaker with three senders, and a    *)
(* shedder around a bulkhead with five callers, of whom the shedder admits *)
(* three and the bulkhead two.  A behaviour is one of the three, as they   *)
(* share nothing.                                                          *)
EXTENDS MCDaemon, Circuit, GuardedDispatch

VARIABLE which

limits == <<sem, active, caller, inflight, outer, returned>>

MCInit ==
  /\ Init /\ CircuitInit /\ GuardedInit
  /\ which \in {"daemon", "circuit", "limits"}
InDaemon(A) == which = "daemon" /\ A /\ UNCHANGED <<circuitVars, limits, which>>
InCircuit(A) == which = "circuit" /\ A /\ UNCHANGED <<vars, limits, which>>
LimitsNext == which = "limits" /\ GuardedNext /\ UNCHANGED <<vars, circuitVars, which>>
all == <<vars, circuitVars, limits, which>>

(* The fairness of Daemon!FairSpec.                                        *)
DaemonFairness ==
  /\ WF_all(InDaemon(Start)) /\ SF_all(InDaemon(SelectDone))
  /\ \A k \in Target : WF_all(InDaemon(Dial(k)))
  /\ WF_all(InDaemon(Recv)) /\ WF_all(InDaemon(PollReturn)) /\ WF_all(InDaemon(Update))
  /\ WF_all(InDaemon(RunAction)) /\ WF_all(InDaemon(ActionsReturn))
  /\ WF_all(InDaemon(TickReturn))

(* The fairness of Circuit!CircuitFairSpec.                                *)
CircuitFairness ==
  /\ WF_all(InCircuit(Tick))
  /\ \A c \in Senders : /\ WF_all(InCircuit(AllowTrue(c)))
                        /\ WF_all(InCircuit(RecordSuccess(c) \/ RecordFailure(c)))

MCSpec ==
  /\ MCInit /\ [][InDaemon(Next) \/ InCircuit(CircuitNext) \/ LimitsNext]_all
  /\ DaemonFairness /\ CircuitFairness

(* The type invariants of breaker and limiters.                            *)
GuardsTypeOK == CircuitTypeOK /\ GuardedTypeOK
=============================================================================
