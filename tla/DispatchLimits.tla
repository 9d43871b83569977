--------------------------- MODULE DispatchLimits ---------------------------
(* The callers of a chain of dispatchers, and the policies of its two      *)
(* concurrency limiters, as they are given to the constructors.            *)
EXTENDS Integers, FiniteSets

CONSTANTS Callers,        \* goroutines that send through the dispatchers
          MaxConcurrent,  \* BulkheadPolicy; zero or less means default
          MaxInFlight     \* ShedPolicy; zero or less means default

ASSUME CallersAssumption == IsFiniteSet(Callers)
ASSUME PolicyAssumption == MaxConcurrent \in Int /\ MaxInFlight \in Int
=============================================================================
