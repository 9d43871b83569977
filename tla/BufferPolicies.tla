--------------------------- MODULE BufferPolicies ---------------------------
(* The capacities of the dispatchers that buffer notifications, as they    *)
(* are given to the constructors.                                          *)
EXTENDS Integers

CONSTANTS PolicyMaxSize,    \* BatchPolicy.MaxSize; zero or less means default
          PolicyCapacity    \* PriorityQueuePolicy.Capacity, likewise

ASSUME BufferPoliciesAssumption == PolicyMaxSize \in Int /\ PolicyCapacity \in Int
=============================================================================
