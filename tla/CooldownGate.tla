---------------------------- MODULE CooldownGate ----------------------------
(***************************************************************************)
(* alert.Limiter, and alert.Deduplicator which is written the same way: a  *)
(* key that was let through is refused until Window has passed.            *)
(***************************************************************************)
EXTENDS Integers

CONSTANTS Keys, Window   \* Policy.Cooldown, or DedupPolicy.Window

VARIABLES now, last      \* the clock, and when each key was let through last

Never == -1              \* the key is not in the map

Init == last = [key \in Keys |-> Never]

WithinInclusive(key) == last[key] # Never /\ now - last[key] <= Window
Within(key) == last[key] # Never /\ now - last[key] < Window
Open(key) == ~Within(key)

(* Allow answers Open(key).                                                *)
Allow(key) == last' = IF Open(key) THEN [last EXCEPT ![key] = now] ELSE last

Reset(key) == last' = [last EXCEPT ![key] = Never]
=============================================================================
