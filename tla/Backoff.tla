------------------------------- MODULE Backoff -------------------------------
(***************************************************************************)
(* alert.BackoffLimiter: after each alert that was let through, the key is *)
(* refused for BaseInterval * Multiplier^attempts, at most MaxInterval.    *)
(* The product is a float64 that is converted to an int64 duration; Width  *)
(* is the width of that integer, and of the result of a conversion out of  *)
(* range the language only says that it is some integer: the build yields  *)
(* the least (amd64) or the greatest one (arm64).                          *)
(***************************************************************************)
EXTENDS Integers

CONSTANTS Keys, BaseInterval, Multiplier, MaxInterval, Width

VARIABLES now, entry   \* per key: attempts (0: no entry) and nextAt

NoEntry == [attempts |-> 0, nextAt |-> 0]

Init == entry = [key \in Keys |-> NoEntry]

Least == -(2 ^ (Width - 1))
Greatest == 2 ^ (Width - 1) - 1
ToDuration(x) == IF x <= Greatest THEN {x} ELSE {Least, Greatest}

Uncapped(d) == d
Capped(d) == IF d > MaxInterval THEN MaxInterval ELSE d

Open(key) == entry[key].attempts = 0 \/ now >= entry[key].nextAt

Grown(attempts) == BaseInterval * Multiplier ^ attempts

(* Allow answers Open(key).  The first interval is not capped.             *)
Allow(key) ==
  \/ ~Open(key) /\ UNCHANGED entry
  \/ /\ entry[key].attempts = 0
     /\ entry' = [entry EXCEPT ![key] = [attempts |-> 1, nextAt |-> now + BaseInterval]]
  \/ /\ Open(key) /\ entry[key].attempts > 0
     /\ \E d \in ToDuration(Grown(entry[key].attempts)) :
          entry' = [entry EXCEPT ![key] = [attempts |-> @.attempts + 1,
                                           nextAt |-> now + Capped(d)]]

Reset(key) == entry' = [entry EXCEPT ![key] = NoEntry]
=============================================================================
