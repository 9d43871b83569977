----------------------------- MODULE BoundedLog -----------------------------
(***************************************************************************)
(* What a bounded in-memory log promises its readers: the entries recorded *)
(* last, at most Capacity of them, in the order in which they were         *)
(* recorded.                                                               *)
(***************************************************************************)
EXTENDS Naturals, Sequences

CONSTANTS Capacity, Entry

VARIABLE log

Init == log = <<>>

Add(e) ==
  log' = IF Len(log) < Capacity THEN Append(log, e) ELSE Append(Tail(log), e)

Next == \E e \in Entry : Add(e)

Spec == Init /\ [][Next]_log
=============================================================================
