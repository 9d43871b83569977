------------------------------ MODULE MCDaemon ------------------------------
(* Small configurations of the daemon for TLC. *)
EXTENDS Daemon

Webhook(on) == [on |-> on, type |-> "webhook", target |-> TRUE]
Script(on) == [on |-> on, type |-> "script", target |-> TRUE]
NoTarget(on) == [on |-> on, type |-> "script", target |-> FALSE]

(* Two endpoints, one of them listed twice, which validate accepts.  The   *)
(* first has a script action without a command.                            *)
ThreeEntries ==
  << [host |-> "h1", port |-> 80,
      actions |-> <<Webhook("any"), NoTarget("open"), Script("closed")>>],
     [host |-> "h2", port |-> 81, actions |-> <<>>],
     [host |-> "h2", port |-> 81, actions |-> <<>>] >>

(* One port number on two hosts.                                           *)
SamePortTwoHosts ==
  << [host |-> "h1", port |-> 80, actions |-> <<Webhook("any")>>],
     [host |-> "h2", port |-> 80, actions |-> <<Script("any")>>] >>
=============================================================================
