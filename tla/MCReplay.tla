------------------------------ MODULE MCReplay ------------------------------
(* Two goroutines that replay a buffer of two entries. *)
EXTENDS Replay

CONSTANTS p1, p2
MCReplayers == {p1, p2}
=============================================================================
