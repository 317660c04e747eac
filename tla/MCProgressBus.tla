---------------------------- MODULE MCProgressBus ----------------------------
(* Instances of ProgressBus for TLC. *)
EXTENDS ProgressBus, TLC

CONSTANTS j1, j2, t1, t2
=============================================================================
