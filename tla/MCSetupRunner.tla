--------------------------- MODULE MCSetupRunner ---------------------------
(* TLC instances of SetupRunner: two asks that share one agent. *)
EXTENDS SetupRunner
=============================================================================
