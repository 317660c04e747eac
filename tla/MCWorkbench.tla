---------------------------- MODULE MCWorkbench ----------------------------
(* TLC instance of Workbench: two questions, one of which may re-ask the     *)
(* other's entry, two judges, one command-line session and one kill.        *)
EXTENDS Workbench
=============================================================================
