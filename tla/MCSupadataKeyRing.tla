-------------------------- MODULE MCSupadataKeyRing --------------------------
(* Instances of SupadataKeyRing for TLC. *)
EXTENDS SupadataKeyRing, TLC

CONSTANTS t1, t2
=============================================================================
