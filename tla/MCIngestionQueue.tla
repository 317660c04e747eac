-------------------------- MODULE MCIngestionQueue --------------------------
(* Instances of IngestionQueue for TLC. *)
EXTENDS IngestionQueue, TLC

CONSTANTS j1, j2, v1, v2, w1, w2

(* Jobs, workers and videos are interchangeable. *)
Symmetry == Permutations({j1, j2}) \cup Permutations({w1, w2}) \cup Permutations({v1, v2})
=============================================================================
