----------------------------- MODULE MCGuides -----------------------------
(* TLC instances of Guides: a selection of two passes and one of one.        *)
EXTENDS Guides, TLC

CONSTANTS wide, small, server, command

TwoAndOne == (wide :> 2) @@ (small :> 1)
Symmetry == Permutations(Comments)

(* What follows two runs that have worked on the guide at once is left out:   *)
(* overlap stays, and every property excepts it.                             *)
Apart == ~overlap
=============================================================================
