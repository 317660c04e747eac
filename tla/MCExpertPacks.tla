--------------------------- MODULE MCExpertPacks ---------------------------
(* TLC instances of ExpertPacks: two videos, one unit over both and three    *)
(* over a single one, so that a topic of one video has more units in one     *)
(* pool than in the other.                                                   *)
EXTENDS ExpertPacks, TLC

CONSTANTS v1, v2, u1, u2, g1, g2

WhoSpeaks == (u1 :> {v1}) @@ (u2 :> {v2}) @@ (g1 :> {v1, v2}) @@ (g2 :> {v1})

(* The units that speak of one of the members. *)
Over(units, members) == SelectSeq(units, LAMBDA u: WhoSpeaks[u] \cap members # {})
TwoThemes == [members \in SUBSET Videos |-> Over(<<u1, u2>>, members)]
TwoCommunities == [members \in SUBSET Videos |-> Over(<<g1, g2>>, members)]

Symmetry == Permutations(Rules) \cup Permutations(Requests)
=============================================================================
