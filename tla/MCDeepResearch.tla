-------------------------- MODULE MCDeepResearch ---------------------------
(* TLC instances of DeepResearch: five passages and three questions, of which *)
(* the second and the third share the passage they rank first.               *)
EXTENDS DeepResearch, TLC

CONSTANTS a, b, c, d, e, q1, q2, q3

FivePassages == <<a, b, c, d, e>>
Rankings == (q1 :> <<a, b, c, d, e>>) @@ (q2 :> <<c, d, a, b, e>>) @@ (q3 :> <<c, e, a, b, d>>)
OnePlan == {<<q1, q2>>}
TwoGapLists == {<<q2, q3>>, <<q1>>}
TwoRoutings == {{a, b, c}, {a, b, c, d, e}}

Symmetry == Permutations(Rules)
=============================================================================
