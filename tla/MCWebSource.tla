----------------------------- MODULE MCWebSource -----------------------------
(* Instances of WebSource for TLC. *)
EXTENDS WebSource, TLC

CONSTANTS a, b, c, p, q, u1, u2, r1, r2

(* The second extractor reads p otherwise than the first; of q both make the *)
(* longest text, in which the second chunker finds fewer chunks.             *)
Readings == [x \in Documents \X Vintages |->
               IF x[1] = q THEN b ELSE IF x[2] = 1 THEN a ELSE c]

Lengths == [x \in Texts \X Vintages |->
              CASE x[1] = a -> 2
                [] x[1] = b -> IF x[2] = 1 THEN 3 ELSE 2
                [] x[1] = c -> 1]

Symmetry == Permutations({u1, u2}) \cup Permutations({r1, r2})
=============================================================================
