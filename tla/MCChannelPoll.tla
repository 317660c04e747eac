---------------------------- MODULE MCChannelPoll ----------------------------
(* Instances of ChannelPoll for TLC. *)
EXTENDS ChannelPoll, TLC

CONSTANTS c1, c2, i1, i2, r1, r2

(* Items and runs are interchangeable. *)
Symmetry == Permutations({i1, i2}) \cup Permutations({r1, r2})
=============================================================================
