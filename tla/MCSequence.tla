----------------------------- MODULE MCSequence -----------------------------
(* Instances of Sequence for TLC. *)
EXTENDS Sequence, TLC

CONSTANTS c1, c2

OneStep == {1}
TwoSteps == 1..2
Single == {c1}
Pair == {c1, c2}
AnyOrder == Permutations(Pair)
=============================================================================
