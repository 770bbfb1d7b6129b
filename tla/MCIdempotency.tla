---------------------------- MODULE MCIdempotency ----------------------------
(* Instances of SendIdempotency for TLC. *)
EXTENDS SendIdempotency, TLC

CONSTANTS q1, q2, q3, p1, p2

Two == {q1, q2}
Three == {q1, q2, q3}
Same == {p1}
Either == {p1, p2}
AnyOrder == Permutations(Three) \cup Permutations(Either)
=============================================================================
