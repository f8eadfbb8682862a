-------------------------- MODULE MCPrivateAccess --------------------------
(* Two accounts; the first owns the report. *)
EXTENDS PrivateAccess, TLC

CONSTANTS p1, p2, x1

MCOwner == [x \in {x1} |-> p1]

Symmetry == Permutations(SessionIds) \cup Permutations(Requests)
=============================================================================
