--------------------------- MODULE MCIdentitySpace ---------------------------
(* IdentitySpace for TLC.                                                    *)
EXTENDS IdentitySpace, TLC

CONSTANT n1

OneBucket == [n \in Names |-> 1]

\* The root, a namespace n1, an abandoned slot.
Mapped == <<Hole, [parent |-> Root, name |-> n1, kind |-> "namespace"], Hole>>

Symmetry == Permutations(Threads)
=============================================================================
