----------------------------- MODULE MCByteArena -----------------------------
(* ByteArena for TLC.                                                        *)
EXTENDS ByteArena, TLC

\* A byte, an aligned record, and a record larger than a page.
SomeRequests == {[size |-> 1, alignment |-> 1], [size |-> 2, alignment |-> 2],
                 [size |-> 6, alignment |-> 1]}

Symmetry == Permutations(Threads)
=============================================================================
