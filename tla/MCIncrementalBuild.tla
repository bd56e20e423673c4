------------------------- MODULE MCIncrementalBuild -------------------------
(* IncrementalBuild for TLC: managers, Sources and contents are                *)
(* interchangeable.  Two managers at work leave room for fewer disturbances    *)
(* than one: the budget is shared.                                             *)
EXTENDS IncrementalBuild, FiniteSets, TLC

CONSTANT MaxActivity    \* bound: edits, journal faults and twice the second manager

Symmetry == Permutations(Managers) \cup Permutations(Sources) \cup Permutations(Contents)

AtWork == {m \in Managers : session[m] # Unloaded}

WithinActivity ==
    edits + faults + (IF Cardinality(AtWork) = 2 THEN 2 ELSE 0) <= MaxActivity
=============================================================================
