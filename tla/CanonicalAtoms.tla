--------------------------- MODULE CanonicalAtoms ---------------------------
(***************************************************************************)
(* What the concurrent interning tables promise: every key has at most one *)
(* atom, no atom stands for two keys, nothing is ever forgotten, and every *)
(* answer given is what the table holds.                                   *)
(***************************************************************************)
CONSTANTS Keys,     \* what is interned: texts, or a scope and a name in it
          Atoms,    \* what stands for it
          Initial   \* the pairs of the mapped baseline

VARIABLES table,    \* the pairs interned
          answers   \* the pairs returned to callers

vars == <<table, answers>>

Init ==
    /\ table = Initial
    /\ answers = {}

Intern(k, a) ==
    /\ \A p \in table : p[1] # k /\ p[2] # a
    /\ table' = table \cup {<<k, a>>}
    /\ UNCHANGED answers

Answer(p) ==
    /\ p \in table
    /\ answers' = answers \cup {p}
    /\ UNCHANGED table

Next ==
    \/ \E k \in Keys, a \in Atoms : Intern(k, a)
    \/ \E p \in Keys \X Atoms : Answer(p)

Spec == Init /\ [][Next]_vars
=============================================================================
