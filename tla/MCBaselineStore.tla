------------------------- MODULE MCBaselineStore --------------------------
(* BaselineStore for TLC: clients, sections and section contents are       *)
(* interchangeable.  Transactions, clients at work and faults share one    *)
(* budget; unfinished directories that nobody writes any more have their   *)
(* own, and no commit is begun that would need a name beyond the last.     *)
EXTENDS BaselineStore, TLC

CONSTANTS MaxActivity,  \* bound: transaction names, clients at work and faults
          MaxLeftovers  \* bound: directories that failed commits left behind

Symmetry ==
    Permutations(Clients) \cup Permutations(Sections) \cup Permutations(Values)

AtWork == {p \in Clients : pc[p] # "idle" \/ pin[p] # NoTx}

Leftovers ==
    {t \in live \ (rootDurable \cap dirDurable) : \A p \in Clients : tx[p] # t}

WithinActivity ==
    /\ used + Cardinality(AtWork) + faults <= MaxActivity
    /\ Cardinality(Leftovers) <= MaxLeftovers
    /\ used = MaxTx => \A p \in Clients : pc[p] # "create"
============================================================================
