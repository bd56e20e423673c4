---------------------------- MODULE ReadyProject ----------------------------
(***************************************************************************)
(* What project_manager promises to the tasks that use a READY Project:    *)
(* one current Project at a time, tokens (project_access) granted only     *)
(* while admission is open, and the Project retired only after admission   *)
(* has been closed and every token has been returned.                      *)
(***************************************************************************)
EXTENDS Naturals

CONSTANTS Readers,  \* tasks that may hold a project_access token
          None      \* "no Project"

VARIABLES current,    \* generation of the Project in memory, or None
          admitting,  \* TRUE while new tokens may be granted
          tokens      \* tasks that hold a token on `current'

vars == <<current, admitting, tokens>>

Init ==
    /\ current = None
    /\ admitting = FALSE
    /\ tokens = {}

(* A construction publishes a fresh generation and opens admission.        *)
Publish ==
    /\ current = None
    /\ current' \in Nat
    /\ admitting' = TRUE
    /\ UNCHANGED tokens

Grant(r) ==
    /\ admitting
    /\ r \notin tokens
    /\ tokens' = tokens \cup {r}
    /\ UNCHANGED <<current, admitting>>

Release(r) ==
    /\ r \in tokens
    /\ tokens' = tokens \ {r}
    /\ UNCHANGED <<current, admitting>>

Close ==
    /\ admitting
    /\ admitting' = FALSE
    /\ UNCHANGED <<current, tokens>>

Retire ==
    /\ current # None
    /\ ~admitting
    /\ tokens = {}
    /\ current' = None
    /\ UNCHANGED <<admitting, tokens>>

Next ==
    \/ Publish
    \/ Close
    \/ Retire
    \/ \E r \in Readers : Grant(r) \/ Release(r)

Spec == Init /\ [][Next]_vars
=============================================================================
