------------------------ MODULE MCProjectLifecycle ------------------------
(* ProjectLifecycle for TLC.  Liveness is checked, so no symmetry is used. *)
EXTENDS ProjectLifecycle
===========================================================================
