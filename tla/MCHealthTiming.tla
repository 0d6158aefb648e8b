--------------------------- MODULE MCHealthTiming ---------------------------
(* Two backends: a slow one, and one that waits for its turn behind it. *)
EXTENDS HealthTiming
=============================================================================
