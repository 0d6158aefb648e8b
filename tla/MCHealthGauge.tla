--------------------------- MODULE MCHealthGauge ---------------------------
(* The listed state, the one being checked and the one about to be listed. *)
EXTENDS HealthGauge
=============================================================================
