------------------------------- MODULE MCEwma -------------------------------
(* The error average of a backend: three goroutines observe 1.0 and 0. *)
EXTENDS Ewma
=============================================================================
