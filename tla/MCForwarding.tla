---------------------------- MODULE MCForwarding ----------------------------
(* Up to three requests at a time to one backend. *)
EXTENDS ForwardingHistory, TLC

\* Requests are only compared.
RequestSymmetry == Permutations(Requests)
=============================================================================
