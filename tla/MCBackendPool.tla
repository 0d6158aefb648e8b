--------------------------- MODULE MCBackendPool ---------------------------
(* BackendPool for TLC, without the history variable. *)
EXTENDS BackendPool, MCListings, TLC

\* Addresses and requests are only compared.
Symmetric == Permutations(Refs) \cup Permutations(Requests)
=============================================================================
