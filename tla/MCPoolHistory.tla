--------------------------- MODULE MCPoolHistory ---------------------------
(* PoolHistory for TLC. *)
EXTENDS PoolHistory, MCListings, TLC

\* Addresses are only compared.
SymmetricRefs == Permutations(Refs)
=============================================================================
