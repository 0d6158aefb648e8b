----------------------------- MODULE MCMatcher -----------------------------
(* Instances of Matcher for TLC. *)
EXTENDS MatcherHistory, TLC

CONSTANTS p1, p2

\* The prefix p2 extends p1, so a prompt that has p2 has p1, too.
Lengths == (p1 :> 2) @@ (p2 :> 3)

Nested == {<<p1>>, <<p1, p2>>}

\* Addresses are only compared.
SymmetricEntries == Permutations(Entries)
=============================================================================
