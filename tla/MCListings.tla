----------------------------- MODULE MCListings -----------------------------
(* Endpoints and endpoint lists the instances of BackendPool use. *)

CONSTANTS a, b, u1, u2, v1

A1 == [ID |-> a, URL |-> u1]
A2 == [ID |-> a, URL |-> u2]
B1 == [ID |-> b, URL |-> v1]

\* With discovery the configured list is usually empty.
NothingConfigured == {<<>>}

BothConfigured == {<<A1, B1>>}

\* Pods come and go, pod a comes back at another address, but every listing
\* names a pod once.
UniqueListings == {<<B1>>, <<A1, B1>>, <<B1, A2>>}

\* Every pod may go at once.
ShrinkingListings == {<<>>, <<A1, B1>>, <<B1, A2>>}

\* Pod a is listed with both addresses of a dual-stack Service.
DualStackListings == {<<A1, A2>>}
=============================================================================
