---------------------------- MODULE PoolHistory ----------------------------
(***************************************************************************)
(* BackendPool with a history variable: for each request in selection, the *)
(* states of its snapshot that have been selectable at every moment since  *)
(* it loaded the snapshot. The scans of selectBackend and cacheAwareSelect *)
(* read Healthy one state at a time while the health goroutine writes it,  *)
(* so what a request may conclude from its reads is a claim about this     *)
(* whole interval.                                                         *)
(***************************************************************************)
EXTENDS BackendPool

VARIABLE steady

hvars == <<vars, steady>>

InSelection(q) == req[q].pc \in {"loaded", "scan", "match"}

HInit == Init /\ steady = [q \in Requests |-> {}]

HNext ==
  /\ Next
  /\ steady' = [q \in Requests |->
       LET base == IF InSelection(q) THEN steady[q] ELSE Elems(req'[q].snap)
       IN  IF InSelection(q)' THEN {r \in base : states'[r].Healthy} ELSE {}]

HSpec == HInit /\ [][HNext]_hvars

Refused(q) == req[q].pc \in {"scan", "match"} /\ req'[q].pc = "idle"

\* A request is refused with ErrNoHealthyBackends only if no backend of its
\* snapshot was selectable during the whole of its selection: neither the
\* turn order, nor the stop at the first hit, nor a candidate that displaces
\* the fallback loses a backend that was there all the time.
RefusedOnlyWithoutSteadyBackend ==
  [][\A q \in Requests : Refused(q) => steady[q] = {}]_hvars
=============================================================================
