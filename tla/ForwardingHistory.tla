------------------------- MODULE ForwardingHistory -------------------------
(***************************************************************************)
(* Forwarding with three things the code does not store: how many forwards *)
(* client.Forward returned an error for, how many it panicked for, and     *)
(* which requests had the label to themselves since they reserved.         *)
(***************************************************************************)
EXTENDS Forwarding, Functions

VARIABLES
  failed,  \* forwards that returned an error
  broken,  \* forwards that panicked in the middle of the response
  alone    \* requests nobody else wrote the gauge along with

hvars == <<vars, failed, broken, alone>>

HInit == Init /\ failed = 0 /\ broken = 0 /\ alone = {}

\* The gauge of q's label is written by nobody else.
WritesGauge(q) == req[q].pc \in {"inc", "load", "set", "forward", "account",
                                 "release", "dec"}

Others(q) == {p \in Requests \ {q} : WritesGauge(p)}

\* The requests whose client.Forward ends in this step at the label pc.
Ending(pc) == {q \in Requests : At(q, "forward") /\ req'[q].pc = pc}

HNext ==
  /\ Next
  /\ failed' = failed + Cardinality({q \in Ending("account") : req'[q].err})
  /\ broken' = broken + Cardinality(Ending("release"))
  /\ alone' = {q \in Requests :
                 /\ WritesGauge(q)'
                 /\ Others(q)' = {}
                 /\ At(q, "idle") => Others(q) = {}
                 /\ ~At(q, "idle") => q \in alone
                 /\ ~updating'}

HSpec == HInit /\ [][HNext]_hvars
-----------------------------------------------------------------------------
(* Properties *)

Uncounted == {q \in Requests : At(q, "account") /\ req[q].err}

\* router_backend_errors_total counts every forward that returned an error,
\* once, and is the sum of what the objects that were behind the ID have
\* counted each for itself.
ErrorsCounted ==
  /\ errorSeries + Cardinality(Uncounted) = failed
  /\ errorSeries = FoldFunction(+, 0, errors)

\* The series counts every forward that failed, a response that broke off
\* included (Help "Total backend forwarding errors by backend.").
EveryFailureCounted ==
  errorSeries + Cardinality(Uncounted) = failed + broken

\* Whatever earlier requests and replacements did to the gauge, the next
\* request that has the label to itself sets it right while it is forwarded.
GaugeRepaired ==
  \A q \in alone :
    req[q].pc \in {"forward", "account", "release"} => gauge = 1
=============================================================================
