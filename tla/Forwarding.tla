----------------------------- MODULE Forwarding -----------------------------
(***************************************************************************)
(* What happens to a request after it has chosen its backend, with the     *)
(* steps that Reserve and Release of BackendPool leave out: the gauge and  *)
(* the counters of the backend's label, the answer to the client and the   *)
(* accounting of the outcome (forward in internal/api/handler.go,          *)
(* Router.Forward and selectAndReserveBackend in internal/router/router.go,*)
(* HTTPClient.Forward in internal/backend/http.go).                        *)
(*                                                                         *)
(* One backend ID is enough: metrics are kept by ID, so different IDs      *)
(* share nothing. Discovery may replace the BackendState behind the ID;    *)
(* requests then hold different objects and write the same metrics.        *)
(* Counters of requests and selections are left out: each goes up by one   *)
(* per request and nothing reads them. What a success leaves in the        *)
(* matcher is in Matcher, how the averages take a sample in Ewma.          *)
(***************************************************************************)
EXTENDS Integers, FiniteSets

CONSTANTS
  Requests,        \* the requests that can be in the router at once
  MaxReplacements, \* bound: how often discovery replaces the object
  MaxArrivals,     \* bound: how many requests arrive
  Outcomes         \* what client.Forward may do, a subset of AllOutcomes

\* "ok"       the backend's response was copied, whatever its status
\* "badurl"   url.Parse fails: nothing is written
\* "proxyerr" ErrorHandler ran: no connection, no response, or the client gone
\* "abort"    the copy of the body broke off: ReverseProxy panics with
\*            ErrAbortHandler, which net/http recovers in the server
AllOutcomes == {"ok", "badurl", "proxyerr", "abort"}

ASSUME RequestsAssumption  == IsFiniteSet(Requests) /\ Requests # {}
ASSUME OutcomesAssumption  == Outcomes \subseteq AllOutcomes
ASSUME BoundsAssumption    == MaxReplacements \in Nat /\ MaxArrivals \in Nat

\* The objects that exist one after the other behind the ID.
Versions == 0..MaxReplacements

VARIABLES
  inflight,    \* Inflight of every version of the BackendState
  errors,      \* ErrorsTotal, likewise
  current,     \* the version the snapshot lists
  updating,    \* discovery is between InitBackend and the store
  gauge,       \* router_backend_inflight_requests{ID}
  errorSeries, \* router_backend_errors_total{ID}
  req,         \* the local state of each request goroutine
  arrived      \* how many requests have arrived

state     == <<inflight, errors>>
metrics   == <<gauge, errorSeries>>
discovery == <<current, updating>>
vars      == <<state, discovery, metrics, req, arrived>>

\* A request that holds nothing, or has just been given version v.
Request(pc, v, answers) ==
  [pc |-> pc, target |-> v, load |-> 0, err |-> FALSE, written |-> TRUE,
   answers |-> answers]

Idle == Request("idle", 0, 0)

Init ==
  /\ inflight = [v \in Versions |-> 0]
  /\ errors = [v \in Versions |-> 0]
  /\ current = 0
  /\ updating = FALSE
  /\ gauge = 0
  /\ errorSeries = 0
  /\ req = [q \in Requests |-> Idle]
  /\ arrived = 0

-----------------------------------------------------------------------------
(* Requests *)

At(q, pc) == req[q].pc = pc

\* A POST arrives and selection refuses it (no backend, no healthy backend, a
\* body that is not JSON) or it is not a POST: one error is written.
Refuse(q) ==
  /\ At(q, "idle") /\ arrived < MaxArrivals
  /\ arrived' = arrived + 1
  /\ req' = [req EXCEPT ![q] = Request("done", 0, 1)]
  /\ UNCHANGED <<state, discovery, metrics>>

\* counter.Add(1) on the chosen object. It may be of an old snapshot.
Reserve(q) ==
  /\ At(q, "idle") /\ arrived < MaxArrivals
  /\ arrived' = arrived + 1
  /\ \E v \in 0..current :
       /\ inflight' = [inflight EXCEPT ![v] = @ + 1]
       /\ req' = [req EXCEPT ![q] = Request("inc", v, 0)]
  /\ UNCHANGED <<errors, discovery, metrics>>

IncGauge(q) ==
  /\ At(q, "inc")
  /\ gauge' = gauge + 1
  /\ req' = [req EXCEPT ![q].pc = "load"]
  /\ UNCHANGED <<state, discovery, errorSeries, arrived>>

\* The counter is read for the gauge.
LoadInflight(q) ==
  /\ At(q, "load")
  /\ req' = [req EXCEPT ![q].pc = "set", ![q].load = inflight[req[q].target]]
  /\ UNCHANGED <<state, discovery, metrics, arrived>>

\* Mutant: the gauge is counted up and down only.
SetGaugeNever(q) ==
  /\ At(q, "set")
  /\ req' = [req EXCEPT ![q].pc = "forward", ![q].load = 0]
  /\ UNCHANGED <<state, discovery, metrics, arrived>>

\* Mutant: the value is added to the gauge.
SetGaugeAdd(q) ==
  /\ At(q, "set")
  /\ gauge' = gauge + req[q].load
  /\ req' = [req EXCEPT ![q].pc = "forward", ![q].load = 0]
  /\ UNCHANGED <<state, discovery, errorSeries, arrived>>

\* The gauge is set to what was read before.
SetGauge(q) ==
  /\ At(q, "set")
  /\ gauge' = req[q].load
  /\ req' = [req EXCEPT ![q].pc = "forward", ![q].load = 0]
  /\ UNCHANGED <<state, discovery, errorSeries, arrived>>

Proxied(q, pc, err, written, answers) ==
  req' = [req EXCEPT ![q] =
            [pc |-> pc, target |-> req[q].target, load |-> 0, err |-> err,
             written |-> written, answers |-> answers]]

\* Mutant: the proxy's own error handler only records the error.
ProxySilent(q) ==
  /\ At(q, "forward")
  /\ \/ "ok" \in Outcomes       /\ Proxied(q, "account", FALSE, TRUE, 1)
     \/ "badurl" \in Outcomes   /\ Proxied(q, "account", TRUE, FALSE, 0)
     \/ "proxyerr" \in Outcomes /\ Proxied(q, "account", TRUE, TRUE, 0)
     \/ "abort" \in Outcomes    /\ Proxied(q, "release", FALSE, TRUE, 1)
  /\ UNCHANGED <<state, discovery, metrics, arrived>>

\* client.Forward: "written" is false only if the proxy was never run. A panic
\* unwinds Router.Forward, so that only the deferred release still runs.
Proxy(q) ==
  /\ At(q, "forward")
  /\ \/ "ok" \in Outcomes       /\ Proxied(q, "account", FALSE, TRUE, 1)
     \/ "badurl" \in Outcomes   /\ Proxied(q, "account", TRUE, FALSE, 0)
     \/ "proxyerr" \in Outcomes /\ Proxied(q, "account", TRUE, TRUE, 1)
     \/ "abort" \in Outcomes    /\ Proxied(q, "release", FALSE, TRUE, 1)
  /\ UNCHANGED <<state, discovery, metrics, arrived>>

\* Mutant: the label's error counter also counts successes.
AccountAlways(q) ==
  LET v == req[q].target
      e == IF req[q].err THEN 1 ELSE 0
  IN  /\ At(q, "account")
      /\ errors' = [errors EXCEPT ![v] = @ + e]
      /\ errorSeries' = errorSeries + 1
      /\ req' = [req EXCEPT ![q].pc = "release"]
      /\ UNCHANGED <<inflight, discovery, gauge, arrived>>

\* ErrorsTotal and BackendErrors on an error. They only ever grow and nobody
\* decides on them, so one step is enough.
Account(q) ==
  LET v == req[q].target
      e == IF req[q].err THEN 1 ELSE 0
  IN  /\ At(q, "account")
      /\ errors' = [errors EXCEPT ![v] = @ + e]
      /\ errorSeries' = errorSeries + e
      /\ req' = [req EXCEPT ![q].pc = "release"]
      /\ UNCHANGED <<inflight, discovery, gauge, arrived>>

\* counter.Add(-1), deferred.
Release(q) ==
  /\ At(q, "release")
  /\ inflight' = [inflight EXCEPT ![req[q].target] = @ - 1]
  /\ req' = [req EXCEPT ![q].pc = "dec"]
  /\ UNCHANGED <<errors, discovery, metrics, arrived>>

DecGauge(q) ==
  /\ At(q, "dec")
  /\ gauge' = gauge - 1
  /\ req' = [req EXCEPT ![q].pc = "answer"]
  /\ UNCHANGED <<state, discovery, errorSeries, arrived>>

Over(q, answers) == req' = [req EXCEPT ![q] = Request("done", 0, answers)]

\* Mutant: the handler answers every error itself.
AnswerEveryError(q) ==
  /\ At(q, "answer")
  /\ \/ req[q].err /\ Over(q, req[q].answers + 1)
     \/ ~req[q].err /\ Over(q, req[q].answers)
  /\ UNCHANGED <<state, discovery, metrics, arrived>>

\* The handler answers an error if nothing was written yet.
Answer(q) ==
  /\ At(q, "answer")
  /\ \/ req[q].err /\ ~req[q].written /\ Over(q, req[q].answers + 1)
     \/ (req[q].err => req[q].written) /\ Over(q, req[q].answers)
  /\ UNCHANGED <<state, discovery, metrics, arrived>>

\* The connection takes the next request.
Finish(q) ==
  /\ At(q, "done")
  /\ req' = [req EXCEPT ![q] = Idle]
  /\ UNCHANGED <<state, discovery, metrics, arrived>>

-----------------------------------------------------------------------------
(* Discovery: the endpoint changes under the same ID *)

\* InitBackend sets the gauge to 0; the counters are added 0.
InitBackend ==
  /\ ~updating /\ current < MaxReplacements
  /\ updating' = TRUE
  /\ gauge' = 0
  /\ UNCHANGED <<state, current, errorSeries, req, arrived>>

\* The snapshot with the new object is stored.
StoreSnapshot ==
  /\ updating
  /\ updating' = FALSE
  /\ current' = current + 1
  /\ UNCHANGED <<state, metrics, req, arrived>>

Forward(q) ==
  \/ IncGauge(q) \/ LoadInflight(q) \/ SetGauge(q) \/ Proxy(q) \/ Account(q)
  \/ Release(q) \/ DecGauge(q) \/ Answer(q)

Next ==
  \/ \E q \in Requests : Refuse(q) \/ Reserve(q) \/ Forward(q) \/ Finish(q)
  \/ InitBackend \/ StoreSnapshot

Spec == Init /\ [][Next]_vars
-----------------------------------------------------------------------------
(* Properties *)

\* Every variable has the shape the code gives it.
TypeOK ==
  /\ inflight \in [Versions -> Int]
  /\ errors \in [Versions -> Nat]
  /\ current \in Versions /\ updating \in BOOLEAN
  /\ gauge \in Int /\ errorSeries \in Nat
  /\ req \in [Requests ->
       [pc : {"idle", "inc", "load", "set", "forward", "account", "release",
              "dec", "answer", "done"},
        target : Versions, load : Nat, err : BOOLEAN, written : BOOLEAN,
        answers : 0..1]]
  /\ arrived \in 0..MaxArrivals

\* A request that is over got exactly one answer, whoever wrote it: the
\* handler, the proxy's error handler or the backend ("written" in forward).
OneAnswer == \A q \in Requests : At(q, "done") => req[q].answers = 1

\* The requests whose IncGauge the gauge has seen and whose DecGauge it has not.
Counted == {q \in Requests : req[q].pc \in
              {"load", "set", "forward", "account", "release", "dec"}}

\* The error of the gauge does not add up from request to request, however
\* often requests overtake each other between reading the counter and setting
\* the gauge, and however often discovery sets it to 0: it differs from the
\* number of requests it should count by no more than there are request
\* goroutines, in either direction.
GaugeBounded ==
  LET n     == Cardinality(Requests)
      error == gauge - Cardinality(Counted)
  IN  -n <= error /\ error < n
=============================================================================
