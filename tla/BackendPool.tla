---------------------------- MODULE BackendPool ----------------------------
(***************************************************************************)
(* The router's pool of backends: the snapshot behind Router.backends, the *)
(* BackendState objects it points to, and the three kinds of goroutine     *)
(* that share them without a lock:                                         *)
(*                                                                         *)
(*   - one goroutine per request, which loads the snapshot once, chooses a *)
(*     state from it and holds a reservation on that state while it        *)
(*     forwards (internal/router/router.go, cache_aware.go);               *)
(*   - the discovery goroutine, the only writer of the snapshot;           *)
(*   - the health goroutine, the only writer of Healthy and of             *)
(*     ConsecutiveHealthFailures.                                          *)
(*                                                                         *)
(* BackendState objects are shared by pointer and outlive the snapshot     *)
(* that listed them, so they are modelled as a heap indexed by Refs.       *)
(* Scores are compared by a nondeterministic choice here: the latencies    *)
(* and errors in them are arbitrary, so any order of scores can occur.     *)
(***************************************************************************)
EXTENDS Integers, Sequences, FiniteSets

CONSTANTS
  Requests,   \* the requests that can be in the router at the same time
  Refs,       \* addresses a BackendState can have (bound: live objects)
  IDs,        \* backend IDs (pod names)
  URLs,       \* backend URLs
  Configured, \* the endpoint lists Options.Backends may hold
  Listings,   \* the endpoint lists a successful Discover may return
  Threshold,  \* healthFailureThreshold, after normalizedUint64
  NextWrap,   \* bound of Router.next; a multiple of every list length
  Policies,   \* values ROUTER_POLICY may have; all but "cache_aware" are
              \* round robin
  NoRef,      \* a nil *BackendState
  NoEndpoint  \* the Endpoint of an address that holds no object

Endpoint == [ID : IDs, URL : URLs]

ASSUME RequestsAssumption  == IsFiniteSet(Requests)
ASSUME ThresholdAssumption == Threshold \in Nat \ {0}
ASSUME NextWrapAssumption  == NextWrap \in Nat \ {0}
ASSUME ListingsAssumption  ==
  \A eps \in Configured \cup Listings : eps \in Seq(Endpoint)
ASSUME NoRefAssumption     == NoRef \notin Refs
ASSUME NoEndpointAssumption == NoEndpoint \notin Endpoint

VARIABLES
  states,    \* the heap: the BackendState at each address
  policy,    \* Router.policy, set once
  backends,  \* the list of the current snapshot (atomic pointer)
  next,      \* Router.next
  req,       \* the local state of each request goroutine
  checker    \* the local state of the health goroutine

vars == <<states, policy, backends, next, req, checker>>

-----------------------------------------------------------------------------
(* Objects and snapshots *)

NewBackendState(e) ==
  [Endpoint |-> e, Inflight |-> 0, Healthy |-> FALSE, Failures |-> 0]

\* An address no goroutine can reach. The collector reuses it.
Freed == NewBackendState(NoEndpoint)

Elems(s) == {s[i] : i \in DOMAIN s}

\* BackendSnapshot.ByID of a list, as a set: the last state with that ID is
\* the one the map keeps; the set is empty where the map yields nil.
ByID(list, id) ==
  LET at == {i \in DOMAIN list : states[list[i]].Endpoint.ID = id}
  IN  {list[i] : i \in {j \in at : \A k \in at : k <= j}}

\* What a request, the health round and the snapshot keep alive.
Live ==
  (Elems(backends) \cup Elems(checker.todo)
     \cup UNION {Elems(req[q].snap) \cup {req[q].target} : q \in Requests})
  \ {NoRef}

\* The heap after a step, with what became unreachable collected at once.
\* Nothing can observe an unreachable object, so when it is collected is
\* immaterial. Evaluated after the other primed variables are fixed.
Heap(h) == states' = [r \in Refs |-> IF r \in Live' THEN h[r] ELSE Freed]

isSelectable(r) == states[r].Healthy

-----------------------------------------------------------------------------
(* Requests *)

Idle == [pc |-> "idle", snap |-> <<>>, todo |-> <<>>, cands |-> {},
         target |-> NoRef]

Goto(q, rec) == req' = [req EXCEPT ![q] = rec]

\* The list as the scan visits it: (start + i) % len for i = 0, 1, ...
Rotate(list, start) ==
  [i \in 1..Len(list) |-> list[((start + i - 1) % Len(list)) + 1]]

\* selectBackend reads the snapshot pointer. An empty list is answered "no
\* backends configured" at once, which leaves every variable as it is.
LoadSnapshot(q) ==
  /\ req[q].pc = "idle"
  /\ backends # <<>>
  /\ Goto(q, [Idle EXCEPT !.pc = "loaded", !.snap = backends])
  /\ UNCHANGED <<states, policy, backends, next, checker>>

\* Only the cache-aware policy reads and decodes the body, before it takes a
\* turn from the counter; a body it cannot decode ends the request.
RejectBody(q) ==
  /\ req[q].pc = "loaded"
  /\ policy = "cache_aware"
  /\ Goto(q, Idle)
  /\ UNCHANGED <<policy, backends, next, checker>>
  /\ Heap(states)

TakeTurn(q) ==
  /\ req[q].pc = "loaded"
  /\ next' = (next + 1) % NextWrap
  /\ Goto(q, [req[q] EXCEPT !.pc = "scan", !.todo = Rotate(req[q].snap, next)])
  /\ UNCHANGED <<states, policy, backends, checker>>

\* Mutant: the hit is looked up again in the router's current snapshot.
ScanRoundRobinByID(q) ==
  /\ req[q].pc = "scan"
  /\ policy # "cache_aware"
  /\ LET hit     == Head(req[q].todo)
         current == ByID(backends, states[hit].Endpoint.ID)
     IN  IF isSelectable(hit)
         THEN \E r \in IF current = {} THEN {hit} ELSE current :
                Goto(q, [req[q] EXCEPT !.pc = "match", !.todo = <<>>,
                                       !.target = r])
         ELSE IF Len(req[q].todo) = 1
              THEN Goto(q, Idle)
              ELSE Goto(q, [req[q] EXCEPT !.todo = Tail(@)])
  /\ UNCHANGED <<policy, backends, next, checker>>
  /\ Heap(states)

\* Round robin: the first selectable backend in turn order wins; without one
\* the request fails with ErrNoHealthyBackends.
ScanRoundRobin(q) ==
  /\ req[q].pc = "scan"
  /\ policy # "cache_aware"
  /\ IF isSelectable(Head(req[q].todo))
     THEN Goto(q, [req[q] EXCEPT !.pc = "match", !.todo = <<>>,
                                 !.target = Head(req[q].todo)])
     ELSE IF Len(req[q].todo) = 1
          THEN Goto(q, Idle)
          ELSE Goto(q, [req[q] EXCEPT !.todo = Tail(@)])
  /\ UNCHANGED <<policy, backends, next, checker>>
  /\ Heap(states)

\* Mutant: the best score starts at 0, and scores are negative.
ScanFromZero(q) ==
  /\ req[q].pc = "scan"
  /\ policy = "cache_aware"
  /\ req[q].todo # <<>>
  /\ \E keep \in BOOLEAN :
       Goto(q, [req[q] EXCEPT
                  !.todo = Tail(@),
                  !.target = IF isSelectable(Head(req[q].todo)) /\ ~keep
                             THEN Head(req[q].todo) ELSE @])
  /\ UNCHANGED <<states, policy, backends, next, checker>>

\* loadAwareFallback: every state is visited; a selectable one becomes the
\* fallback if it is the first (its score beats -Inf) or if it scores higher.
ScanLoadAware(q) ==
  /\ req[q].pc = "scan"
  /\ policy = "cache_aware"
  /\ req[q].todo # <<>>
  /\ \E keep \in BOOLEAN :
       /\ keep => req[q].target # NoRef
       /\ Goto(q, [req[q] EXCEPT
                     !.todo = Tail(@),
                     !.target = IF isSelectable(Head(req[q].todo)) /\ ~keep
                                THEN Head(req[q].todo) ELSE @])
  /\ UNCHANGED <<states, policy, backends, next, checker>>

\* The matcher answers with some set of IDs: of this snapshot, of an earlier
\* one, or of backends that are gone.
Match(q) ==
  /\ req[q].pc = "scan"
  /\ policy = "cache_aware"
  /\ req[q].todo = <<>>
  /\ \E cands \in SUBSET IDs :
       Goto(q, [req[q] EXCEPT !.pc = "match", !.cands = cands])
  /\ UNCHANGED <<states, policy, backends, next, checker>>

\* One candidate, in the map's random order: it replaces the selection if the
\* request's own snapshot maps its ID to a selectable state that scores
\* higher. A first selection scores higher than -Inf.
Candidate(q) ==
  /\ req[q].pc = "match"
  /\ \E id \in req[q].cands, keep \in BOOLEAN :
       LET seen == {r \in ByID(req[q].snap, id) : isSelectable(r)}
       IN  /\ keep => seen = {} \/ req[q].target # NoRef
           /\ ~keep => seen # {}
           /\ \E r \in IF keep THEN {req[q].target} ELSE seen :
                Goto(q, [req[q] EXCEPT !.cands = @ \ {id}, !.target = r])
  /\ UNCHANGED <<states, policy, backends, next, checker>>

\* No selectable backend in either pass: ErrNoHealthyBackends.
RejectUnhealthy(q) ==
  /\ req[q].pc = "match"
  /\ req[q].cands = {}
  /\ req[q].target = NoRef
  /\ Goto(q, Idle)
  /\ UNCHANGED <<policy, backends, next, checker>>
  /\ Heap(states)

\* selectAndReserveBackend: the counter of the chosen object goes up. From
\* here on the request holds the object and no longer the snapshot.
Reserve(q) ==
  /\ req[q].pc = "match"
  /\ req[q].cands = {}
  /\ req[q].target # NoRef
  /\ Goto(q, [Idle EXCEPT !.pc = "forward", !.target = req[q].target])
  /\ UNCHANGED <<policy, backends, next, checker>>
  /\ Heap([states EXCEPT ![req[q].target].Inflight = @ + 1])

\* Mutant: the release looks its backend up again, by ID.
ReleaseByID(q) ==
  /\ req[q].pc = "forward"
  /\ Goto(q, Idle)
  /\ UNCHANGED <<policy, backends, next, checker>>
  /\ LET current == ByID(backends, states[req[q].target].Endpoint.ID)
     IN  Heap([r \in Refs |-> IF r \in current
                             THEN [states[r] EXCEPT !.Inflight = @ - 1]
                             ELSE states[r]])

\* client.Forward returned or panicked; the deferred release runs either way.
Release(q) ==
  /\ req[q].pc = "forward"
  /\ Goto(q, Idle)
  /\ UNCHANGED <<policy, backends, next, checker>>
  /\ Heap([states EXCEPT ![req[q].target].Inflight = @ - 1])

-----------------------------------------------------------------------------
(* Discovery *)

\* The heap h with the endpoints eps[i], for i in new, allocated at list[i].
Allocate(h, eps, list, new) ==
  [r \in Refs |-> IF \E i \in new : list[i] = r
                  THEN NewBackendState(eps[CHOOSE i \in new : list[i] = r])
                  ELSE h[r]]

\* Mutant: every poll builds every state anew.
ExistingNever(e) == {}

\* The existing state an endpoint keeps: same ID and same URL.
Existing(e) == {r \in ByID(backends, e.ID) : states[r].Endpoint = e}

\* Mutant: the list is made with its length and then appended to, which
\* leaves nil pointers in front.
UpdateBackendsNil(eps) ==
  /\ Len(eps) > 0
  /\ \E r \in Refs \ Live :
       /\ backends' = [i \in 1..Len(eps) |-> NoRef] \o <<r>>
       /\ UNCHANGED <<policy, next, req, checker>>
       /\ Heap([states EXCEPT ![r] = NewBackendState(eps[1])])

\* discoverOnce with the list eps. Only this goroutine stores the snapshot and
\* the objects it allocates are reachable by nobody until the store, so the
\* whole of Router.UpdateBackends is one step. A failed Discover changes
\* nothing.
UpdateBackends(eps) ==
  LET fresh == {i \in DOMAIN eps : Existing(eps[i]) = {}}
  IN  \E list \in [1..Len(eps) -> Refs] :
        /\ \A i \in DOMAIN eps \ fresh : list[i] \in Existing(eps[i])
        /\ \A i \in fresh : list[i] \notin Live
        /\ \A i, j \in fresh : i # j => list[i] # list[j]
        /\ backends' = list
        /\ UNCHANGED <<policy, next, req, checker>>
        /\ Heap(Allocate(states, eps, list, fresh))

-----------------------------------------------------------------------------
(* Health checks *)

Resting == [pc |-> "idle", todo |-> <<>>, ok |-> FALSE]

\* A tick: checkBackendsHealth loads the snapshot it will walk.
StartRound ==
  /\ checker.pc = "idle"
  /\ backends # <<>>
  /\ checker' = [Resting EXCEPT !.pc = "probe", !.todo = backends]
  /\ UNCHANGED <<states, policy, backends, next, req>>

\* client.Health on the next state: within healthTimeout it is a status below
\* 300 or an error (another status, no connection, the timeout).
Probe ==
  /\ checker.pc = "probe"
  /\ \E ok \in BOOLEAN :
       checker' = [checker EXCEPT !.pc = "apply", !.ok = ok]
  /\ UNCHANGED <<states, policy, backends, next, req>>

\* Mutant: a failure is stored as 1 instead of added.
ApplyStoreOne ==
  LET r        == Head(checker.todo)
      failures == IF checker.ok THEN 0 ELSE 1
      healthy  == IF checker.ok THEN TRUE
                  ELSE states[r].Healthy /\ failures < Threshold
  IN  /\ checker.pc = "apply"
      /\ checker' = IF Len(checker.todo) = 1 THEN Resting
                    ELSE [pc |-> "probe", todo |-> Tail(checker.todo),
                          ok |-> FALSE]
      /\ UNCHANGED <<policy, backends, next, req>>
      /\ Heap([states EXCEPT ![r].Failures = failures, ![r].Healthy = healthy])

\* The answer is stored. Failures and Healthy are two atomics, but the health
\* goroutine is the only reader of Failures, so one step is enough. Failures
\* saturates at Threshold: the code only compares it with Threshold.
Apply ==
  LET r        == Head(checker.todo)
      failures == IF checker.ok THEN 0
                  ELSE IF states[r].Failures < Threshold
                       THEN states[r].Failures + 1 ELSE Threshold
      healthy  == IF checker.ok THEN TRUE
                  ELSE states[r].Healthy /\ failures < Threshold
  IN  /\ checker.pc = "apply"
      /\ checker' = IF Len(checker.todo) = 1 THEN Resting
                    ELSE [pc |-> "probe", todo |-> Tail(checker.todo),
                          ok |-> FALSE]
      /\ UNCHANGED <<policy, backends, next, req>>
      /\ Heap([states EXCEPT ![r].Failures = failures, ![r].Healthy = healthy])

-----------------------------------------------------------------------------
\* router.New: one state per configured endpoint. With discovery only, the
\* list is empty until the first UpdateBackends.
Init ==
  /\ \E eps \in Configured : \E list \in [1..Len(eps) -> Refs] :
       /\ \A i, j \in DOMAIN eps : i # j => list[i] # list[j]
       /\ backends = list
       /\ states = Allocate([r \in Refs |-> Freed], eps, list, DOMAIN eps)
  /\ policy \in Policies
  /\ next = 0
  /\ req = [q \in Requests |-> Idle]
  /\ checker = Resting

Select(q) ==
  \/ RejectBody(q) \/ TakeTurn(q) \/ ScanRoundRobin(q) \/ ScanLoadAware(q)
  \/ Match(q) \/ Candidate(q) \/ RejectUnhealthy(q) \/ Reserve(q)

CheckHealth == StartRound \/ Probe \/ Apply

Next ==
  \/ \E q \in Requests : LoadSnapshot(q) \/ Select(q) \/ Release(q)
  \/ \E eps \in Listings : UpdateBackends(eps)
  \/ CheckHealth

Spec == Init /\ [][Next]_vars

\* The health goroutine runs for the life of the process; nothing is assumed
\* of clients, backends and discovery.
FairSpec == Spec /\ WF_vars(CheckHealth)
-----------------------------------------------------------------------------
(* Properties *)

BackendState ==
  [Endpoint : Endpoint \cup {NoEndpoint}, Inflight : Int, Healthy : BOOLEAN,
   Failures : 0..Threshold]

Request ==
  [pc : {"idle", "loaded", "scan", "match", "forward"}, snap : Seq(Refs),
   todo : Seq(Refs), cands : SUBSET IDs, target : Refs \cup {NoRef}]

\* Every variable has the shape the code gives it.
TypeOK ==
  /\ states \in [Refs -> BackendState]
  /\ policy \in Policies
  /\ backends \in Seq(Refs)
  /\ next \in 0..(NextWrap - 1)
  /\ req \in [Requests -> Request]
  /\ checker \in [pc : {"idle", "probe", "apply"}, todo : Seq(Refs),
                  ok : BOOLEAN]

Holders(r) == {q \in Requests : req[q].pc = "forward" /\ req[q].target = r}

\* The Inflight counter of every BackendState, listed or not, is the number of
\* requests that reserved that very object and did not release it: neither
\* discovery replacing the object, nor an error or a panic in Forward, makes
\* the counter drift (selectAndReserveBackend and its deferred release).
InflightExact == \A r \in Refs : states[r].Inflight = Cardinality(Holders(r))

\* What a request has chosen so far is a state of the one snapshot it loaded,
\* however often discovery replaced the snapshot since (cacheAwareSelect gets
\* the snapshot as an argument and looks candidates up in its ByID).
SelectionFromOwnSnapshot ==
  \A q \in Requests :
    req[q].pc \in {"scan", "match"} =>
      req[q].target \in Elems(req[q].snap) \cup {NoRef}

\* The states the snapshot lists for an endpoint.
StatesOf(e) == {r \in Elems(backends) : states[r].Endpoint = e}

HealthyEndpoint(e) == \E r \in StatesOf(e) : states[r].Healthy

\* An endpoint that stays listed turns unhealthy only by Threshold failed
\* checks in a row: a discovery poll that lists it again keeps its state, with
\* its health, failures and in-flight count (UpdateBackends reuses existing
\* states; README "Consecutive failures before marking a backend unhealthy").
HealthLostOnlyByFailures ==
  [][\A e \in Endpoint :
       HealthyEndpoint(e) /\ StatesOf(e)' # {} /\ ~HealthyEndpoint(e)'
         => \A r \in StatesOf(e)' : states'[r].Failures = Threshold]_vars

\* Every answer the health goroutine gets from now on about e is ok.
Answers(e, ok) ==
  checker.pc = "apply" /\ states[Head(checker.todo)].Endpoint = e
    => checker.ok = ok

\* A backend that stays listed and passes its health checks becomes, and
\* stays, selectable, whatever discovery and the other backends do.
UpBackendBecomesHealthy ==
  \A e \in Endpoint :
    <>[](StatesOf(e) # {} /\ Answers(e, TRUE)) => <>[]HealthyEndpoint(e)

\* A backend that stays listed and fails its health checks is, from some time
\* on, never selectable.
DownBackendBecomesUnhealthy ==
  \A e \in Endpoint :
    <>[](StatesOf(e) # {} /\ Answers(e, FALSE)) => <>[]~HealthyEndpoint(e)
=============================================================================
