# TLA+ verification of k8s-vllm-router

The router is a reverse proxy in front of vLLM pods. It spreads
`/v1/completions` and `/v1/chat/completions` over the pods of a Service, round
robin or by a score of prefix affinity, in-flight requests, latency and errors.
This directory holds TLA+ modules of its algorithms and of the goroutines that
share its state, TLC configurations that check them on small instances, and
TLAPS proofs of the results that should hold for any number of requests,
backends and observers.

Source paths are below `src/`. `PROJECT.json` lists every run, mutant and
theorem, and maps each definition to the lines it models.

## 1. Inventory

| Component | Source | State | Operations |
|---|---|---|---|
| Backend pool | `internal/router/router.go`, `internal/backend/state.go` | `Router.backends` (atomic pointer to an immutable snapshot), `Router.next`, the `BackendState` objects (`Inflight`, `Healthy`, `ConsecutiveHealthFailures`, counters, averages) | `UpdateBackends`, `selectBackend`, `selectAndReserveBackend` and its release, `checkBackendsHealth` |
| Cache-aware scoring | `internal/router/cache_aware.go` | none | `cacheAwareSelect`, `loadAwareFallback`, `scoreBackend` |
| Prefix matcher | `internal/router/matcher.go`, `internal/config/expiry.go` | `sync.Map` of hashes to `sync.Map` of backend IDs to `*MatchEntry` | `CandidateMatches` (evicts), `Remember` |
| EWMA | `internal/ewma/ewma.go` | one atomic word | `Observe`, `Get` |
| Forwarding and accounting | `router.go` (`Forward`), `internal/backend/http.go`, `internal/api/handler.go` | the request's locals, the in-flight gauge, the error counters | `forward`, `Router.Forward`, `HTTPClient.Forward` |
| Health checks | `router.go`, `internal/backend/http.go` | `Healthy`, `ConsecutiveHealthFailures`, `router_backend_healthy`, the ticker | `StartHealthCheck`, `checkBackendsHealth`, `HTTPClient.Health` |
| Readiness | `handler.go`, `router.go` (`Ready`) | none | `GET /readyz` |
| Metrics recorder | `internal/metrics/metrics.go` | Prometheus series | `InitBackend`, increments and sets in the callers |
| Discovery | `internal/discovery/endpointslice.go`, `cmd/router/main.go` | none | `Discover`, the polling loop |
| Prompt text and fingerprints | `internal/router/model.go`, `internal/prefix/prefix.go` | none | `PrefixText`, `Fingerprints` |
| Configuration | `internal/config/config.go`, `expiry.go` | none | `FromEnv`, `parseBackends`, and the normalisation in `router.New` and `NewHTTPClient` |
| Process | `cmd/router/main.go` | the context that a signal cancels, the HTTP server and its open requests | start, discovery loop, signal, shutdown, exit |
| Mock backend | `cmd/mock-backend/main.go` | a prefix cache with a time to live, under a mutex | `simulate`, `Lookup`, `Remember`, plain and streamed completions |

How they interact. Three kinds of goroutine share the pool without a lock:
one per request, one for discovery (the only writer of the snapshot), one for
health checks (the only writer of `Healthy` and of the failure count). A
request loads the snapshot once, asks the matcher for candidates, chooses,
increments the counter of the *object* it chose, forwards, tells the averages
and, on success, the matcher, and gives the counter back in a deferred call.
Discovery builds a new snapshot and reuses the old objects of endpoints whose
ID and URL did not change. Metrics are kept by backend ID and written by all
three kinds, each write being atomic but no two of them together.

What is hard here, and the property that makes each component correct:

* **Pool.** The snapshot changes under a request, and an object can outlive
  the snapshot that listed it. Correct means that counters never drift
  (`InflightExact`), that a choice belongs to the snapshot it was made from
  (`SelectionFromOwnSnapshot`), that no request is refused although a backend
  was there all the time (`RefusedOnlyWithoutSteadyBackend`), that a poll costs
  nobody its health (`HealthLostOnlyByFailures`), and that verdicts of the
  health checks arrive (`UpBackendBecomesHealthy`,
  `DownBackendBecomesUnhealthy`).
* **Matcher.** Four separate operations make a record, and a lookup deletes
  while it ranges. Correct means that candidates are never made up
  (`CandidatesGenuine`), that complete records are only lost to lookups that
  delete them (`RecordsKept`), and that undisturbed calls are exact
  (`AnswerExact`, `LoneCallsImplementTable`).
* **EWMA.** A compare-and-swap loop: no sample lost (`ImplementsAtomic`), and
  no livelock (`LockFree`).
* **Forwarding.** Three places may write an answer, and a panic skips the
  accounting: exactly one answer (`OneAnswer`), errors counted
  (`ErrorsCounted`), a gauge whose error neither adds up
  (`GaugeBounded`) nor outlives the contention (`GaugeRepaired`).
* **Health checks.** Sequential probes on a lossy ticker, and a metric written
  by two goroutines: bounded delays (`DetectionBounded`, `RecoveryBounded`) and
  a series that becomes right (`GaugeRightAfterThreshold`, `GaugeConverges`).
* **Process.** The probes' context dies with the signal, before the requests do:
  few failures may be counted of backends that nobody asked
  (`ShutdownFailuresBounded`), and nothing that hangs keeps the process
  (`SignalEndsProcess`).
* **Pure functions.** Readiness under one budget (`ReadyExactly`), the best
  score wins (`SelectedIsBest`), cold requests rotate (`ColdSelectionsRotate`),
  every serving endpoint is listed once (`DiscoverExact`,
  `ListingNamesPodOnce`), a growing conversation keeps its fingerprints
  (`TurnsSharePrefix`, `PrintsBounded`), `BACKENDS` gives the backends it lists
  (`StaticBackendsParsed`), a router that serves has usable settings
  (`ServesWithUsableSettings`).
* **Mock backend.** Its cache is right whatever requests overlap
  (`MockLookupExact`), it has what the router predicts (`ContinuationHits`), and
  a hit pays (`WarmSlowerOnlyAtCap`).

`PROJECT.json` lists the hazards behind these properties, each at its line.

## 2. Modules

| Module | Models | How |
|---|---|---|
| `BackendPool` | the pool | Objects are a heap `states` indexed by `Refs`; what nobody can reach is reset and reused, as a collector does. `backends` is the list of the current snapshot. Each read of the snapshot pointer, of `next` and of one `Healthy` flag is a step; `UpdateBackends` is one step, because its objects are private until the pointer is stored. Scores are a free choice: any order of scores can occur. |
| `PoolHistory` | `BackendPool` with a history variable | For each request in selection, the states that were selectable all the time. |
| `Selection` | the cache-aware choice as a function | The real weights (in half points), for a snapshot at rest. |
| `Matcher` | the prefix matcher | One step per `sync.Map` operation and per atomic load or store; entries are a heap. Time 0 is the epoch an entry has before its time is stored. |
| `MatcherHistory` | `Matcher` with history variables | What was recorded when, what each lookup asked for, which calls nobody overlapped. |
| `PrefixTable` | abstract specification of the matcher | A table of times; a time is forgotten only when it is too old. |
| `Ewma`, `AtomicEwma` | the average and its abstract specification | Load, compute, compare-and-swap, retry; the abstract one blends in one step. |
| `Forwarding` | a request after selection | Every write to the gauge, the counter and the response, for one backend ID; `client.Forward` has its four outcomes (copied, bad URL, proxy error, response broken off). |
| `ForwardingHistory` | `Forwarding` with history variables | Errors returned, panics, requests that had the gauge to themselves. |
| `HealthGauge` | `router_backend_healthy` of one ID | Discovery's reset before the store, and the check's write after its verdict. |
| `HealthTiming` | the process against the clock | The health goroutine with its `select`, a ticker that holds one tick, sequential probes under two timeouts; discovery, which replaces states in the middle of a round; the signal, which cancels the probe in flight and every later one; the grace period of `srv.Shutdown`, and the exit. `round` is the goroutine's program counter and its locals; `stale` are the states it still holds although they are no longer listed. |
| `Readiness`, `Discovery`, `Prefix` | functions without shared state | Operators; see their headers for what is abstracted. |
| `Config` | environment to running router | `FromEnv`, `parseBackends` over token sequences, `New`, and in `Outcome` the ways `main` can fail before it serves. |
| `MockBackend` | the stand-in for a pod | The cache as a function from hashes to times, `Lookup` and `Remember` on it, and the sleeps of a completion. |
| `Algorithms` | the six function modules together | `kind` says which input is being built, one element per step, so that invariants range over every small input. |
| `MC*` | instances for TLC | Listings, lengths, inputs, symmetry sets. |
| `BackendPool_proofs`, `Matcher_proofs`, `Ewma_proofs`, `Forwarding_proofs`, `HealthGauge_proofs`, `HealthTiming_proofs`, `Algorithms_proofs` | theorems | Section 4. |
| `Induction` | nothing of the program | Lemmas on induction, iteration, sums, folds and turns that the proofs share. |

The modules divide one program, and they meet in named places. `Reserve` and
`Release` of `BackendPool` are refined into `Reserve`, `IncGauge`,
`LoadInflight`, `SetGauge` and `Release`, `DecGauge` of `Forwarding`. `Match` of
`BackendPool` allows any answer of `Matcher`. `Apply` of `BackendPool` is
`Pass`/`Fail` of `HealthGauge` and `EndProbe` of `HealthTiming`. `Listings` of
`BackendPool` are results of `Discover`, and its assumption that a listing names
an ID once (`UniqueIDs` in `BackendPool_proofs`) is what `ListingNamesPodOnce` reduces to
the cluster. `Prints`, `Length` and `Prompts` of `Matcher` are
results of `Fingerprints`. `BoundsAssumption` of `HealthTiming` is what
`ServesWithUsableSettings` checks of `Config`. `MockBackend` extends `Prefix`,
whose fingerprints it takes of another text, and `ContinuationHits` puts the two
texts side by side.

In several modules a definition preceded by a comment "Mutant" is a plausible
bug of the definition below it. No behaviour uses it; it is there to show that
the property named in `PROJECT.json` would notice.

## 3. Runs

| Run | Question | Instance |
|---|---|---|
| `pool_objects` | Types, in-flight counters, own snapshot, under either policy | 2 requests, 3 objects, 2 pods, one moves, the fleet may vanish, threshold 1 |
| `pool_selection` | No refusal of a steady backend, health lost only by failures, under either policy | 1 request, 4 objects, 2 pods, one moves, threshold 2 |
| `pool_liveness` | Verdicts about a listed pod arrive for good | 1 request, 3 objects, threshold 2, fairness |
| `matcher` | Genuine candidates, records that stay, exact answers, refinement of the table | 2 callers, 2 nested prefixes, 4 entries, 4 times, maximum age 2 |
| `ewma` | Range, refinement of the atomic average, lock-freedom | 3 observers, samples 0 and 1.0 in twentieths |
| `forwarding` | One answer, exact counters, a gauge whose error is bounded and repaired | 3 requests at once, 4 in all, 2 replacements, all outcomes |
| `health_gauge` | The series is right after `Threshold` checks, and for good | 3 objects of one ID, threshold 3 |
| `health_timing` | Worst-case delay of a verdict, what a shutdown does to health, and that it ends | 2 backends that come, go and move, interval 3, timeouts 3 (configured) and 2 (of the client), threshold 2, grace period 3, 1 open request |
| `algorithms` | The functions on every small input | 3 elements; 2 slices with 2 endpoints in all, of 1 or 2 addresses; 5 tokens of `BACKENDS`, 3 of `BACKEND_HEALTH_PATH`; 3 calls of the cache |
| `pool_dual_stack` | *violation*: a pod with two addresses | 1 request, 3 objects |
| `forwarding_broken_stream` | *violation*: responses that break off | 1 request |
| `readiness_budget` | *violation*: backends that use up the budget in front of a healthy one | as `algorithms` |

### Why the bounds are enough

* *Objects.* A request holds one object and one snapshot, the health round
  another snapshot, the router a third. Three objects for two pods let an ID
  have a listed object, a replaced one that somebody still holds, and a new
  one; four let this happen to both pods.
* *Requests.* The pool's requests meet only in `next` and the counters, which
  two requests exercise; the counters are proved for any number. A scan and its
  candidates read only the request's own snapshot, so one request and a changing
  world are enough for `pool_selection`.
* *Threshold.* 1 makes every failure count, 2 tells the first failure from the
  last.
* *`NextWrap`.* The counter is reduced modulo a multiple of every list length,
  so a start index cannot tell.
* *Matcher.* Two callers make every pair of operations race; two prefixes, one
  extending the other, give a backend two matches to choose from; the clock has
  one unit more than an entry needs to expire and be renewed. The maximum age is
  positive and the policy is `decay` with exponential warmth, the defaults.
* *EWMA.* Three observers are needed for one that is overtaken by two. Fixed
  point rounds down; the proofs need only that a blend stays between its
  arguments' bounds.
* *Forwarding.* Three requests can be between reading the counter and setting
  the gauge while discovery resets it; a fourth arrival comes after them and
  finds what they left. `MaxArrivals` and `MaxReplacements` bound the run.
* *HealthTiming.* Two backends let one delay the other; two failures tell the
  first from the last; the interval is longer than one probe and shorter than
  two, so that ticks are dropped; the configured timeout is longer than the
  client's, which cuts it short, so that only a model that takes the shorter of
  the two has the delays of `DetectionBounded` and `RecoveryBounded`. A full
  channel, a tick that is due and a round under way can all be there at the
  signal, and give the three unasked failures of `MaxUnasked`, which are reached.
  `since` and `unasked` are capped one above the bound they are compared with.
  One open request is enough to hold the shutdown to its deadline.
* *Algorithms.* Three states have a first, a middle and a last one with or
  without a repeated ID; a budget of 3 is spent in one, two or three probes; a
  text limit of 4 cuts the text inside a word, between words and after the end.
  Five tokens hold two entries with a sign, or one with space and slashes around
  it. Three calls are a record, one that overtakes it and a lookup that deletes;
  times to live are none, shorter and longer than the time between calls. The
  paths have up to three tokens, so that none, one and several slashes come first.
  Each of the four numbers of the environment is absent, negative, zero or positive.

`CHECK_DEADLOCK FALSE` is set where a bound ends the run: the clock of
`matcher`, `MaxArrivals` of `forwarding`, the longest inputs of `algorithms`
(and of the violation runs on the same modules); and in `health_timing`,
whose process really ends. Everywhere else TLC checks
that some step is always possible.

### Fairness

`BackendPool` and `HealthGauge` assume weak fairness of the health goroutine
(`CheckHealth`): it is started once, loops on a ticker until the process ends,
and each of its probes has a timeout. `Ewma` assumes weak fairness of every
goroutine inside `Observe`, which never blocks. `HealthTiming` assumes weak
fairness of the health goroutine, of the clock (`Tick`, `Elapse`) and of `main`
when `Shutdown` can return (`Exit`): the scheduler runs what is ready, and time
passes when nothing is. Only `SignalEndsProcess` uses it; the delays are
invariants, because time stands still while the health goroutine has something
to do. Nothing is assumed of clients, open requests, backends, discovery or the
order of requests.

### Findings

Each is a run that violates a sentence of the repository.

* `pool_dual_stack` (`state.go:66`). Two endpoints with one ID share one key of
  `ByID`; every poll builds one of the two states anew, unhealthy without a
  failed check, against "Consecutive failures before marking a backend
  unhealthy." (`README.md:104`).
* `forwarding_broken_stream` (`router.go:119`). A response that breaks off makes
  `ReverseProxy` panic; `BackendErrors.Inc` is skipped, against "Total backend
  forwarding errors by backend." (`metrics.go:46`).
* `readiness_budget` (`router.go:98`). All probes of `/readyz` share two seconds;
  what the backends in front take of them is missing for the ones behind, so a
  backend that alone would answer in time is not waited for, against "returns
  ready when at least one backend is healthy" (`README.md:68`).

### Observations without a run

Things the models show, or that were met while modelling, which contradict a
reasonable expectation rather than a checked property:

* A pod that misses one poll comes back with a new object; requests still served
  by the old one are not in its score.
* The in-flight gauge can be wrong with no request in flight, because
  `Set(Inflight.Load())` is not atomic with other requests' `Inc` and `Dec`. It
  stays wrong until a request has the backend to itself (`GaugeRepaired`).
* A backend that is removed keeps its last `router_backend_healthy` value.
* A lookup that has read an expired time can delete an entry that a record has
  renewed in between, and a record that overlaps such a delete can be lost
  (`RecordsKept` says that a record is lost in no other way).
* `BACKEND_HEALTH_TIMEOUT` above 5 s has no effect: the `http.Client` has a
  timeout of its own (`http.go:26`). `up` in `HealthTiming` therefore means an
  answer within the shorter of the two, and a backend that needs longer than 5 s
  is down, whatever was configured.
* Prompts are cut at 1024 bytes, so a print has at most 512 words
  (`PrintsBounded`) and the length 1024 of `PrefixLengths` is never used.
* Contents of a conversation are joined with nothing between them. A print that
  ends with the last word of one turn may be lost in the next
  (the exception in `TurnsSharePrefix`).
* With `EXPIRY_POLICY=none`, an entry whose time is not stored yet can become a
  candidate with an age counted from the epoch.
* `BACKENDS` is parsed also when discovery is configured (`config.go:43`), where
  `README.md:96` says "Ignored when dynamic discovery is configured.": the router
  starts with what it lists and keeps it until discovery stores a first listing.
  `StaticBackendsParsed` speaks only of a router without a service.
* A signal cancels the context of the probes, not only the loop: a probe that is
  cut off, a tick that waits and one that is just due can add up to three
  failures to a backend nobody asked. With the default threshold of 3 the whole
  fleet can turn unhealthy during the grace period, and a request whose body is
  still being read at the signal, which selects afterwards, is refused.
* `HEALTH_CHECK_INTERVAL` or `DISCOVERY_INTERVAL` of zero or less ends the process
  in a panic of `time.NewTicker`; `BACKEND_HEALTH_TIMEOUT` and the threshold get
  their defaults in that case (`Outcome`, `New`).
* `BACKENDS` of separators alone gives no backend and no default. `a=u /` gives a
  URL that ends with a space, because slashes are trimmed last.
* The defaults of `PREFIX_MAX_AGE` and `DECAY_HALF_LIFE` in `expiry.go` are 1800
  and 30 minutes; `README.md:106` and `README.md:109` say `180` and `90s`, which
  is what the manifest sets.
* `/readyz` probes the backends itself and does not read `Healthy`: it can say
  ready before a first health round has made any backend selectable.
* The mock backend looks up and records in two critical sections, so two equal
  requests at the same time are both cold.
* `MOCK_MAX_SLEEP` bounds a plain completion, but a stream only until its first
  token: afterwards the whole decode delay follows. If it cuts the cold run before
  the first token, the stream of a warm run can take longer
  (the exception in `WarmSlowerOnlyAtCap`).

## 4. Proofs

All proofs are checked by TLAPS down to the leaves; the assumptions are the
`ASSUME`s of the constants, which TLC evaluates in the runs, and the hypotheses
named below. Every safety invariant and action property of the passing runs is
a theorem, for every value of the constants; liveness is not (see the end of
this section).

* **`BackendPool_proofs`.** `TypeOK`, `SelectionFromOwnSnapshot` and
  `InflightExact` are invariants for any finite set of requests, any heap,
  any listings and both policies. No conjunct is inductive alone: `InflightExact`
  needs that a request that forwards holds an object (`ControlState`, a lemma-part
  of the invariant that says where each goroutine can be and is no property), else its
  decrement would hit nothing; `ControlState` needs that a selection comes from
  the snapshot (`SelectionFromOwnSnapshot`), else a reservation could have no
  object; and all need the types of the heap. So
  `IInv == TypeOK /\ ControlState /\ SelectionFromOwnSnapshot /\ InflightExact`
  is proved inductive, one step per action. The heart of `InflightExact` is that
  the collector resets only objects nobody holds: a holder keeps its object in
  `Live`.
  `HealthKept` (`HealthLostOnlyByFailures`) has the hypothesis `UniqueIDs`, that
  no listing names an ID twice; without it the property is false, as
  `pool_dual_stack` shows, and `PodsListedOnce` below reduces it to the cluster.
  `RefusalJustified` (`RefusedOnlyWithoutSteadyBackend`) adds `Attentive`: the
  states that were selectable since the request loaded its snapshot are healthy
  and, unless it has found a target, all among those it has still to read. When
  nothing is left to read and there is no target, there are none.
* **`Matcher_proofs`.** `TypeOK` and `CandidatesGenuine` for any callers, prints,
  entries and clock. A candidate is genuine because the time in an entry was
  recorded for the one place in the table the entry is for (`TimesRecorded`,
  `OneOwner`, and `FreeReset` for entries that are used again), and because the
  matches of a lookup came from such entries (`MatchesFromEntries`).
  `CandidatesNeverMadeUp` has the hypothesis `Expires`, that the policy is not
  `none` and the maximum age is positive: otherwise an entry whose time is not
  stored yet counts (section 3, Observations). `CompleteRecordsKept`
  (`RecordsKept`) needs no such hypothesis: a place whose record is complete has an
  entry with a time (`PlacesFilled`), which every step keeps except the deletion
  of its key, because `LoadOrStore` leaves an entry that is there alone and `Link`
  stores one whose time is stored. For calls that nobody overlaps,
  `LoneInv` says that nobody has changed the table behind the call's back
  (`LoneUndisturbed`), that no entry in the table is without a time
  (`TouchPending`), and that the lookup has the warmest of the prefixes it is
  done with (`WarmestSoFar`). From it follow `LoneAnswersExact` (`AnswerExact`)
  and, step by step, the refinement of `PrefixTable`, `LoneCallsAreTable`
  (`LoneCallsImplementTable`).
* **`Ewma_proofs`.** `TypeOK`: a weighted mean of two numbers in `0..Top` is in
  `0..Top`, for every weight and scale. `ImplementsAtomic`: an observer about to
  swap carries `Blend(old, value)`; when the comparison succeeds `old` is the
  current word, so the swap is the atomic blend and every other step stutters.
* **`Forwarding_proofs`.** `OneAnswer` from an invariant that ties `answers` to
  the program counter, `err` and `written`. `GaugeBounded` for any number of
  requests, its *error*: the gauge moves along with the number of requests that
  have incremented and not decremented, except where `SetGauge` sets it to a value
  that was read (`LoadSmall` bounds it by the number of requests) or discovery to
  0, and each of these leaves an error within the bound. `TypeOK` needs both. `LoneRequestRepairsGauge` (`GaugeRepaired`): a
  request that nobody writes the gauge along with is the only holder of its
  object, so it reads 1 and writes 1 (`LoneWriter`). `ErrorsCountedOnce`
  (`ErrorsCounted`): the series and the requests that are about to count an error
  are together the failed forwards, and the series is the sum over the objects
  the ID ever had (`Tally`).
* **`HealthGauge_proofs`.** `TypeOK` and `GaugeRightAfterThreshold` for every
  threshold, from an invariant that says what the checker's pending write and the
  number of completed checks imply for the listed state and the series.
* **`HealthTiming_proofs`.** `TypeOK` and `ShutdownFailuresBounded` for any number
  of backends and any settings. The bound is not inductive: the invariant adds to
  the failures already counted those still to come, one from the round under way
  (`FromRound`), one for a tick in the channel (`FromChannel`) and one for a tick
  that is due (`FromTicker`). After the signal every step only moves a failure
  from one place to the next, because no time passes before the loop has left its
  `select`, so that no further tick becomes due.
  `DetectionBounded` and `RecoveryBounded` likewise: `OnTime(k)` says how much
  time can still pass until a round has started that stores a true verdict, from
  what is left of the round under way and of the tick (`Rem`, `NextTick`), so that
  it comes within `k` periods of the news. `ToldUp` and `ToldDown` say for which
  `k` this holds: one period for a recovery, one more for every failure that is
  stored. Both hold whichever of the two timeouts is shorter, because the models
  speak of the shorter one only.
* **`Algorithms_proofs`.** The properties of the functions, for every value of the
  constants that `InputsAssumption` and the assumptions of the modules it extends
  allow. The longest inputs, the numbers of
  slices, endpoints and addresses, the sets of prompts, conditions, port lists,
  paths, delays, settings and token limits are such constants; what is fixed is
  the shape of an input, as `Next` builds it: that addresses of an endpoint
  differ, that a text has letters and one kind of separator, that the environment
  has four numbers, that hashes are injective. What the proofs share is that the
  inputs are typed (`InputTyped`) and that a fold over a sequence is a walk through its
  prefixes (`WordSteps`, `CacheSteps`, `SplitSteps`, `FlattenSteps`, ...), over
  which an invariant is carried:
  - `ReadinessExact`: the time spent so far is the sum of the delays.
  - `SelectionBest` (for finite `IDs`, as every map of candidates is) and
    `ColdSelectionsTakeTurns`: the best so far of the states seen, and for the
    fallback that turns modulo the number of states come to each one.
  - `PrintsWithinLimit`, `TurnsKeepPrints`, `RouterNotTooHopeful`: the words of a
    text are found by a scan that a longer text only continues. The last has the
    hypothesis `PrefixLengths \subseteq cachePrefixLengths`, which the two lists
    in the code satisfy.
  - `MockCacheExact`: after `k` calls the cache has only times that were recorded
    and every one that is still young at the latest time any call has read. While
    no call overtakes another, the lookup's own time is the latest one, and the
    two bounds meet (`TimeGoesOn`).
  - `DiscoveryExact`: the listing numbers the places in the slices, each once
    (`Numbers`), so it is as long as they are many, and each endpoint has the
    identity and the first port of its place (`PartIs`). `PodsListedOnce`: two
    numbers with one ID are two places that carry it.
  - `BackendsParsed`: after `k` tokens the last part is blank unless an entry is
    open, and as many parts say something as entries have begun (`Parsed`); then
    one endpoint for each part that says something. The path of a probe starts
    with one slash, or with those it was written with.
  - `HitsPayOff`, `SettingsUsable`: arithmetic, and cases on the four numbers
    of the environment.
* **`Induction`.** The lemmas these proofs rest on. The induction theorems of the
  library take an operator, which the provers cannot instantiate;
  `SetInduction` states induction over the numbers for a *set*. From it follow
  that functions defined by iteration exist (`IterationExists`), that a finite
  sum follows a change of one summand (`SumUpdated`), that a fold of the community
  modules exists and goes prefix by prefix (`SolutionExists`, `FoldedExists`),
  and that turns modulo a length come round (`TurnComes`). So what a fold
  computes can be proved for every input, where the module writes it as a fold
  or as a recursive function.

Only model-checked: liveness under fairness (`UpBackendBecomesHealthy`,
`DownBackendBecomesUnhealthy`, `LockFree`, `GaugeConverges`,
`SignalEndsProcess`), which needs `ENABLED` and which the prover does not reach.
Not proved either, because they are false, are the sentences of the three
violation runs.

## 5. Not modelled

* Benchmarks, manifests, dashboards and scripts: no state of the router.
* Overflow of durations: `PREFIX_MAX_AGE` above 2^63 nanoseconds wraps, as would a
  `max_tokens` of more than 10^12 in the mock backend. The models' numbers are
  small; `Matcher` allows every value the wrap can give.
* The time between polls of discovery: `UpdateBackends` can come at any moment.
* Prometheus, `net/http`, `httputil.ReverseProxy`, the Kubernetes client: only
  what the router's code relies on.
* Counters and histograms that nothing reads.
* Floating point: the averages and warmths are fixed point, and scores with
  ties that only rounding decides are not told apart.

## 6. Plan

Written so far, in this order: `BackendPool` and its proofs, `Matcher`, `Ewma`,
`Forwarding`, `HealthGauge`, `HealthTiming`, the function modules, `HealthTiming`
once more as the whole process, `Config`, `MockBackend`.

Left to model: the success path of `Forward` composed with `Matcher` and `Ewma`,
that is, what a request that overlaps its own eviction leaves behind.

Proved, in this order: `BackendPool`, `Ewma`, `OneAnswer` and `GaugeBounded`,
`HealthGauge`, the shutdown of `HealthTiming`; then `Matcher`, the histories of
`Forwarding` and of the pool, the delays of `HealthTiming`, and the functions.

Left to prove:

1. The refinement of `BackendPool`'s reservation by `Forwarding`: both prove that
   a counter is the number of holders, but no theorem maps one to the other.
2. That `GaugeRight` and `DetectionInTime` fit together, as one statement about
   the series after a backend went down.
