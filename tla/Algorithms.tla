----------------------------- MODULE Algorithms -----------------------------
(***************************************************************************)
(* The functions without shared state, each on every small input. An input *)
(* of one kind is built one element at a time: a step stands for a longer  *)
(* input, not for a step of the program.                                   *)
(***************************************************************************)
EXTENDS Readiness, Selection, Discovery, MockBackend, Config

CONSTANTS
  MaxLength,    \* elements of an input of one of the other kinds
  MaxSlices,    \* that the API server lists
  MaxEndpoints, \* in all of them
  MaxAddresses, \* of an endpoint
  MaxTokens,    \* of BACKENDS
  Warmths,      \* of a candidate, in tokens
  PortLists,    \* port lists a slice can have
  PortNames,    \* values of DISCOVERY_PORT_NAME
  Statuses,     \* conditions an endpoint can have
  Contents,     \* of a message
  Paths,        \* values of BACKEND_HEALTH_PATH
  Quantities,   \* that a setting in the environment can have
  Prompts,      \* that the mock backend is asked
  Delays,       \* between the clock readings of its calls
  TTLs,         \* values of MOCK_CACHE_TTL
  Latencies,    \* values of the other MOCK_ durations
  TokenLimits   \* values of max_tokens

Tokens == Separators \cup {"text"}

ASSUME InputsAssumption ==
  /\ {MaxLength, MaxSlices, MaxEndpoints, MaxAddresses, MaxTokens} \subseteq Nat
  /\ Warmths \subseteq Nat
  /\ PortLists \subseteq Seq([Name : STRING, Port : STRING])
  /\ Statuses \subseteq Conditions
  /\ Contents \subseteq Seq(Letters \cup {Space})
  /\ Paths \subseteq Seq(Tokens)
  /\ Quantities \subseteq Int
  /\ Prompts \subseteq Seq(Letters \cup {Space})
  /\ Delays \subseteq Int /\ TTLs \subseteq Int
  /\ Latencies \subseteq Latency /\ TokenLimits \subseteq Int

VARIABLES kind, input

vars == <<kind, input>>

Given(k) == IF kind = k THEN input ELSE <<>>

probed   == Given("probed")   \* what Ready finds behind the states it asks
fleet    == Given("fleet")    \* the snapshot a selection loads
slices   == Given("slices")   \* what the API server lists
messages == Given("messages") \* the contents of a request
raw      == Given("raw")      \* BACKENDS
settings == Given("settings") \* the numbers in the environment, see env
calls    == Given("calls")    \* of the mock backend's cache

\* At least one address, and none twice.
Endpoint ==
  [Conditions : Statuses, Pod : Pods \cup {NoPod},
   Addresses : {s \in BoundedSeq(Addresses, MaxAddresses) :
                  s # <<>> /\ IsInjective(s)}]

\* The calls in the order in which they get the lock. later is how much later
\* than the call before a call has read the clock: calls can overtake.
Call == [op : {"Lookup", "Remember"}, prompt : Prompts, later : Delays]

Names == <<"HEALTH_CHECK_INTERVAL", "BACKEND_HEALTH_TIMEOUT",
           "BACKEND_HEALTH_FAILURE_THRESHOLD", "DISCOVERY_INTERVAL">>

Init ==
  /\ kind \in {"probed", "fleet", "slices", "messages", "raw", "settings",
              "calls"}
  /\ input = <<>>

Add(k, max, x) ==
  /\ kind = k /\ Len(input) < max
  /\ input' = Append(input, x)
  /\ UNCHANGED kind

EndpointCount ==
  FoldLeft(LAMBDA n, slice : n + Len(slice.Endpoints), 0, slices)

AddEndpoint(ep) ==
  /\ slices # <<>> /\ EndpointCount < MaxEndpoints
  /\ input' = [slices EXCEPT ![Len(slices)].Endpoints = Append(@, ep)]
  /\ UNCHANGED kind

Next ==
  \/ \E b \in Behaviour : Add("probed", MaxLength, b)
  \/ \E s \in State : Add("fleet", MaxLength, s)
  \/ \E ports \in PortLists :
       Add("slices", MaxSlices, [Ports |-> ports, Endpoints |-> <<>>])
  \/ \E ep \in Endpoint : AddEndpoint(ep)
  \/ \E m \in Contents : Add("messages", MaxLength, m)
  \/ \E t \in Tokens : Add("raw", MaxTokens, t)
  \/ \E v \in {{}} \cup {{n} : n \in Quantities} : Add("settings", Len(Names), v)
  \/ \E c \in Call : Add("calls", MaxLength, c)

Spec == Init /\ [][Next]_vars

-----------------------------------------------------------------------------
\* Readiness.

\* The time until the i-th backend has been asked, if none before it is ready.
AskedBy(i) == FoldLeft(LAMBDA t, b : t + b.delay, 0, SubSeq(probed, 1, i))

\* GET /readyz says ready exactly if some backend answers below 300 before the
\* delays of the ones in front of it and its own use up the budget that all
\* of them share.
ReadyExactly ==
  Ready(probed) <=>
    \E i \in DOMAIN probed : probed[i].ok /\ AskedBy(i) < Budget

\* What README.md:68 says: "ready when at least one backend is healthy", for
\* a backend that, asked alone, answers in time.
ReadyIfAnyHealthy ==
  (\E i \in DOMAIN probed : Ready(<<probed[i]>>)) => Ready(probed)

-----------------------------------------------------------------------------
\* Selection.

Starts == 0..MaxLength

\* What a selection may take: every selectable state cold, and those the
\* matcher names, each with its warmth.
Offers(warmth, named) ==
  {<<i, 0>> : i \in {j \in DOMAIN fleet : fleet[j].Healthy}} \cup
  {<<ByID(fleet, id), warmth[id]>> :
     id \in {n \in named : /\ ByID(fleet, n) # 0
                           /\ fleet[ByID(fleet, n)].Healthy}}

\* cacheAwareSelect gives nil only if nothing is selectable, and otherwise a
\* state with the best score there is, wherever the scan starts and in
\* whatever order the map of candidates is ranged over.
SelectedIsBest ==
  kind = "fleet" => \A start \in Starts, warmth \in [IDs -> Warmths], named \in SUBSET IDs :
    LET offers == Offers(warmth, named)
        score(o) == scoreBackend(fleet[o[1]], o[2])
    IN  \A order \in SetToSeqs(named) :
          LET at == cacheAwareSelect(fleet, start, warmth, order)
          IN  IF offers = {} THEN at = 0
              ELSE \E o \in offers :
                     o[1] = at /\ \A p \in offers : score(o) >= score(p)

\* Selections that find no candidates and equal loads take turns: over as many
\* requests in a row as there are states, each selectable state is chosen
\* (TestCacheAwareColdSelectionsRotateAcrossBackends, unhealthy ones added).
ColdSelectionsRotate ==
  (\A i, j \in DOMAIN fleet : fleet[i].Load = fleet[j].Load) =>
    \A first \in Starts :
      {loadAwareFallback(fleet, first + k).at : k \in 0..Len(fleet) - 1} \ {0}
        = {i \in DOMAIN fleet : fleet[i].Healthy}

-----------------------------------------------------------------------------
\* Discovery.

InService(c) ==
  /\ c.Terminating # "true"
  /\ c.Serving = "true" \/ (c.Serving = "nil" /\ c.Ready # "false")

\* The places of the addresses in the slices: slice, endpoint, address.
Slots ==
  UNION {UNION {{<<i, k, n>> : n \in DOMAIN slices[i].Endpoints[k].Addresses} :
                k \in DOMAIN slices[i].Endpoints} : i \in DOMAIN slices}

\* Those that should be listed.
Places(portName) ==
  {p \in Slots :
     /\ \E port \in Range(slices[p[1]].Ports) :
          port.Port # "nil" /\ portName \in {"", port.Name}
     /\ InService(slices[p[1]].Endpoints[p[2]].Conditions)}

At(p) == slices[p[1]].Endpoints[p[2]].Addresses[p[3]]

\* The listed endpoint that a place should have: the pod's name if there is
\* one and otherwise the address, and the slice's first port that fits.
ListedFor(p, e, portName) ==
  LET slice   == slices[p[1]]
      pod     == slice.Endpoints[p[2]].Pod
      fits(j) == slice.Ports[j].Port # "nil" /\ portName \in {"", slice.Ports[j].Name}
  IN  /\ pod \in Pods => e.ID = pod
      /\ pod = NoPod => e.ID = At(p)
      /\ e.URL[1] = At(p)
      /\ \E j \in DOMAIN slice.Ports :
           /\ fits(j) /\ e.URL[2] = slice.Ports[j].Port
           /\ \A i \in 1..j - 1 : ~fits(i)

\* Discover lists every address of every endpoint in service once, under the
\* pod's name if it has one and otherwise under the address, and on the first
\* port of its own slice with the configured name; nothing else is listed.
DiscoverExact ==
  \A portName \in PortNames :
    LET listing == Discover(slices, portName)
    IN  \E f \in Bijection(Places(portName), DOMAIN listing) :
          \A p \in Places(portName) : ListedFor(p, listing[f[p]], portName)

\* The endpoints that carry an ID: a pod's name, or an address without one.
Carriers(id) ==
  {p \in Slots : endpointID(slices[p[1]].Endpoints[p[2]], At(p)) = id}

\* An ID is listed twice only if the cluster has two addresses for it: what
\* BackendPool's snapshot needs to keep the health of its states (its map by
\* ID has one state for each) is then up to the cluster, not to Discover.
ListingNamesPodOnce ==
  \A portName \in PortNames :
    LET listing == Discover(slices, portName)
    IN  \A i, j \in DOMAIN listing :
          i # j /\ listing[i].ID = listing[j].ID =>
            Cardinality(Carriers(listing[i].ID)) > 1

-----------------------------------------------------------------------------
\* Fingerprints.

Prints(ms) == Fingerprints(PrefixText(ms), PrefixLengths)

\* A conversation keeps its fingerprints as it grows, so that its next turn
\* finds the backend of the last one. The exception is a print that takes in
\* the last word, which the next message may continue: PrefixText puts nothing
\* between the contents.
TurnsSharePrefix ==
  \A m \in Contents : \A p \in Prints(messages) :
    p.Length < Len(words(PrefixText(messages))) =>
      p \in Prints(Append(messages, m))

\* No print is longer than half the limit: a text of MAX_PREFIX_LENGTH bytes
\* has no more words. With the 1024 of the code the length of 1024 words in
\* PrefixLengths is never used.
PrintsBounded ==
  \A p \in Prints(messages) : 2 * p.Length - 1 <= MAX_PREFIX_LENGTH
-----------------------------------------------------------------------------
\* Configuration.

\* Where the entries of BACKENDS start.
Entries ==
  {i \in DOMAIN raw :
     /\ raw[i] \notin {",", " "}
     /\ \A j \in 1..i - 1 :
          raw[j] # " " => \E k \in j..i - 1 : raw[k] = ","}

Slashes(n) == [i \in 1..n |-> "/"]

\* Without a discovery service, BACKENDS gives one endpoint for each entry
\* between commas that is not blank. No ID holds the sign that ends it. The URL
\* of a probe has a slash between the backend's URL and the path, and a second
\* one only if BACKEND_HEALTH_PATH is written with two in front.
StaticBackendsParsed ==
  kind = "raw" =>
    LET eps == Backends(raw, FALSE)
    IN  /\ raw # <<>> => Len(eps) = Cardinality(Entries)
        /\ \A e \in Range(eps), path \in Paths :
             /\ "=" \notin Range(e.ID) /\ "," \notin Range(e.ID \o e.URL)
             /\ e.ID = TrimSpace(e.ID)
             /\ e.URL # <<>> => e.URL[Len(e.URL)] # "/"
             /\ IsPrefix(Slashes(1), healthPath(path))
             /\ IsPrefix(Slashes(2), healthPath(path)) => IsPrefix(Slashes(2), path)

env == [n \in Range(Names) |->
          LET i == SelectInSeq(Names, LAMBDA m : m = n)
          IN  IF i \in DOMAIN settings THEN settings[i] ELSE {}]

\* A process that gets as far as serving has positive intervals, timeouts and
\* thresholds, whatever the environment says: BoundsAssumption of HealthTiming.
\* The price is a panic for an interval that is not positive, where a timeout
\* or a threshold gets its default.
ServesWithUsableSettings ==
  kind = "settings" => \A service, inCluster \in BOOLEAN :
    LET cfg == New(FromEnv(env))
    IN  Outcome(cfg, service, inCluster) = "serving" =>
          /\ cfg.HealthCheckInterval > 0 /\ cfg.HealthTimeout > 0
          /\ cfg.HealthFailureThreshold > 0
          /\ service => cfg.DiscoveryInterval > 0

-----------------------------------------------------------------------------
\* The mock backend.

TimeOf(i) == FoldLeft(LAMBDA t, c : t + c.later, 0, SubSeq(calls, 1, i))

\* The cache after the calls, from an empty one.
CacheAfter(ttl) ==
  FoldLeft(LAMBDA cache, i :
             LET prints == mockPrints(calls[i].prompt)
             IN  IF calls[i].op = "Lookup"
                 THEN Lookup(cache, prints, TimeOf(i), ttl).cache
                 ELSE Remember(cache, prints, TimeOf(i)),
           <<>>, [i \in DOMAIN calls |-> i])

\* A lookup finds no print that nobody has remembered within the time to live,
\* and it finds every print whose last record is that young by the latest
\* clock anyone has read, however lookups, which delete, and records of
\* overlapping requests are mixed. While no call overtakes another it finds
\* exactly the prints that somebody has remembered within the time to live.
MockLookupExact ==
  kind = "calls" => \A ttl \in TTLs, prompt \in Prompts :
    LET now         == TimeOf(Len(calls))
        latest      == Max({TimeOf(i) : i \in 0..Len(calls)})
        prints      == mockPrints(prompt)
        records(p)  == {i \in DOMAIN calls :
                          /\ calls[i].op = "Remember"
                          /\ p \in mockPrints(calls[i].prompt)}
        some        == {p \in prints : \E i \in records(p) :
                          ttl > 0 => now - TimeOf(i) <= ttl}
        all         == {p \in prints :
                          /\ records(p) # {}
                          /\ ttl > 0 => latest - TimeOf(Max(records(p))) <= ttl}
        longest(ps) == Max({0} \cup {p.Length : p \in ps})
        found       == Lookup(CacheAfter(ttl), prints, now, ttl).length
    IN  /\ longest(all) <= found /\ found <= longest(some)
        /\ (\A i \in DOMAIN calls : calls[i].later >= 0) => found = longest(some)

\* What the router predicts for the next turn of a conversation, the backend
\* that served the last turn has: the router may miss a match, because it joins
\* and cuts contents as the backend does not, but it does not make one up.
ContinuationHits ==
  kind = "messages" => \A m \in Contents :
    LET turn      == Append(messages, m)
        predicted == {p.Length : p \in Prints(messages) \cap Prints(turn)}
        cache     == Remember(<<>>, mockPrints(mockPrefixText(messages)), 0)
        found     == Lookup(cache, mockPrints(mockPrefixText(turn)), 0, 0)
    IN  \A l \in predicted : l <= found.length

\* A hit does not make a completion slower. The exception is a stream whose
\* cold run is cut by MOCK_MAX_SLEEP before the first token: its decode delay
\* is dropped, and that of the warm one is not.
WarmSlowerOnlyAtCap ==
  kind = "messages" => \A latency \in Latencies,
                           tokens \in TokenLimits, stream \in BOOLEAN :
    LET n    == Len(words(mockPrefixText(messages)))
        cold == simulate(latency, n, tokens, FALSE)
        warm == simulate(latency, n, tokens, TRUE)
    IN  /\ latency.warm <= latency.cold
        /\ completion(warm, stream) > completion(cold, stream)
        => stream /\ latency.base + n * latency.cold > latency.maxSleep
=============================================================================
