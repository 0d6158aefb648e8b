------------------------------- MODULE Config -------------------------------
(***************************************************************************)
(* From the environment to a running router: FromEnv and parseBackends     *)
(* (internal/config/config.go), NewHTTPClient (internal/backend/http.go)   *)
(* and what main, router.New and the two tickers do with the settings      *)
(* (cmd/router/main.go, internal/router/router.go).                        *)
(*                                                                         *)
(* A string is a sequence of tokens: a separator that the parser looks     *)
(* for, or text without one. A variable that is not set is the same as an  *)
(* empty one. A number that can be parsed is the set of it, and anything   *)
(* else the empty set; only its sign matters.                              *)
(***************************************************************************)
EXTENDS Integers, SequencesExt

Separators == {"=", "/", ",", " "}

TrimSpace(s) ==
  LET keep == {i \in DOMAIN s : s[i] # " "}
  IN  IF keep = {} THEN <<>> ELSE SubSeq(s, Min(keep), Max(keep))

\* strings.TrimRight(s, "/")
TrimSlashes(s) == SubSeq(s, 1, Max({0} \cup {i \in DOMAIN s : s[i] # "/"}))

\* The parts between the commas.
Split(s) ==
  FoldLeft(LAMBDA parts, t : IF t = "," THEN Append(parts, <<>>)
                             ELSE [parts EXCEPT ![Len(parts)] = Append(@, t)],
           << <<>> >>, s)

\* Mutant: the slashes go before the space around them.
parseEndpointSlashFirst(part) ==
  LET at == SelectInSeq(part, LAMBDA t : t = "=")
  IN  [ID  |-> TrimSpace(IF at = 0 THEN part ELSE SubSeq(part, 1, at - 1)),
       URL |-> TrimSpace(TrimSlashes(SubSeq(part, at + 1, Len(part))))]

\* id=url, cut at the first sign; a part without one is both.
parseEndpoint(part) ==
  LET at == SelectInSeq(part, LAMBDA t : t = "=")
  IN  [ID  |-> TrimSpace(IF at = 0 THEN part ELSE SubSeq(part, 1, at - 1)),
       URL |-> TrimSlashes(TrimSpace(SubSeq(part, at + 1, Len(part))))]

Default == [ID |-> <<"mock-1">>, URL |-> <<"http://localhost:8081">>]

\* BACKENDS. Blank parts are skipped.
parseBackends(raw, useDefault) ==
  IF raw = <<>> THEN IF useDefault THEN <<Default>> ELSE <<>>
  ELSE LET add(backends, part) ==
             IF part = <<>> THEN backends
             ELSE Append(backends, parseEndpoint(part))
       IN  FoldLeft(LAMBDA backends, part : add(backends, TrimSpace(part)),
                    <<>>, Split(raw))

\* BACKEND_HEALTH_PATH, with its default and a slash in front.
healthPath(path) ==
  IF path = <<>> THEN <<"/", "healthz">>
  ELSE IF path[1] = "/" THEN path ELSE <<"/">> \o path

-----------------------------------------------------------------------------
\* What cannot be parsed counts as not set. A duration may be negative.
getenvDuration(value, fallback) ==
  IF value = {} THEN fallback ELSE CHOOSE n \in value : TRUE

getenvUint64(value, fallback) ==
  IF \E n \in value : n >= 0 THEN CHOOSE n \in value : TRUE ELSE fallback

\* Mutant: only what was not set gets the default.
keptDuration(value, fallback) == value

normalizedDuration(value, fallback) == IF value <= 0 THEN fallback ELSE value

normalizedUint64(value, fallback) == IF value = 0 THEN fallback ELSE value

\* Positive: the value of every default below matters only for its sign.
Some == 1

FromEnv(env) ==
  [HealthCheckInterval    |-> getenvDuration(env.HEALTH_CHECK_INTERVAL, Some),
   HealthTimeout          |-> getenvDuration(env.BACKEND_HEALTH_TIMEOUT, Some),
   HealthFailureThreshold |->
     getenvUint64(env.BACKEND_HEALTH_FAILURE_THRESHOLD, Some),
   DiscoveryInterval      |-> getenvDuration(env.DISCOVERY_INTERVAL, Some)]

\* router.New, as far as the settings go.
New(cfg) ==
  [cfg EXCEPT !.HealthTimeout = normalizedDuration(@, Some),
              !.HealthFailureThreshold = normalizedUint64(@, Some)]

\* main up to the listening server. With a service, discovery needs the
\* cluster's configuration, or main gives up. A ticker that is not positive
\* makes time.NewTicker panic in its goroutine, which ends the process.
Outcome(cfg, service, inCluster) ==
  IF service /\ ~inCluster THEN "exit"
  ELSE IF \/ service /\ cfg.DiscoveryInterval <= 0
          \/ cfg.HealthCheckInterval <= 0
       THEN "panic" ELSE "serving"

\* The static backends, next to whatever discovery is going to find.
Backends(raw, service) == parseBackends(raw, ~service)
=============================================================================
