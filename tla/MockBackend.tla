---------------------------- MODULE MockBackend ----------------------------
(***************************************************************************)
(* The stand-in for a vLLM pod (cmd/mock-backend/main.go): a cache of      *)
(* prefixes with a time to live, and the time a completion takes with and  *)
(* without a hit. Lookup and Remember hold the cache's mutex, so whatever  *)
(* requests run at the same time, the cache sees a sequence of these       *)
(* calls; but they read the clock before they lock, so the times of the    *)
(* sequence can go back.                                                   *)
(*                                                                         *)
(* The cache is a function from hashes to the times they were seen.        *)
(***************************************************************************)
EXTENDS Prefix

CONSTANT cachePrefixLengths

ASSUME CacheLengthsAssumption == cachePrefixLengths \subseteq Nat \ {0}

\* Mutant: like the router, nothing between the contents.
mockPrefixTextJoined(messages) == FlattenSeq(messages)

\* Every content with an end of line after it, and no limit. A prompt that is a
\* string has no end of line, which makes no difference to its words.
mockPrefixText(messages) ==
  FlattenSeq([i \in DOMAIN messages |-> Append(messages[i], Space)])

mockPrints(text) == Fingerprints(text, cachePrefixLengths)

Expired(cache, hash, now, ttl) == ttl > 0 /\ now - cache[hash] > ttl

\* The longest print that is there and not too old. The prints that are too
\* old are deleted on the way. No match is a length of 0.
Lookup(cache, prints, now, ttl) ==
  LET known == {p \in prints : p.Hash \in DOMAIN cache}
      old   == {p \in known : Expired(cache, p.Hash, now, ttl)}
  IN  [cache  |-> Restrict(cache, DOMAIN cache \ {p.Hash : p \in old}),
       length |-> Max({0} \cup {p.Length : p \in known \ old})]

\* Mutant: a hash that is there keeps its time.
RememberFirst(cache, prints, now) ==
  cache @@ [h \in {p.Hash : p \in prints} |-> now]

Remember(cache, prints, now) ==
  LET seen == {p.Hash : p \in prints}
  IN  [h \in DOMAIN cache \cup seen |-> IF h \in seen THEN now ELSE cache[h]]

-----------------------------------------------------------------------------
\* MOCK_*: durations of any sign.
Latency == [base : Int, cold : Int, warm : Int, decode : Int, maxSleep : Int]

AtLeastZero(n) == Max({n, 0})

\* Mutant: a sleep that is cut at all has no decode delay.
DecodeDropped(total, ttft, decode) == IF total < ttft + decode THEN 0 ELSE decode

\* What is left of the decode delay: nothing if the cap cuts the wait for the
\* first token, and otherwise all of it.
DecodeDelay(total, ttft, decode) == IF total < ttft THEN 0 ELSE decode

\* The sleeps of a completion. Without max_tokens there are 16.
simulate(latency, promptWords, maxTokens, hit) ==
  LET rate   == IF hit THEN latency.warm ELSE latency.cold
      ttft   == AtLeastZero(latency.base + promptWords * rate)
      tokens == IF maxTokens <= 0 THEN 16 ELSE maxTokens
      decode == AtLeastZero(tokens * latency.decode)
      total  == AtLeastZero(Min({ttft + decode, latency.maxSleep}))
  IN  [TTFT        |-> Min({ttft, total}),
       DecodeDelay |-> DecodeDelay(total, ttft, decode),
       TotalSleep  |-> total]

\* Between the first chunk of a stream and the last.
BetweenChunks(sim) == IF sim.DecodeDelay > 0 THEN sim.DecodeDelay ELSE 0

\* Before the first chunk, and after it.
streamCompletion(sim) == sim.TTFT + BetweenChunks(sim)

\* How long a completion takes.
completion(sim, stream) == IF stream THEN streamCompletion(sim) ELSE sim.TotalSleep
=============================================================================
