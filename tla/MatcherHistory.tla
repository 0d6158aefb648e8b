--------------------------- MODULE MatcherHistory ---------------------------
(***************************************************************************)
(* Matcher with four history variables: which backend was recorded for     *)
(* which prefix at what time, by any call of Remember; for which prefixes  *)
(* and backends a record is complete and no lookup has deleted the key     *)
(* since; which prefixes the lookup in progress of each caller asked for;  *)
(* and which calls nobody else's call has overlapped so far.               *)
(***************************************************************************)
EXTENDS Matcher, FiniteSetsExt

VARIABLES recorded, kept, asked, alone

hvars == <<vars, recorded, kept, asked, alone>>

Busy(c) == call[c].op # "idle"

Elems(s) == {s[i] : i \in DOMAIN s}

HInit ==
  /\ Init
  /\ recorded = {}
  /\ kept = {}
  /\ asked = [c \in Callers |-> {}]
  /\ alone = {}

\* The places at which a step takes a caller from one point of the code to
\* another.
Stepping(from, to) ==
  {<<Current(c), call[c].id>> :
     c \in {d \in Callers : call[d].op = from /\ call'[d].op = to}}

HNext ==
  /\ Next
  /\ recorded' = recorded \cup
       {<<Current(c), call[c].id, call[c].start>> :
          c \in {d \in Callers : call[d].op = "touch" /\ call'[d].op = "link"}}
  /\ kept' = (kept \cup Stepping("link", "load")) \ Stepping("evict", "range")
  /\ asked' = [c \in Callers |->
       IF call[c].op # "idle" THEN IF call'[c].op = "idle" THEN {} ELSE asked[c]
       ELSE IF call'[c].op = "range" THEN Elems(call'[c].prints) ELSE {}]
  /\ alone' = {c \in Callers :
                 /\ Busy(c)'
                 /\ \A d \in Callers \ {c} : ~Busy(d)'
                 /\ Busy(c) => c \in alone}

HSpec == HInit /\ [][HNext]_hvars

InLookup(c) == call[c].op \in {"range", "age", "evict"}

\* A candidate is never made up: the backend was recorded for one of the
\* prefixes asked for, at a time within the maximum age of the lookup, and its
\* age and length are those of that record. This holds with any interleaving
\* of lookups, evictions and records, in particular although an entry is in
\* the table before its time is set.
CandidatesGenuine ==
  \A c \in Callers : InLookup(c) =>
    \A b \in BackendIDs :
      LET match == call[c].matches[b]
      IN  match # NoMatch =>
            \E p \in asked[c] :
              /\ Length[p] = match.MatchLength
              /\ <<p, b, call[c].start - match.Age>> \in recorded
              /\ ~isExpired(match.Age)

\* A complete record is only ever lost to a lookup that deletes its key: until
\* then the table has an entry for it with a time that was recorded for it.
\* In particular it is not lost to a lookup that deletes the key between the
\* moment Remember finds the entry and the moment it stores it again.
RecordsKept ==
  \A place \in kept :
    <<place[1], place[2], Seen[place[1]][place[2]]>> \in recorded

\* What the answer should be for b: the warmest of the prefixes asked for that
\* the table has a time for which is not expired.
Warmest(c, b) ==
  LET known == {p \in asked[c] :
                  /\ Seen[p][b] # 0
                  /\ ~isExpired(call[c].start - Seen[p][b])}
  IN  Max({0} \cup {Length[p] * decay(call[c].start - Seen[p][b]) : p \in known})

\* A lookup that nobody's call overlaps answers with the warmest prefix of
\* each backend, although it evicts while it ranges and although any number of
\* calls may have overlapped before.
AnswerExact ==
  \A c \in alone : call[c].op = "range" /\ call[c].prints = <<>> =>
    \A b \in BackendIDs : call[c].matches[b].Warmth = Warmest(c, b)

Table == INSTANCE PrefixTable WITH seen <- Seen, clock <- now,
                                   MaxAge <- PrefixMaxAge

\* As long as calls do not overlap, whatever overlapping calls left behind,
\* the steps of the matcher implement the table of times: a Remember is lost
\* only by expiry, and times never go back.
LoneCallsImplementTable ==
  [][(\A c \in Callers : Busy(c) => c \in alone)
       => Table!TableNext \/ UNCHANGED <<Seen, now>>]_hvars
=============================================================================
