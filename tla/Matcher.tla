------------------------------ MODULE Matcher ------------------------------
(***************************************************************************)
(* The prefix matcher (internal/router/matcher.go): a sync.Map from prefix *)
(* hashes to sync.Maps from backend IDs to *MatchEntry, with an atomic     *)
(* LastSeenUnixNano in each entry. Any number of goroutines look prefixes  *)
(* up (CandidateMatches) and record them (Remember) at the same time; each *)
(* operation of a sync.Map and each load or store of LastSeenUnixNano is   *)
(* one step, and nothing ties the steps of a call together.                *)
(*                                                                         *)
(* Entries are shared by pointer: a caller may hold one that is no longer  *)
(* in the table, so they are modelled as a heap indexed by Entries. The    *)
(* inner maps are created on demand and never removed, so a missing inner  *)
(* map and an empty one are the same.                                      *)
(***************************************************************************)
EXTENDS Integers, Sequences, FiniteSets

CONSTANTS
  Callers,      \* goroutines that use the matcher at the same time
  Prints,       \* prefix hashes
  Length,       \* the length each hash stands for, in words
  Prompts,      \* the fingerprint lists requests come with
  BackendIDs,
  Entries,      \* addresses a MatchEntry can have (bound: live entries)
  ExpiryPolicy, \* "decay" or "none"
  DecayPolicy,  \* "exponential" or "linear"
  PrefixMaxAge,
  HalfLife,
  One,          \* the warmth factor 1.0
  Start,        \* the time the router starts; time 0 is the Unix epoch
  MaxTime,      \* bound of the clock
  NoEntry       \* no value in the map

ASSUME PromptsAssumption == Prompts \subseteq Seq(Prints)
ASSUME LengthAssumption  == Length \in [Prints -> Nat \ {0}]
ASSUME AgeAssumption     == PrefixMaxAge \in Nat /\ HalfLife \in Nat
ASSUME OneAssumption     == One \in Nat \ {0}
\* The epoch is further in the past than any age that is not expired.
ASSUME StartAssumption   == Start \in Nat /\ Start > PrefixMaxAge
ASSUME MaxTimeAssumption == MaxTime \in Nat /\ MaxTime >= Start
ASSUME NoEntryAssumption == NoEntry \notin Entries

VARIABLES
  table,     \* [Prints -> [BackendIDs -> Entries \cup {NoEntry}]]
  lastSeen,  \* LastSeenUnixNano of the entry at each address
  now,       \* the wall clock
  call       \* the local state of each caller

vars == <<table, lastSeen, now, call>>

-----------------------------------------------------------------------------
\* Mutant: the bound of the age is exclusive.
isExpiredEarly(age) ==
  ExpiryPolicy # "none" /\ PrefixMaxAge > 0 /\ age >= PrefixMaxAge

isExpired(age) ==
  /\ ExpiryPolicy # "none"
  /\ PrefixMaxAge > 0
  /\ age > PrefixMaxAge

\* One halved n times.
halved[n \in Nat] == IF n = 0 THEN One ELSE halved[n - 1] \div 2

\* The warmth factor of an age, in units of One. The exponential policy is
\* rounded down to whole half-lives. An age is negative for an entry that was
\* stored after the lookup took its time.
decay(age) ==
  IF ExpiryPolicy = "none" \/ HalfLife = 0 THEN One
  ELSE IF DecayPolicy = "linear"
       THEN IF PrefixMaxAge = 0 THEN One
            ELSE IF age > PrefixMaxAge THEN 0
                 ELSE (One * (PrefixMaxAge - age)) \div PrefixMaxAge
       ELSE LET halvings == age \div HalfLife
            IN  IF halvings < 0 THEN One * 2^(-halvings)
                                ELSE halved[halvings]

NoMatch == [Warmth |-> 0, MatchLength |-> 0, Age |-> 0]

NoMatches == [b \in BackendIDs |-> NoMatch]

Idle == [op |-> "idle", start |-> 0, prints |-> <<>>, keys |-> {},
         id |-> NoEntry, entry |-> NoEntry, matches |-> NoMatches]

Become(c, rec) == call' = [call EXCEPT ![c] = rec]

\* The entries somebody can reach.
Live ==
  {table[p][b] : p \in Prints, b \in BackendIDs}
    \cup {call[c].entry : c \in Callers}

\* The heap after a step; an address nobody can reach is reset and reused.
Heap(h) == lastSeen' = [e \in Entries |-> IF e \in Live' THEN h[e] ELSE 0]

Current(c) == Head(call[c].prints)

-----------------------------------------------------------------------------
(* CandidateMatches *)

\* The time is taken once, before the first map is read.
BeginLookup(c) ==
  /\ call[c].op = "idle"
  /\ \E prints \in Prompts :
       Become(c, [Idle EXCEPT !.op = "range", !.start = now,
                              !.prints = prints, !.keys = BackendIDs])
  /\ UNCHANGED <<table, lastSeen, now>>

\* Mutant: an absent key is not passed over.
VisitAbsent(c) ==
  /\ call[c].op = "range"
  /\ call[c].prints # <<>>
  /\ \E b \in call[c].keys :
       Become(c, [call[c] EXCEPT !.keys = @ \ {b}, !.op = "age", !.id = b,
                                 !.entry = table[Current(c)][b]])
  /\ UNCHANGED <<table, lastSeen, now>>

\* Range meets the keys in any order and loads the entry of each one once; it
\* passes a key over if the key is absent when it gets there.
Visit(c) ==
  /\ call[c].op = "range"
  /\ call[c].prints # <<>>
  /\ \E b \in call[c].keys :
       LET entry == table[Current(c)][b]
       IN  Become(c, IF entry = NoEntry
                     THEN [call[c] EXCEPT !.keys = @ \ {b}]
                     ELSE [call[c] EXCEPT !.keys = @ \ {b}, !.op = "age",
                                          !.id = b, !.entry = entry])
  /\ UNCHANGED <<table, lastSeen, now>>

\* Mutant: the age is not checked before the entry is used.
ReadAgeUnchecked(c) ==
  LET age    == call[c].start - lastSeen[call[c].entry]
      warmth == Length[Current(c)] * decay(age)
      match  == [Warmth |-> warmth, MatchLength |-> Length[Current(c)],
                 Age |-> age]
      back   == [call[c] EXCEPT !.op = "range", !.id = NoEntry,
                                !.entry = NoEntry]
  IN  /\ call[c].op = "age"
      /\ Become(c, IF warmth > call[c].matches[call[c].id].Warmth
                   THEN [back EXCEPT !.matches[call[c].id] = match]
                   ELSE back)
      /\ UNCHANGED <<table, now>>
      /\ Heap(lastSeen)

\* Mutant: the last match of a backend wins instead of the warmest.
ReadAgeLast(c) ==
  LET age    == call[c].start - lastSeen[call[c].entry]
      warmth == Length[Current(c)] * decay(age)
      match  == [Warmth |-> warmth, MatchLength |-> Length[Current(c)],
                 Age |-> age]
      back   == [call[c] EXCEPT !.op = "range", !.id = NoEntry,
                                !.entry = NoEntry]
  IN  /\ call[c].op = "age"
      /\ Become(c, IF isExpired(age) THEN [call[c] EXCEPT !.op = "evict"]
                   ELSE [back EXCEPT !.matches[call[c].id] = match])
      /\ UNCHANGED <<table, now>>
      /\ Heap(lastSeen)

\* An expired entry will be deleted; another one becomes the backend's match
\* if it is warmer than the backend's best match so far.
ReadAge(c) ==
  LET age    == call[c].start - lastSeen[call[c].entry]
      warmth == Length[Current(c)] * decay(age)
      match  == [Warmth |-> warmth, MatchLength |-> Length[Current(c)],
                 Age |-> age]
      back   == [call[c] EXCEPT !.op = "range", !.id = NoEntry,
                                !.entry = NoEntry]
  IN  /\ call[c].op = "age"
      /\ Become(c, IF isExpired(age) THEN [call[c] EXCEPT !.op = "evict"]
                   ELSE IF warmth > call[c].matches[call[c].id].Warmth
                        THEN [back EXCEPT !.matches[call[c].id] = match]
                        ELSE back)
      /\ UNCHANGED <<table, now>>
      /\ Heap(lastSeen)

\* Delete(backend): whatever entry the key has by now goes. The eviction is
\* counted in any case.
Evict(c) ==
  /\ call[c].op = "evict"
  /\ table' = [table EXCEPT ![Current(c)][call[c].id] = NoEntry]
  /\ Become(c, [call[c] EXCEPT !.op = "range", !.id = NoEntry,
                               !.entry = NoEntry])
  /\ UNCHANGED now
  /\ Heap(lastSeen)

EndRange(c) ==
  /\ call[c].op = "range"
  /\ call[c].prints # <<>>
  /\ call[c].keys = {}
  /\ Become(c, [call[c] EXCEPT !.prints = Tail(@), !.keys = BackendIDs])
  /\ UNCHANGED <<table, lastSeen, now>>

\* The answer: the matches found. The caller is free again.
Answer(c) ==
  /\ call[c].op = "range"
  /\ call[c].prints = <<>>
  /\ Become(c, Idle)
  /\ UNCHANGED <<table, lastSeen, now>>

-----------------------------------------------------------------------------
(* Remember *)

BeginRemember(c) ==
  /\ call[c].op = "idle"
  /\ \E prints \in Prompts, b \in BackendIDs :
       Become(c, [Idle EXCEPT !.op = "load", !.start = now,
                              !.prints = prints, !.id = b])
  /\ UNCHANGED <<table, lastSeen, now>>

\* LoadOrStore: the entry of the key, or a new one, in the table at once and
\* with a LastSeenUnixNano of 0.
LoadOrStore(c) ==
  /\ call[c].op = "load"
  /\ call[c].prints # <<>>
  /\ \E entry \in Entries :
       /\ IF table[Current(c)][call[c].id] = NoEntry
          THEN entry \notin Live
          ELSE entry = table[Current(c)][call[c].id]
       /\ table' = [table EXCEPT ![Current(c)][call[c].id] = entry]
       /\ Become(c, [call[c] EXCEPT !.op = "touch", !.entry = entry])
  /\ UNCHANGED now
  /\ Heap(lastSeen)

Touch(c) ==
  /\ call[c].op = "touch"
  /\ lastSeen' = [lastSeen EXCEPT ![call[c].entry] = call[c].start]
  /\ Become(c, [call[c] EXCEPT !.op = "link"])
  /\ UNCHANGED <<table, now>>

\* Mutant: the entry is not stored again.
LinkNever(c) ==
  /\ call[c].op = "link"
  /\ Become(c, [call[c] EXCEPT !.op = "load", !.prints = Tail(@),
                               !.entry = NoEntry])
  /\ UNCHANGED <<table, now>>
  /\ Heap(lastSeen)

\* The entry is stored again: an eviction may have taken it out meanwhile.
Link(c) ==
  /\ call[c].op = "link"
  /\ table' = [table EXCEPT ![Current(c)][call[c].id] = call[c].entry]
  /\ Become(c, [call[c] EXCEPT !.op = "load", !.prints = Tail(@),
                               !.entry = NoEntry])
  /\ UNCHANGED now
  /\ Heap(lastSeen)

Return(c) ==
  /\ call[c].op = "load"
  /\ call[c].prints = <<>>
  /\ Become(c, Idle)
  /\ UNCHANGED <<table, lastSeen, now>>

-----------------------------------------------------------------------------
Tick == now < MaxTime /\ now' = now + 1 /\ UNCHANGED <<table, lastSeen, call>>

Init ==
  /\ table = [p \in Prints |-> [b \in BackendIDs |-> NoEntry]]
  /\ lastSeen = [e \in Entries |-> 0]
  /\ now = Start
  /\ call = [c \in Callers |-> Idle]

CandidateMatches(c) ==
  BeginLookup(c) \/ Visit(c) \/ ReadAge(c) \/ Evict(c) \/ EndRange(c)
    \/ Answer(c)

Remember(c) ==
  BeginRemember(c) \/ LoadOrStore(c) \/ Touch(c) \/ Link(c) \/ Return(c)

Next == (\E c \in Callers : CandidateMatches(c) \/ Remember(c)) \/ Tick

Spec == Init /\ [][Next]_vars
-----------------------------------------------------------------------------
(* Properties *)

CandidateMatch == [Warmth : Int, MatchLength : Nat, Age : Int]

Call ==
  [op : {"idle", "range", "age", "evict", "load", "touch", "link"},
   start : 0..MaxTime, prints : Seq(Prints), keys : SUBSET BackendIDs,
   id : BackendIDs \cup {NoEntry}, entry : Entries \cup {NoEntry},
   matches : [BackendIDs -> CandidateMatch]]

\* Every variable has the shape the code gives it; a caller in the middle of
\* an operation on an entry has a print, a backend and an entry to work on.
TypeOK ==
  /\ table \in [Prints -> [BackendIDs -> Entries \cup {NoEntry}]]
  /\ lastSeen \in [Entries -> 0..MaxTime]
  /\ now \in Start..MaxTime
  /\ call \in [Callers -> Call]
  /\ \A c \in Callers :
       call[c].op \in {"age", "evict", "touch", "link"} =>
         /\ call[c].prints # <<>>
         /\ call[c].id \in BackendIDs
         /\ call[c].entry \in Entries

\* The times the table stands for; 0 where there is no entry or one that was
\* never touched.
Seen ==
  [p \in Prints |-> [b \in BackendIDs |->
     IF table[p][b] = NoEntry THEN 0 ELSE lastSeen[table[p][b]]]]
=============================================================================
