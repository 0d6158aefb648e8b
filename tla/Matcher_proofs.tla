--------------------------- MODULE Matcher_proofs ---------------------------
(***************************************************************************)
(* Proofs about the matcher for any callers, prefixes, prompts, backends,  *)
(* addresses, ages and policies: that candidates are never made up, that a *)
(* complete record is only lost to an eviction, that a lone lookup answers *)
(* exactly, and that lone calls implement a table.                         *)
(***************************************************************************)
EXTENDS MatcherHistory, SequenceTheorems, Induction

\* A caller in the middle of an operation on an entry.
Holds(c) == call[c].op \in {"age", "evict", "touch", "link"}

\* What TypeOK does not say of a caller: when its time was taken, and that it
\* points to an entry only while it works on it.
CallsSane ==
  \A c \in Callers :
    /\ call[c].start <= now
    /\ Busy(c) => call[c].start >= Start
    /\ ~Holds(c) => call[c].entry = NoEntry
    /\ call[c].op \in {"load", "touch", "link"} => call[c].id \in BackendIDs

\* The entry e is or may be put into the table for the prefix p and backend b.
Place(e, p, b) ==
  \/ table[p][b] = e
  \/ \E c \in Callers : /\ Holds(c) /\ call[c].entry = e
                        /\ Current(c) = p /\ call[c].id = b

\* An entry is never used for two prefixes or two backends at a time.
OneOwner ==
  \A e \in Entries, p, q \in Prints, a, b \in BackendIDs :
    Place(e, p, a) /\ Place(e, q, b) => p = q /\ a = b

\* The time of an entry is 0 or one that was recorded for its place.
TimesRecorded ==
  \A e \in Entries, p \in Prints, b \in BackendIDs :
    Place(e, p, b) /\ lastSeen[e] # 0 => <<p, b, lastSeen[e]>> \in recorded

TimesPast == \A e \in Entries : lastSeen[e] <= now

\* A free address has no time.
FreeReset == \A e \in Entries : e \notin Live => lastSeen[e] = 0

AskedKept ==
  \A c \in Callers :
    /\ asked[c] \subseteq Prints
    /\ InLookup(c) => Elems(call[c].prints) \subseteq asked[c]

\* The match comes from a time recorded for one of the prefixes asked for, or
\* from an entry whose time was still 0.
FromEntry(c, b, match) ==
  \E p \in asked[c] :
    /\ Length[p] = match.MatchLength
    /\ \/ <<p, b, call[c].start - match.Age>> \in recorded
       \/ call[c].start - match.Age = 0
    /\ ~isExpired(match.Age)

MatchesFromEntries ==
  \A c \in Callers, b \in BackendIDs :
    InLookup(c) /\ call[c].matches[b] # NoMatch =>
      FromEntry(c, b, call[c].matches[b])

IInv ==
  /\ TypeOK /\ CallsSane /\ OneOwner /\ TimesRecorded /\ TimesPast /\ FreeReset
  /\ AskedKept /\ MatchesFromEntries

-----------------------------------------------------------------------------
(* Calls that nobody's call overlaps *)

\* Only an entry that somebody is about to touch is in the table without time,
\* and none that is stored again.
TouchPending ==
  /\ \A p \in Prints, b \in BackendIDs :
       table[p][b] # NoEntry /\ lastSeen[table[p][b]] = 0 =>
         \E c \in Callers :
           call[c].op = "touch" /\ call[c].entry = table[p][b]
  /\ \A c \in Callers : call[c].op = "link" => lastSeen[call[c].entry] # 0

\* Nobody has changed the table behind a lone call's back.
LoneUndisturbed ==
  \A c \in alone :
    /\ c \in Callers /\ Busy(c) /\ \A d \in Callers \ {c} : ~Busy(d)
    /\ \A e \in Entries : lastSeen[e] <= call[c].start
    /\ Holds(c) => table[Current(c)][call[c].id] = call[c].entry
    /\ call[c].op = "evict" => isExpired(call[c].start - lastSeen[call[c].entry])
    /\ call[c].op = "link" => lastSeen[call[c].entry] = call[c].start

\* The prefixes the lookup of c has yet to look up for b.
ToCome(c, b) ==
  {p \in Elems(call[c].prints) :
     p = Current(c) => \/ p \in Elems(Tail(call[c].prints))
                       \/ b \in call[c].keys
                       \/ call[c].op # "range" /\ call[c].id = b}

Known(c, b) == {p \in asked[c] : /\ Seen[p][b] # 0
                                 /\ ~isExpired(call[c].start - Seen[p][b])}

WarmthOf(c, b, p) == Length[p] * decay(call[c].start - Seen[p][b])

\* A lone lookup has the warmest of the prefixes it is done with.
WarmestSoFar ==
  \A c \in alone, b \in BackendIDs : InLookup(c) =>
    LET warmth == call[c].matches[b].Warmth
    IN  /\ \A p \in Known(c, b) \ ToCome(c, b) : WarmthOf(c, b, p) <= warmth
        /\ warmth >= 0
        /\ warmth # 0 => \E p \in Known(c, b) : warmth = WarmthOf(c, b, p)

LoneInv == TouchPending /\ LoneUndisturbed /\ WarmestSoFar

-----------------------------------------------------------------------------
(* Lemmas about the operators *)

LEMMA HalvedType == halved \in [Nat -> Nat]
<1>1. \E h : h = [n \in Nat |-> IF n = 0 THEN One ELSE h[n - 1] \div 2]
  <2> DEFINE V == Nat
             g == [w \in V |-> w \div 2]
  <2>1. g \in [V -> V] /\ One \in V
    BY OneAssumption
  <2>2. PICK h \in [Nat -> V] :
          h[0] = One /\ \A n \in Nat : h[n + 1] = g[h[n]]
    <3> HIDE DEF V, g
    <3> QED
      BY <2>1, IterationExists
  <2>3. ASSUME NEW n \in Nat, n # 0
        PROVE  h[n] = h[n - 1] \div 2
    <3>1. n - 1 \in Nat /\ (n - 1) + 1 = n /\ h[n - 1] \in Nat
      BY <2>3
    <3> QED
      BY <2>2, <3>1
  <2>4. h = [n \in Nat |-> IF n = 0 THEN One ELSE h[n - 1] \div 2]
    BY <2>2, <2>3
  <2> QED
    BY <2>4
<1>2. halved = [n \in Nat |-> IF n = 0 THEN One ELSE halved[n - 1] \div 2]
  BY <1>1 DEF halved
<1> DEFINE S == {n \in Nat : halved[n] \in Nat}
<1>3. 0 \in S
  BY <1>2, OneAssumption
<1>4. ASSUME NEW n \in Nat, n \in S
      PROVE  n + 1 \in S
  <2>1. n + 1 # 0 /\ n + 1 \in Nat /\ (n + 1) - 1 = n
    OBVIOUS
  <2>2. halved[n + 1] = halved[n] \div 2
    BY <1>2, <2>1
  <2> QED
    BY <1>4, <2>2
<1>5. Nat \subseteq S
  <2> HIDE DEF S
  <2> QED
    BY <1>3, <1>4, SetInduction
<1> QED
  BY <1>2, <1>5

\* Whole units of warmth, of either sign: 2^n is never divided by.
LEMMA DecayType == \A age \in Int : decay(age) \in Int
<1> SUFFICES ASSUME NEW age \in Int
             PROVE  decay(age) \in Int
  OBVIOUS
<1>1. CASE ExpiryPolicy = "none" \/ HalfLife = 0
  BY <1>1, OneAssumption DEF decay
<1>2. CASE /\ ~(ExpiryPolicy = "none" \/ HalfLife = 0)
           /\ DecayPolicy = "linear"
  <2>1. PrefixMaxAge # 0 =>
          /\ PrefixMaxAge > 0 /\ PrefixMaxAge \in Int
          /\ One * (PrefixMaxAge - age) \in Int
    BY OneAssumption, AgeAssumption
  <2>2. PrefixMaxAge # 0 =>
          (One * (PrefixMaxAge - age)) \div PrefixMaxAge \in Int
    BY <2>1
  <2> QED
    BY <1>2, <2>2, OneAssumption DEF decay
<1>3. CASE /\ ~(ExpiryPolicy = "none" \/ HalfLife = 0)
           /\ DecayPolicy # "linear"
  <2> DEFINE n == age \div HalfLife
  <2>1. n \in Int
    BY <1>3, AgeAssumption
  <2>2. decay(age) = IF n < 0 THEN One * 2^(-n) ELSE halved[n]
    BY <1>3 DEF decay
  <2> HIDE DEF n
  <2>3. CASE n < 0
    <3>1. -n \in Nat
      BY <2>1, <2>3
    <3>2. 2^(-n) \in Int
      BY <3>1
    <3> QED
      BY <2>2, <2>3, <3>2, OneAssumption
  <2>4. CASE ~(n < 0)
    BY <2>1, <2>2, <2>4, HalvedType
  <2> QED
    BY <2>3, <2>4
<1> QED
  BY <1>1, <1>2, <1>3

\* The elements of a list of hashes.
LEMMA ElemsOfPrints ==
  ASSUME NEW s \in Seq(Prints)
  PROVE  /\ Elems(s) \subseteq Prints
         /\ s = <<>> => Elems(s) = {}
         /\ s # <<>> => /\ Head(s) \in Prints /\ Tail(s) \in Seq(Prints)
                        /\ Elems(s) = {Head(s)} \cup Elems(Tail(s))
<1>1. Elems(s) \subseteq Prints
  BY LenProperties DEF Elems
<1>2. s = <<>> => Elems(s) = {}
  BY DEF Elems
<1>3. ASSUME s # <<>>
      PROVE  /\ Head(s) \in Prints /\ Tail(s) \in Seq(Prints)
             /\ Elems(s) = {Head(s)} \cup Elems(Tail(s))
  <2>1. Len(s) \in Nat \ {0} /\ DOMAIN s = 1..Len(s)
    BY <1>3, EmptySeq, LenProperties
  <2>2. /\ Tail(s) \in Seq(Prints) /\ Len(Tail(s)) = Len(s) - 1
        /\ \A i \in 1..Len(Tail(s)) : Tail(s)[i] = s[i + 1]
    BY <1>3, HeadTailProperties
  <2>3. DOMAIN Tail(s) = 1..(Len(s) - 1)
    BY <2>1, <2>2, LenProperties
  <2>4. Head(s) = s[1]
    BY <1>3
  <2>5. Elems(s) \subseteq {Head(s)} \cup Elems(Tail(s))
    <3>1. SUFFICES ASSUME NEW i \in 1..Len(s)
                   PROVE  s[i] \in {Head(s)} \cup Elems(Tail(s))
      BY <2>1 DEF Elems
    <3>2. CASE i = 1
      BY <2>4, <3>2
    <3>3. CASE i # 1
      <4>1. i - 1 \in 1..(Len(s) - 1) /\ (i - 1) + 1 = i
        BY <2>1, <3>3
      <4>2. Tail(s)[i - 1] = s[i]
        BY <2>2, <4>1
      <4> QED
        BY <2>3, <4>1, <4>2 DEF Elems
    <3> QED
      BY <3>2, <3>3
  <2>6. {Head(s)} \cup Elems(Tail(s)) \subseteq Elems(s)
    <3>1. Head(s) \in Elems(s)
      BY <2>1, <2>4 DEF Elems
    <3>2. ASSUME NEW i \in 1..(Len(s) - 1)
          PROVE  Tail(s)[i] \in Elems(s)
      <4>1. i + 1 \in 1..Len(s) /\ i \in 1..Len(Tail(s))
        BY <2>1, <2>2
      <4> QED
        BY <2>1, <2>2, <4>1 DEF Elems
    <3> QED
      BY <2>3, <3>1, <3>2 DEF Elems
  <2>7. Head(s) \in Prints
    BY <1>1, <2>6
  <2> QED
    BY <2>2, <2>5, <2>6, <2>7
<1> QED
  BY <1>1, <1>2, <1>3

\* What a call ends up with when one of its steps gives it the record rec.
LEMMA Becoming ==
  ASSUME TypeOK, NEW c \in Callers, NEW rec, rec \in Call, Become(c, rec)
  PROVE  /\ call' \in [Callers -> Call]
         /\ call'[c] = rec
         /\ \A d \in Callers \ {c} : call'[d] = call[d]
BY DEF TypeOK, Become

\* A step that clears what nobody can reach leaves the other times alone.
LEMMA Cleared ==
  ASSUME TypeOK, TypeOK', Heap(lastSeen)
  PROVE  /\ \A e \in Entries : lastSeen'[e] \in {lastSeen[e], 0}
         /\ \A e \in Entries : e \in Live' => lastSeen'[e] = lastSeen[e]
         /\ FreeReset'
BY DEF Heap, TypeOK, FreeReset

-----------------------------------------------------------------------------
(* The shape of the variables *)

LEMMA IdleType == Idle \in Call
<1>1. <<>> \in Seq(Prints)
  OBVIOUS
<1>2. NoMatches \in [BackendIDs -> CandidateMatch]
  BY DEF NoMatches, NoMatch, CandidateMatch
<1>3. 0 \in 0..MaxTime
  BY MaxTimeAssumption, StartAssumption
<1> QED
  BY <1>1, <1>2, <1>3 DEF Idle, Call

LEMMA InitType == Init => TypeOK
<1> SUFFICES ASSUME Init
             PROVE  TypeOK
  OBVIOUS
<1>1. Idle \in Call
  BY IdleType
<1>2. now \in Start..MaxTime /\ 0 \in 0..MaxTime
  BY MaxTimeAssumption, StartAssumption DEF Init
<1>3. \A c \in Callers : call[c].op = "idle"
  BY DEF Init, Idle
<1> QED
  BY <1>1, <1>2, <1>3 DEF Init, TypeOK

\* The call of c after each step it can take, field by field, and that the
\* variables keep their shape.
LEMMA BeginLookupStep ==
  ASSUME TypeOK, NEW c \in Callers, BeginLookup(c)
  PROVE  /\ TypeOK' /\ UNCHANGED <<table, lastSeen, now>>
         /\ \A d \in Callers \ {c} : call'[d] = call[d]
         /\ call[c].op = "idle" /\ call'[c].op = "range"
         /\ call'[c].start = now /\ call'[c].keys = BackendIDs
         /\ call'[c].entry = NoEntry /\ call'[c].matches = NoMatches
         /\ call'[c].prints \in Seq(Prints)
<1>1. PICK prints \in Prompts :
        Become(c, [Idle EXCEPT !.op = "range", !.start = now,
                               !.prints = prints, !.keys = BackendIDs])
  BY DEF BeginLookup
<1> DEFINE rec == [Idle EXCEPT !.op = "range", !.start = now,
                               !.prints = prints, !.keys = BackendIDs]
<1>2. /\ prints \in Seq(Prints) /\ now \in 0..MaxTime
      /\ call[c].op = "idle" /\ UNCHANGED <<table, lastSeen, now>>
  BY PromptsAssumption, StartAssumption DEF BeginLookup, TypeOK
<1>3. /\ rec \in Call /\ rec.op = "range" /\ rec.start = now
      /\ rec.keys = BackendIDs /\ rec.entry = NoEntry
      /\ rec.matches = NoMatches /\ rec.prints = prints
  <2>1. /\ Idle \in Call /\ Idle.entry = NoEntry
        /\ Idle.matches = NoMatches
    BY IdleType DEF Idle
  <2> QED
    BY <1>2, <2>1 DEF Call
<1> HIDE DEF rec
<1>4. /\ call' \in [Callers -> Call] /\ call'[c] = rec
      /\ \A d \in Callers \ {c} : call'[d] = call[d]
  BY <1>1, <1>3, Becoming DEF rec
<1>5. TypeOK'
  BY <1>2, <1>3, <1>4 DEF TypeOK
<1> QED
  BY <1>2, <1>3, <1>4, <1>5

LEMMA BeginRememberStep ==
  ASSUME TypeOK, NEW c \in Callers, BeginRemember(c)
  PROVE  /\ TypeOK' /\ UNCHANGED <<table, lastSeen, now>>
         /\ \A d \in Callers \ {c} : call'[d] = call[d]
         /\ call[c].op = "idle" /\ call'[c].op = "load"
         /\ call'[c].start = now /\ call'[c].id \in BackendIDs
         /\ call'[c].entry = NoEntry
<1>1. PICK prints \in Prompts, b \in BackendIDs :
        Become(c, [Idle EXCEPT !.op = "load", !.start = now,
                               !.prints = prints, !.id = b])
  BY DEF BeginRemember
<1> DEFINE rec == [Idle EXCEPT !.op = "load", !.start = now,
                               !.prints = prints, !.id = b]
<1>2. /\ prints \in Seq(Prints) /\ now \in 0..MaxTime
      /\ call[c].op = "idle" /\ UNCHANGED <<table, lastSeen, now>>
  BY PromptsAssumption, StartAssumption DEF BeginRemember, TypeOK
<1>3. /\ rec \in Call /\ rec.op = "load" /\ rec.start = now
      /\ rec.id = b /\ rec.entry = NoEntry
  <2>1. /\ Idle \in Call /\ Idle.entry = NoEntry
        /\ Idle.matches = NoMatches
    BY IdleType DEF Idle
  <2> QED
    BY <1>2, <2>1 DEF Call
<1> HIDE DEF rec
<1>4. /\ call' \in [Callers -> Call] /\ call'[c] = rec
      /\ \A d \in Callers \ {c} : call'[d] = call[d]
  BY <1>1, <1>3, Becoming DEF rec
<1>5. TypeOK'
  BY <1>2, <1>3, <1>4 DEF TypeOK
<1> QED
  BY <1>2, <1>3, <1>4, <1>5

LEMMA VisitStep ==
  ASSUME TypeOK, NEW c \in Callers, Visit(c)
  PROVE  /\ TypeOK' /\ UNCHANGED <<table, lastSeen, now>>
         /\ \A d \in Callers \ {c} : call'[d] = call[d]
         /\ call[c].op = "range" /\ call[c].prints # <<>>
         /\ call'[c].start = call[c].start /\ call'[c].prints = call[c].prints
         /\ call'[c].matches = call[c].matches
         /\ \E b \in call[c].keys :
              /\ b \in BackendIDs /\ call'[c].keys = call[c].keys \ {b}
              /\ \/ /\ table[Current(c)][b] = NoEntry
                    /\ call'[c].op = "range" /\ call'[c].entry = call[c].entry
                 \/ /\ table[Current(c)][b] \in Entries
                    /\ call'[c].op = "age" /\ call'[c].id = b
                    /\ call'[c].entry = table[Current(c)][b]
<1> DEFINE entry(b) == table[Current(c)][b]
           same(b)  == [call[c] EXCEPT !.keys = @ \ {b}]
           found(b) == [call[c] EXCEPT !.keys = @ \ {b}, !.op = "age",
                                       !.id = b, !.entry = entry(b)]
<1>1. PICK b \in call[c].keys :
        Become(c, IF entry(b) = NoEntry THEN same(b) ELSE found(b))
  BY DEF Visit
<1>2. /\ call[c] \in Call /\ call[c].op = "range" /\ call[c].prints # <<>>
      /\ UNCHANGED <<table, lastSeen, now>>
  BY DEF Visit, TypeOK
<1>3. b \in BackendIDs /\ Current(c) \in Prints
  BY <1>1, <1>2, ElemsOfPrints DEF Call, Current
<1>4. entry(b) \in Entries \cup {NoEntry}
  BY <1>3 DEF TypeOK
<1>5. CASE entry(b) = NoEntry
  <2>1. /\ same(b) \in Call /\ same(b).op = "range"
        /\ same(b).start = call[c].start /\ same(b).prints = call[c].prints
        /\ same(b).matches = call[c].matches
        /\ same(b).keys = call[c].keys \ {b}
        /\ same(b).entry = call[c].entry
    BY <1>2, <1>3 DEF Call
  <2> HIDE DEF same
  <2>2. /\ call' \in [Callers -> Call] /\ call'[c] = same(b)
        /\ \A d \in Callers \ {c} : call'[d] = call[d]
    BY <1>1, <1>5, <2>1, Becoming
  <2>3. TypeOK'
    BY <1>2, <2>1, <2>2 DEF TypeOK
  <2> QED
    BY <1>2, <1>3, <1>5, <2>1, <2>2, <2>3
<1>6. CASE entry(b) \in Entries
  <2>1. /\ found(b) \in Call /\ found(b).op = "age"
        /\ found(b).start = call[c].start /\ found(b).prints = call[c].prints
        /\ found(b).matches = call[c].matches
        /\ found(b).keys = call[c].keys \ {b}
        /\ found(b).id = b /\ found(b).entry = entry(b)
    <3> HIDE DEF entry
    <3> QED
      BY <1>2, <1>3, <1>6 DEF Call
  <2> HIDE DEF found
  <2>2. /\ call' \in [Callers -> Call] /\ call'[c] = found(b)
        /\ \A d \in Callers \ {c} : call'[d] = call[d]
    BY <1>1, <1>6, <2>1, Becoming, NoEntryAssumption
  <2>3. TypeOK'
    BY <1>2, <1>3, <1>6, <2>1, <2>2 DEF TypeOK
  <2> QED
    BY <1>2, <1>3, <1>6, <2>1, <2>2, <2>3
<1> QED
  BY <1>4, <1>5, <1>6

\* A caller that works on an entry.
LEMMA Holding ==
  ASSUME TypeOK, NEW c \in Callers, Holds(c)
  PROVE  /\ call[c] \in Call /\ call[c].prints # <<>>
         /\ Current(c) \in Prints
         /\ Tail(call[c].prints) \in Seq(Prints)
         /\ call[c].id \in BackendIDs /\ call[c].entry \in Entries
<1>1. /\ call[c] \in Call /\ call[c].prints # <<>>
      /\ call[c].id \in BackendIDs /\ call[c].entry \in Entries
  BY DEF TypeOK, Holds
<1>2. call[c].prints \in Seq(Prints)
  BY <1>1 DEF Call
<1> QED
  BY <1>1, <1>2, ElemsOfPrints DEF Current

\* The match an entry of age "age" makes.
MatchOf(c, age) == [Warmth |-> Length[Current(c)] * decay(age),
                    MatchLength |-> Length[Current(c)], Age |-> age]

LEMMA ReadAgeStep ==
  ASSUME TypeOK, NEW c \in Callers, ReadAge(c),
         NEW age, age = call[c].start - lastSeen[call[c].entry]
  PROVE  /\ TypeOK' /\ UNCHANGED <<table, now>> /\ Heap(lastSeen)
         /\ \A d \in Callers \ {c} : call'[d] = call[d]
         /\ call[c].op = "age" /\ age \in Int
         /\ MatchOf(c, age) \in CandidateMatch
         /\ call'[c].start = call[c].start /\ call'[c].prints = call[c].prints
         /\ call'[c].keys = call[c].keys
         /\ \/ /\ isExpired(age) /\ call'[c].op = "evict"
               /\ call'[c].id = call[c].id /\ call'[c].entry = call[c].entry
               /\ call'[c].matches = call[c].matches
            \/ /\ ~isExpired(age) /\ call'[c].op = "range"
               /\ call'[c].entry = NoEntry
               /\ \/ /\ MatchOf(c, age).Warmth
                          > call[c].matches[call[c].id].Warmth
                     /\ call'[c].matches = [call[c].matches EXCEPT
                                              ![call[c].id] = MatchOf(c, age)]
                  \/ /\ ~(MatchOf(c, age).Warmth
                            > call[c].matches[call[c].id].Warmth)
                     /\ call'[c].matches = call[c].matches
<1> DEFINE evicted == [call[c] EXCEPT !.op = "evict"]
           back    == [call[c] EXCEPT !.op = "range", !.id = NoEntry,
                                      !.entry = NoEntry]
           warmer  == [back EXCEPT !.matches[call[c].id] = MatchOf(c, age)]
<1>1. /\ call[c].op = "age" /\ UNCHANGED <<table, now>> /\ Heap(lastSeen)
      /\ Become(c, IF isExpired(age) THEN evicted
                   ELSE IF MatchOf(c, age).Warmth
                             > call[c].matches[call[c].id].Warmth
                        THEN warmer ELSE back)
  BY DEF ReadAge, MatchOf
<1>2. /\ call[c] \in Call /\ call[c].id \in BackendIDs
      /\ call[c].entry \in Entries /\ Current(c) \in Prints
      /\ call[c].prints # <<>>
  BY <1>1, Holding DEF Holds
<1>3. age \in Int
  <2>1. call[c].start \in Int /\ lastSeen[call[c].entry] \in Int
    BY <1>2 DEF TypeOK, Call
  <2> QED
    BY <2>1
<1>4. MatchOf(c, age) \in CandidateMatch
  <2>1. Length[Current(c)] \in Nat /\ decay(age) \in Int
    BY <1>2, <1>3, LengthAssumption, DecayType
  <2> QED
    BY <1>3, <2>1 DEF MatchOf, CandidateMatch
<1>5. lastSeen' \in [Entries -> 0..MaxTime]
  <2>1. 0 \in 0..MaxTime
    BY MaxTimeAssumption, StartAssumption
  <2> QED
    BY <1>1, <2>1 DEF Heap, TypeOK
<1> DEFINE match == MatchOf(c, age)
<1> HIDE DEF match
<1>6. CASE isExpired(age)
  <2>1. /\ evicted \in Call /\ evicted.op = "evict"
        /\ evicted.start = call[c].start /\ evicted.prints = call[c].prints
        /\ evicted.matches = call[c].matches /\ evicted.keys = call[c].keys
        /\ evicted.id = call[c].id /\ evicted.entry = call[c].entry
    BY <1>2 DEF Call
  <2> HIDE DEF evicted
  <2>2. /\ call' \in [Callers -> Call] /\ call'[c] = evicted
        /\ \A d \in Callers \ {c} : call'[d] = call[d]
    BY <1>1, <1>6, <2>1, Becoming
  <2>3. TypeOK'
    BY <1>1, <1>2, <1>5, <2>1, <2>2 DEF TypeOK
  <2> QED
    BY <1>1, <1>3, <1>4, <1>6, <2>1, <2>2, <2>3
<1>7. /\ back \in Call /\ back.op = "range" /\ back.start = call[c].start
      /\ back.prints = call[c].prints /\ back.keys = call[c].keys
      /\ back.entry = NoEntry /\ back.matches = call[c].matches
  BY <1>2 DEF Call
<1> HIDE DEF back
<1>8. CASE /\ ~isExpired(age)
           /\ ~(MatchOf(c, age).Warmth > call[c].matches[call[c].id].Warmth)
  <2>1. /\ call' \in [Callers -> Call] /\ call'[c] = back
        /\ \A d \in Callers \ {c} : call'[d] = call[d]
    BY <1>1, <1>7, <1>8, Becoming
  <2>2. TypeOK'
    BY <1>1, <1>5, <1>7, <2>1 DEF TypeOK
  <2> QED
    BY <1>1, <1>3, <1>4, <1>7, <1>8, <2>1, <2>2
<1>9. CASE /\ ~isExpired(age)
           /\ MatchOf(c, age).Warmth > call[c].matches[call[c].id].Warmth
  <2>1. /\ warmer \in Call /\ warmer.op = "range"
        /\ warmer.start = call[c].start /\ warmer.prints = call[c].prints
        /\ warmer.keys = call[c].keys /\ warmer.entry = NoEntry
        /\ warmer.matches = [call[c].matches EXCEPT ![call[c].id] = match]
    BY <1>2, <1>4, <1>7 DEF Call, match
  <2> HIDE DEF warmer
  <2>2. /\ call' \in [Callers -> Call] /\ call'[c] = warmer
        /\ \A d \in Callers \ {c} : call'[d] = call[d]
    BY <1>1, <1>9, <2>1, Becoming
  <2>3. TypeOK'
    BY <1>1, <1>5, <2>1, <2>2 DEF TypeOK
  <2> QED
    BY <1>1, <1>3, <1>4, <1>9, <2>1, <2>2, <2>3 DEF match
<1> QED
  BY <1>6, <1>8, <1>9

\* After a step that clears the heap the times have their type.
LEMMA ClearedType ==
  ASSUME TypeOK, Heap(lastSeen)
  PROVE  lastSeen' \in [Entries -> 0..MaxTime]
<1>1. 0 \in 0..MaxTime
  BY MaxTimeAssumption, StartAssumption
<1> QED
  BY <1>1 DEF Heap, TypeOK

\* The table after one of its values has been replaced.
LEMMA Replaced ==
  ASSUME TypeOK, NEW p \in Prints, NEW b \in BackendIDs,
         NEW entry \in Entries \cup {NoEntry},
         table' = [table EXCEPT ![p][b] = entry]
  PROVE  /\ table' \in [Prints -> [BackendIDs -> Entries \cup {NoEntry}]]
         /\ table'[p][b] = entry
         /\ \A q \in Prints, a \in BackendIDs :
              q # p \/ a # b => table'[q][a] = table[q][a]
BY DEF TypeOK

LEMMA EvictStep ==
  ASSUME TypeOK, NEW c \in Callers, Evict(c)
  PROVE  /\ TypeOK' /\ UNCHANGED now /\ Heap(lastSeen)
         /\ \A d \in Callers \ {c} : call'[d] = call[d]
         /\ call[c].op = "evict" /\ call'[c].op = "range"
         /\ call'[c].start = call[c].start /\ call'[c].prints = call[c].prints
         /\ call'[c].keys = call[c].keys /\ call'[c].entry = NoEntry
         /\ call'[c].matches = call[c].matches
         /\ table'[Current(c)][call[c].id] = NoEntry
         /\ \A q \in Prints, a \in BackendIDs :
              q # Current(c) \/ a # call[c].id => table'[q][a] = table[q][a]
<1> DEFINE rec == [call[c] EXCEPT !.op = "range", !.id = NoEntry,
                                  !.entry = NoEntry]
<1>1. /\ call[c].op = "evict" /\ UNCHANGED now /\ Heap(lastSeen)
      /\ table' = [table EXCEPT ![Current(c)][call[c].id] = NoEntry]
      /\ Become(c, rec)
  BY DEF Evict
<1>2. /\ call[c] \in Call /\ call[c].id \in BackendIDs
      /\ Current(c) \in Prints
  BY <1>1, Holding DEF Holds
<1>3. /\ rec \in Call /\ rec.op = "range" /\ rec.start = call[c].start
      /\ rec.prints = call[c].prints /\ rec.keys = call[c].keys
      /\ rec.entry = NoEntry /\ rec.matches = call[c].matches
  BY <1>2 DEF Call
<1> HIDE DEF rec
<1>4. /\ call' \in [Callers -> Call] /\ call'[c] = rec
      /\ \A d \in Callers \ {c} : call'[d] = call[d]
  BY <1>1, <1>3, Becoming
<1>5. /\ table' \in [Prints -> [BackendIDs -> Entries \cup {NoEntry}]]
      /\ table'[Current(c)][call[c].id] = NoEntry
      /\ \A q \in Prints, a \in BackendIDs :
           q # Current(c) \/ a # call[c].id => table'[q][a] = table[q][a]
  BY <1>1, <1>2, Replaced, ZenonT(60)
<1>6. TypeOK'
  BY <1>1, <1>3, <1>4, <1>5, ClearedType DEF TypeOK
<1> QED
  BY <1>1, <1>3, <1>4, <1>5, <1>6

LEMMA EndRangeStep ==
  ASSUME TypeOK, NEW c \in Callers, EndRange(c)
  PROVE  /\ TypeOK' /\ UNCHANGED <<table, lastSeen, now>>
         /\ \A d \in Callers \ {c} : call'[d] = call[d]
         /\ call[c].op = "range" /\ call'[c].op = "range"
         /\ call[c].prints # <<>> /\ call[c].keys = {}
         /\ call'[c].start = call[c].start
         /\ call'[c].prints = Tail(call[c].prints)
         /\ call'[c].keys = BackendIDs /\ call'[c].entry = call[c].entry
         /\ call'[c].matches = call[c].matches
<1> DEFINE rec == [call[c] EXCEPT !.prints = Tail(@), !.keys = BackendIDs]
<1>1. /\ call[c].op = "range" /\ call[c].prints # <<>> /\ call[c].keys = {}
      /\ UNCHANGED <<table, lastSeen, now>> /\ Become(c, rec)
  BY DEF EndRange
<1>2. call[c] \in Call /\ call[c].prints \in Seq(Prints)
  BY DEF TypeOK, Call
<1>3. Tail(call[c].prints) \in Seq(Prints)
  BY <1>1, <1>2, ElemsOfPrints
<1>4. /\ rec \in Call /\ rec.op = "range" /\ rec.start = call[c].start
      /\ rec.prints = Tail(call[c].prints) /\ rec.keys = BackendIDs
      /\ rec.entry = call[c].entry /\ rec.matches = call[c].matches
  BY <1>1, <1>2, <1>3 DEF Call
<1> HIDE DEF rec
<1>5. /\ call' \in [Callers -> Call] /\ call'[c] = rec
      /\ \A d \in Callers \ {c} : call'[d] = call[d]
  BY <1>1, <1>4, Becoming
<1>6. TypeOK'
  BY <1>1, <1>4, <1>5 DEF TypeOK
<1> QED
  BY <1>1, <1>4, <1>5, <1>6

\* The end of a call, of either kind.
LEMMA ReturnStep ==
  ASSUME TypeOK, NEW c \in Callers, Answer(c) \/ Return(c)
  PROVE  /\ TypeOK' /\ UNCHANGED <<table, lastSeen, now>>
         /\ \A d \in Callers \ {c} : call'[d] = call[d]
         /\ call[c].op \in {"range", "load"} /\ call[c].prints = <<>>
         /\ call'[c].op = "idle" /\ call'[c].start = 0
         /\ call'[c].entry = NoEntry
<1>1. /\ call[c].op \in {"range", "load"} /\ call[c].prints = <<>>
      /\ UNCHANGED <<table, lastSeen, now>> /\ Become(c, Idle)
  BY DEF Answer, Return
<1>2. /\ call' \in [Callers -> Call] /\ call'[c] = Idle
      /\ \A d \in Callers \ {c} : call'[d] = call[d]
  BY <1>1, IdleType, Becoming
<1>3. Idle.op = "idle" /\ Idle.start = 0 /\ Idle.entry = NoEntry
  BY DEF Idle
<1>4. TypeOK'
  BY <1>1, <1>2, <1>3 DEF TypeOK
<1> QED
  BY <1>1, <1>2, <1>3, <1>4

LEMMA LoadOrStoreStep ==
  ASSUME TypeOK, CallsSane, NEW c \in Callers, LoadOrStore(c)
  PROVE  /\ TypeOK' /\ UNCHANGED now /\ Heap(lastSeen)
         /\ \A d \in Callers \ {c} : call'[d] = call[d]
         /\ call[c].op = "load" /\ call[c].prints # <<>>
         /\ call[c].id \in BackendIDs /\ Current(c) \in Prints
         /\ call'[c].op = "touch" /\ call'[c].entry \in Entries
         /\ call'[c].start = call[c].start /\ call'[c].prints = call[c].prints
         /\ call'[c].id = call[c].id
         /\ IF table[Current(c)][call[c].id] = NoEntry
            THEN call'[c].entry \notin Live
            ELSE call'[c].entry = table[Current(c)][call[c].id]
         /\ table'[Current(c)][call[c].id] = call'[c].entry
         /\ \A q \in Prints, a \in BackendIDs :
              q # Current(c) \/ a # call[c].id => table'[q][a] = table[q][a]
<1>1. /\ call[c].op = "load" /\ call[c].prints # <<>>
      /\ UNCHANGED now /\ Heap(lastSeen)
  BY DEF LoadOrStore
<1>2. PICK entry \in Entries :
       /\ IF table[Current(c)][call[c].id] = NoEntry
          THEN entry \notin Live
          ELSE entry = table[Current(c)][call[c].id]
       /\ table' = [table EXCEPT ![Current(c)][call[c].id] = entry]
       /\ Become(c, [call[c] EXCEPT !.op = "touch", !.entry = entry])
  BY DEF LoadOrStore
<1> DEFINE rec == [call[c] EXCEPT !.op = "touch", !.entry = entry]
<1>3. /\ call[c] \in Call /\ call[c].id \in BackendIDs
      /\ Current(c) \in Prints
  <2>1. call[c] \in Call /\ call[c].id \in BackendIDs
    BY <1>1 DEF TypeOK, CallsSane
  <2> QED
    BY <1>1, <2>1, ElemsOfPrints DEF Call, Current
<1>4. /\ rec \in Call /\ rec.op = "touch" /\ rec.start = call[c].start
      /\ rec.prints = call[c].prints /\ rec.id = call[c].id
      /\ rec.entry = entry
  BY <1>3 DEF Call
<1>5. /\ call' \in [Callers -> Call] /\ call'[c] = rec
      /\ \A d \in Callers \ {c} : call'[d] = call[d]
  BY <1>2, <1>4, Becoming
<1> HIDE DEF rec
<1>6. /\ table' \in [Prints -> [BackendIDs -> Entries \cup {NoEntry}]]
      /\ table'[Current(c)][call[c].id] = entry
      /\ \A q \in Prints, a \in BackendIDs :
           q # Current(c) \/ a # call[c].id => table'[q][a] = table[q][a]
  BY <1>2, <1>3, Replaced, ZenonT(60)
<1>7. TypeOK'
  BY <1>1, <1>3, <1>4, <1>5, <1>6, ClearedType DEF TypeOK
<1> QED
  BY <1>1, <1>2, <1>3, <1>4, <1>5, <1>6, <1>7

LEMMA TouchStep ==
  ASSUME TypeOK, NEW c \in Callers, Touch(c)
  PROVE  /\ TypeOK' /\ UNCHANGED <<table, now>>
         /\ \A d \in Callers \ {c} : call'[d] = call[d]
         /\ call[c].op = "touch" /\ call'[c].op = "link"
         /\ call'[c].start = call[c].start /\ call'[c].prints = call[c].prints
         /\ call'[c].id = call[c].id /\ call'[c].entry = call[c].entry
         /\ lastSeen'[call[c].entry] = call[c].start
         /\ \A e \in Entries \ {call[c].entry} : lastSeen'[e] = lastSeen[e]
<1> DEFINE rec == [call[c] EXCEPT !.op = "link"]
<1>1. /\ call[c].op = "touch" /\ UNCHANGED <<table, now>>
      /\ lastSeen' = [lastSeen EXCEPT ![call[c].entry] = call[c].start]
      /\ Become(c, rec)
  BY DEF Touch
<1>2. /\ call[c] \in Call /\ call[c].id \in BackendIDs
      /\ call[c].entry \in Entries /\ call[c].prints # <<>>
  BY <1>1, Holding DEF Holds
<1>3. /\ rec \in Call /\ rec.op = "link" /\ rec.start = call[c].start
      /\ rec.prints = call[c].prints /\ rec.id = call[c].id
      /\ rec.entry = call[c].entry
  BY <1>2 DEF Call
<1> HIDE DEF rec
<1>4. /\ call' \in [Callers -> Call] /\ call'[c] = rec
      /\ \A d \in Callers \ {c} : call'[d] = call[d]
  BY <1>1, <1>3, Becoming
<1>5. /\ lastSeen' \in [Entries -> 0..MaxTime]
      /\ lastSeen'[call[c].entry] = call[c].start
      /\ \A e \in Entries \ {call[c].entry} : lastSeen'[e] = lastSeen[e]
  BY <1>1, <1>2 DEF TypeOK, Call
<1>6. TypeOK'
  BY <1>1, <1>2, <1>3, <1>4, <1>5 DEF TypeOK
<1> QED
  BY <1>1, <1>3, <1>4, <1>5, <1>6

LEMMA LinkStep ==
  ASSUME TypeOK, NEW c \in Callers, Link(c)
  PROVE  /\ TypeOK' /\ UNCHANGED now /\ Heap(lastSeen)
         /\ \A d \in Callers \ {c} : call'[d] = call[d]
         /\ call[c].op = "link" /\ call'[c].op = "load"
         /\ call'[c].start = call[c].start /\ call'[c].id = call[c].id
         /\ call'[c].entry = NoEntry
         /\ table'[Current(c)][call[c].id] = call[c].entry
         /\ \A q \in Prints, a \in BackendIDs :
              q # Current(c) \/ a # call[c].id => table'[q][a] = table[q][a]
<1> DEFINE rec == [call[c] EXCEPT !.op = "load", !.prints = Tail(@),
                                  !.entry = NoEntry]
<1>1. /\ call[c].op = "link" /\ UNCHANGED now /\ Heap(lastSeen)
      /\ table' = [table EXCEPT ![Current(c)][call[c].id] = call[c].entry]
      /\ Become(c, rec)
  BY DEF Link
<1>2. /\ call[c] \in Call /\ call[c].id \in BackendIDs
      /\ call[c].entry \in Entries \cup {NoEntry} /\ Current(c) \in Prints
      /\ Tail(call[c].prints) \in Seq(Prints)
  BY <1>1, Holding DEF Holds
<1>3. /\ rec \in Call /\ rec.op = "load" /\ rec.start = call[c].start
      /\ rec.id = call[c].id /\ rec.entry = NoEntry
  BY <1>2 DEF Call
<1> HIDE DEF rec
<1>4. /\ call' \in [Callers -> Call] /\ call'[c] = rec
      /\ \A d \in Callers \ {c} : call'[d] = call[d]
  BY <1>1, <1>3, Becoming
<1>5. /\ table' \in [Prints -> [BackendIDs -> Entries \cup {NoEntry}]]
      /\ table'[Current(c)][call[c].id] = call[c].entry
      /\ \A q \in Prints, a \in BackendIDs :
           q # Current(c) \/ a # call[c].id => table'[q][a] = table[q][a]
  BY <1>1, <1>2 DEF TypeOK
<1>6. TypeOK'
  BY <1>1, <1>3, <1>4, <1>5, ClearedType DEF TypeOK
<1> QED
  BY <1>1, <1>3, <1>4, <1>5, <1>6

-----------------------------------------------------------------------------
(* What keeps each part of the invariant *)

\* The history variables only add to what was recorded, and a lookup keeps
\* what it asked for.
History ==
  /\ recorded' = recorded \cup
       {<<Current(c), call[c].id, call[c].start>> :
          c \in {d \in Callers : call[d].op = "touch" /\ call'[d].op = "link"}}
  /\ asked' = [c \in Callers |->
       IF call[c].op # "idle" THEN IF call'[c].op = "idle" THEN {} ELSE asked[c]
       ELSE IF call'[c].op = "range" THEN Elems(call'[c].prints) ELSE {}]

\* The places of the entries only become fewer if the step of c puts no entry
\* where it could not have been before.
LEMMA PlacesShrink ==
  ASSUME NEW c \in Callers,
         \A d \in Callers \ {c} : call'[d] = call[d],
         \A p \in Prints, b \in BackendIDs :
           table'[p][b] = NoEntry \/ Place(table'[p][b], p, b),
         Holds(c)' => Place(call'[c].entry, Current(c)', call'[c].id)
  PROVE  \A e \in Entries, p \in Prints, b \in BackendIDs :
           Place(e, p, b)' => Place(e, p, b)
<1> SUFFICES ASSUME NEW e \in Entries, NEW p \in Prints, NEW b \in BackendIDs,
                    Place(e, p, b)'
             PROVE  Place(e, p, b)
  OBVIOUS
<1>1. CASE table'[p][b] = e
  BY <1>1, NoEntryAssumption
<1>2. CASE \E d \in Callers : /\ Holds(d)' /\ call'[d].entry = e
                              /\ Current(d)' = p /\ call'[d].id = b
  <2>1. PICK d \in Callers : /\ Holds(d)' /\ call'[d].entry = e
                             /\ Current(d)' = p /\ call'[d].id = b
    BY <1>2
  <2>2. CASE d = c
    BY <2>1, <2>2
  <2>3. CASE d # c
    <3>1. call'[d] = call[d]
      BY <2>3
    <3>2. Holds(d) /\ call[d].entry = e /\ Current(d) = p /\ call[d].id = b
      BY <2>1, <3>1 DEF Holds, Current
    <3> QED
      BY <3>2 DEF Place
  <2> QED
    BY <2>2, <2>3
<1> QED
  BY <1>1, <1>2 DEF Place

LEMMA OwnersKept ==
  ASSUME OneOwner,
         \A e \in Entries, p \in Prints, b \in BackendIDs :
           Place(e, p, b)' => Place(e, p, b)
  PROVE  OneOwner'
BY DEF OneOwner

LEMMA TimesKept ==
  ASSUME TimesRecorded, recorded \subseteq recorded',
         \A e \in Entries, p \in Prints, b \in BackendIDs :
           Place(e, p, b)' => Place(e, p, b),
         \A e \in Entries : lastSeen'[e] \in {lastSeen[e], 0}
  PROVE  TimesRecorded'
BY DEF TimesRecorded

LEMMA RecordedGrows ==
  ASSUME History
  PROVE  recorded \subseteq recorded'
BY DEF History

\* A lookup that goes on has no new prefixes; one that begins asks for all of
\* its own.
LEMMA AskedStep ==
  ASSUME TypeOK', AskedKept, History, NEW c \in Callers,
         \A d \in Callers \ {c} : call'[d] = call[d],
         InLookup(c)' =>
           \/ ~Busy(c) /\ call'[c].op = "range"
           \/ /\ InLookup(c)
              /\ Elems(call'[c].prints) \subseteq Elems(call[c].prints)
  PROVE  AskedKept'
<1> SUFFICES ASSUME NEW d \in Callers
             PROVE  /\ asked'[d] \subseteq Prints
                    /\ InLookup(d)' =>
                         Elems(call'[d].prints) \subseteq asked'[d]
  BY DEF AskedKept
<1>1. Elems(call'[d].prints) \subseteq Prints
  <2>1. call'[d].prints \in Seq(Prints)
    BY DEF TypeOK, Call
  <2> QED
    BY <2>1, ElemsOfPrints
<1>2. asked'[d] = IF Busy(d) THEN IF ~Busy(d)' THEN {} ELSE asked[d]
                  ELSE IF call'[d].op = "range" THEN Elems(call'[d].prints)
                       ELSE {}
  BY DEF History, Busy
<1>3. asked'[d] \subseteq Prints
  BY <1>1, <1>2 DEF AskedKept
<1>4. ASSUME InLookup(d)'
      PROVE  Elems(call'[d].prints) \subseteq asked'[d]
  <2>1. CASE d = c
    <3>1. CASE ~Busy(c) /\ call'[c].op = "range"
      BY <1>2, <2>1, <3>1
    <3>2. CASE /\ InLookup(c)
               /\ Elems(call'[c].prints) \subseteq Elems(call[c].prints)
      <4>1. asked'[c] = asked[c]
        BY <1>2, <1>4, <2>1, <3>2 DEF InLookup, Busy
      <4> QED
        BY <2>1, <3>2, <4>1 DEF AskedKept
    <3> QED
      BY <1>4, <2>1, <3>1, <3>2
  <2>2. CASE d # c
    <3>1. call'[d] = call[d]
      BY <2>2
    <3>2. InLookup(d) /\ asked'[d] = asked[d]
      BY <1>2, <1>4, <3>1 DEF InLookup, Busy
    <3> QED
      BY <3>1, <3>2 DEF AskedKept
  <2> QED
    BY <2>1, <2>2
<1> QED
  BY <1>3, <1>4

\* A match stays genuine while its lookup lasts, as records are never deleted.
LEMMA MatchesStep ==
  ASSUME MatchesFromEntries, History, NEW c \in Callers,
         \A d \in Callers \ {c} : call'[d] = call[d],
         InLookup(c)' =>
           \/ ~Busy(c) /\ \A b \in BackendIDs : call'[c].matches[b] = NoMatch
           \/ /\ InLookup(c) /\ call'[c].start = call[c].start
              /\ \A b \in BackendIDs :
                   \/ call'[c].matches[b] = call[c].matches[b]
                   \/ FromEntry(c, b, call'[c].matches[b])
  PROVE  MatchesFromEntries'
<1> SUFFICES ASSUME NEW d \in Callers, NEW b \in BackendIDs, InLookup(d)',
                    call'[d].matches[b] # NoMatch
             PROVE  FromEntry(d, b, call[d].matches[b])'
  BY DEF MatchesFromEntries
<1>1. /\ InLookup(d) /\ call'[d].start = call[d].start
      /\ FromEntry(d, b, call'[d].matches[b])
  <2>1. CASE d = c
    BY <2>1 DEF MatchesFromEntries
  <2>2. CASE d # c
    <3>1. call'[d] = call[d]
      BY <2>2
    <3>2. InLookup(d)
      BY <3>1 DEF InLookup
    <3> QED
      BY <3>1, <3>2 DEF MatchesFromEntries
  <2> QED
    BY <2>1, <2>2
<1>2. asked'[d] = asked[d]
  BY <1>1 DEF History, InLookup
<1>3. recorded \subseteq recorded'
  BY RecordedGrows
<1> QED
  BY <1>1, <1>2, <1>3 DEF FromEntry, isExpired

\* What concerns the calls alone: the step leaves c's call in order.
LEMMA CallsKept ==
  ASSUME IInv, History, TypeOK', NEW c \in Callers, UNCHANGED now,
         \A d \in Callers \ {c} : call'[d] = call[d],
         /\ call'[c].start <= now
         /\ Busy(c)' => call'[c].start >= Start
         /\ ~Holds(c)' => call'[c].entry = NoEntry
         /\ call'[c].op \in {"load", "touch", "link"} =>
              call'[c].id \in BackendIDs,
         InLookup(c)' =>
           \/ ~Busy(c) /\ call'[c].op = "range"
           \/ /\ InLookup(c)
              /\ Elems(call'[c].prints) \subseteq Elems(call[c].prints),
         InLookup(c)' =>
           \/ ~Busy(c) /\ \A b \in BackendIDs : call'[c].matches[b] = NoMatch
           \/ /\ InLookup(c) /\ call'[c].start = call[c].start
              /\ \A b \in BackendIDs :
                   \/ call'[c].matches[b] = call[c].matches[b]
                   \/ FromEntry(c, b, call'[c].matches[b])
  PROVE  CallsSane' /\ AskedKept' /\ MatchesFromEntries'
<1>1. CallsSane'
  <2>1. ASSUME NEW d \in Callers \ {c}
        PROVE  /\ Busy(d)' = Busy(d) /\ Holds(d)' = Holds(d)
               /\ call'[d] = call[d]
    BY <2>1 DEF Busy, Holds
  <2> QED
    BY <2>1 DEF IInv, CallsSane
<1>2. AskedKept'
  BY AskedStep DEF IInv
<1>3. MatchesFromEntries'
  BY MatchesStep DEF IInv
<1> QED
  BY <1>1, <1>2, <1>3

\* A step of c that puts no entry in a new place and touches none keeps the
\* invariant if the calls are in order.
LEMMA CallerStep ==
  ASSUME IInv, History, TypeOK', FreeReset', NEW c \in Callers,
         UNCHANGED now,
         \A d \in Callers \ {c} : call'[d] = call[d],
         CallsSane', AskedKept', MatchesFromEntries',
         \A p \in Prints, b \in BackendIDs :
           table'[p][b] = NoEntry \/ Place(table'[p][b], p, b),
         Holds(c)' => Place(call'[c].entry, Current(c)', call'[c].id),
         \A e \in Entries : lastSeen'[e] \in {lastSeen[e], 0}
  PROVE  IInv'
<1>1. \A e \in Entries, p \in Prints, b \in BackendIDs :
        Place(e, p, b)' => Place(e, p, b)
  BY PlacesShrink
<1>2. OneOwner'
  BY <1>1, OwnersKept DEF IInv
<1>3. TimesRecorded'
  BY <1>1, TimesKept, RecordedGrows DEF IInv
<1>4. TimesPast'
  <2>1. 0 <= now
    BY StartAssumption DEF IInv, TypeOK
  <2> QED
    BY <2>1 DEF IInv, TimesPast
<1> QED
  BY <1>2, <1>3, <1>4 DEF IInv

\* If the heap is left as it was, an address that becomes free has no time.
LEMMA FreeKept ==
  ASSUME TypeOK, FreeReset, UNCHANGED <<table, lastSeen>>, NEW c \in Callers,
         \A d \in Callers \ {c} : call'[d] = call[d],
         call[c].entry \in {NoEntry, call'[c].entry}
  PROVE  FreeReset'
<1> SUFFICES ASSUME NEW e \in Entries, e \notin Live'
             PROVE  e \notin Live
  BY DEF FreeReset
<1>1. \A p \in Prints, b \in BackendIDs : table[p][b] # e
  BY DEF Live
<1>2. \A d \in Callers : call'[d].entry # e
  BY DEF Live
<1>3. \A d \in Callers : call[d].entry # e
  BY <1>2, NoEntryAssumption
<1> QED
  BY <1>1, <1>3 DEF Live

\* The entries the table has are in their place.
LEMMA TablePlaces ==
  ASSUME NEW p \in Prints, NEW b \in BackendIDs
  PROVE  Place(table[p][b], p, b)
BY DEF Place

LEMMA BeginKeeps ==
  ASSUME IInv, History, NEW c \in Callers,
         BeginLookup(c) \/ BeginRemember(c)
  PROVE  IInv'
<1>1. now \in Int /\ now >= Start
  BY StartAssumption, MaxTimeAssumption DEF IInv, TypeOK
<1>2. ~Holds(c) /\ call[c].entry = NoEntry
  <2>1. call[c].op = "idle"
    BY DEF BeginLookup, BeginRemember
  <2> QED
    BY <2>1 DEF Holds, IInv, CallsSane
<1>3. CASE BeginLookup(c)
  <2>1. /\ TypeOK' /\ UNCHANGED <<table, lastSeen, now>>
        /\ \A d \in Callers \ {c} : call'[d] = call[d]
        /\ call[c].op = "idle" /\ call'[c].op = "range"
        /\ call'[c].start = now /\ call'[c].entry = NoEntry
        /\ call'[c].matches = NoMatches
    BY <1>3, BeginLookupStep DEF IInv
  <2>2. FreeReset'
    BY <1>2, <2>1, FreeKept DEF IInv
  <2>3. \A b \in BackendIDs : call'[c].matches[b] = NoMatch
    BY <2>1 DEF NoMatches
  <2>4. ~Busy(c) /\ Busy(c)' /\ ~Holds(c)'
    BY <2>1 DEF Busy, Holds
  <2>5. CallsSane' /\ AskedKept' /\ MatchesFromEntries'
    BY <1>1, <2>1, <2>3, <2>4, CallsKept
  <2> QED
    BY <2>1, <2>2, <2>4, <2>5, CallerStep, TablePlaces
<1>4. CASE BeginRemember(c)
  <2>1. /\ TypeOK' /\ UNCHANGED <<table, lastSeen, now>>
        /\ \A d \in Callers \ {c} : call'[d] = call[d]
        /\ call'[c].op = "load"
        /\ call'[c].start = now /\ call'[c].id \in BackendIDs
        /\ call'[c].entry = NoEntry
    BY <1>4, BeginRememberStep DEF IInv
  <2>2. FreeReset'
    BY <1>2, <2>1, FreeKept DEF IInv
  <2>3. ~InLookup(c)' /\ ~Holds(c)'
    BY <2>1 DEF InLookup, Holds
  <2>4. CallsSane' /\ AskedKept' /\ MatchesFromEntries'
    BY <1>1, <2>1, <2>3, CallsKept
  <2> QED
    BY <2>1, <2>2, <2>3, <2>4, CallerStep, TablePlaces
<1> QED
  BY <1>3, <1>4

\* What CallsSane says of one caller in the middle of a call.
LEMMA SaneCaller ==
  ASSUME IInv, NEW c \in Callers, Busy(c)
  PROVE  /\ call[c].start <= now /\ call[c].start >= Start
         /\ ~Holds(c) => call[c].entry = NoEntry
BY DEF IInv, CallsSane

LEMMA VisitKeeps ==
  ASSUME IInv, History, NEW c \in Callers, Visit(c)
  PROVE  IInv'
<1>1. /\ TypeOK' /\ UNCHANGED <<table, lastSeen, now>>
      /\ \A d \in Callers \ {c} : call'[d] = call[d]
      /\ call[c].op = "range" /\ call[c].prints # <<>>
      /\ call'[c].start = call[c].start /\ call'[c].prints = call[c].prints
      /\ call'[c].matches = call[c].matches
      /\ \E b \in call[c].keys :
           /\ b \in BackendIDs
           /\ \/ /\ call'[c].op = "range" /\ call'[c].entry = call[c].entry
              \/ /\ table[Current(c)][b] \in Entries
                 /\ call'[c].op = "age" /\ call'[c].id = b
                 /\ call'[c].entry = table[Current(c)][b]
  BY VisitStep DEF IInv
<1>2. Busy(c) /\ InLookup(c) /\ ~Holds(c) /\ call[c].entry = NoEntry
  BY <1>1, SaneCaller DEF Busy, InLookup, Holds
<1>3. FreeReset'
  BY <1>1, <1>2, FreeKept DEF IInv
<1>4. Current(c)' = Current(c) /\ Current(c) \in Prints
  <2>1. call[c].prints \in Seq(Prints)
    BY DEF IInv, TypeOK, Call
  <2> QED
    BY <1>1, <2>1, ElemsOfPrints DEF Current
<1>5. Holds(c)' => Place(call'[c].entry, Current(c)', call'[c].id)
  BY <1>1, <1>4, TablePlaces DEF Holds
<1>6. ~Holds(c)' => call'[c].entry = NoEntry
  BY <1>1, <1>2 DEF Holds
<1>7. call'[c].op \notin {"load", "touch", "link"}
  BY <1>1
<1>8. CallsSane' /\ AskedKept' /\ MatchesFromEntries'
  BY <1>1, <1>2, <1>6, <1>7, CallsKept, SaneCaller
<1> QED
  BY <1>1, <1>3, <1>5, <1>8, CallerStep, TablePlaces

\* The age comes from an entry in its place: either its time was recorded
\* there or it is still 0.
LEMMA ReadAgeKeeps ==
  ASSUME IInv, History, NEW c \in Callers, ReadAge(c)
  PROVE  IInv'
<1> DEFINE age == call[c].start - lastSeen[call[c].entry]
<1>1. /\ TypeOK' /\ UNCHANGED <<table, now>> /\ Heap(lastSeen)
      /\ \A d \in Callers \ {c} : call'[d] = call[d]
      /\ call[c].op = "age" /\ age \in Int
      /\ call'[c].start = call[c].start /\ call'[c].prints = call[c].prints
      /\ \/ /\ isExpired(age) /\ call'[c].op = "evict"
            /\ call'[c].id = call[c].id /\ call'[c].entry = call[c].entry
            /\ call'[c].matches = call[c].matches
         \/ /\ ~isExpired(age) /\ call'[c].op = "range"
            /\ call'[c].entry = NoEntry
            /\ \/ call'[c].matches = [call[c].matches EXCEPT
                                        ![call[c].id] = MatchOf(c, age)]
               \/ call'[c].matches = call[c].matches
  BY ReadAgeStep DEF IInv
<1>2. Busy(c) /\ InLookup(c) /\ Holds(c)
  BY <1>1 DEF Busy, InLookup, Holds
<1>3. /\ call[c] \in Call /\ call[c].prints # <<>> /\ Current(c) \in Prints
      /\ call[c].id \in BackendIDs /\ call[c].entry \in Entries
  BY <1>2, Holding DEF IInv
<1>4. Place(call[c].entry, Current(c), call[c].id)
  BY <1>2 DEF Place
<1>5. FreeReset' /\ \A e \in Entries : lastSeen'[e] \in {lastSeen[e], 0}
  BY <1>1, Cleared DEF IInv
<1>6. Holds(c)' => Place(call'[c].entry, Current(c)', call'[c].id)
  BY <1>1, <1>4 DEF Holds, Current
<1>7. ~isExpired(age) => FromEntry(c, call[c].id, MatchOf(c, age))
  <2>1. Current(c) \in asked[c]
    <3>1. call[c].prints \in Seq(Prints)
      BY <1>3 DEF Call
    <3>2. Current(c) \in Elems(call[c].prints)
      BY <1>3, <3>1, ElemsOfPrints DEF Current
    <3> QED
      BY <1>2, <3>2 DEF IInv, AskedKept
  <2>2. call[c].start - age = lastSeen[call[c].entry]
    BY <1>3 DEF IInv, TypeOK, Call
  <2>3. \/ <<Current(c), call[c].id, lastSeen[call[c].entry]>> \in recorded
        \/ lastSeen[call[c].entry] = 0
    BY <1>3, <1>4 DEF IInv, TimesRecorded
  <2> HIDE DEF age
  <2> QED
    BY <2>1, <2>2, <2>3 DEF FromEntry, MatchOf
<1>8. InLookup(c)' => \A b \in BackendIDs :
        \/ call'[c].matches[b] = call[c].matches[b]
        \/ FromEntry(c, b, call'[c].matches[b])
  <2>1. call[c].matches \in [BackendIDs -> CandidateMatch]
    BY <1>3 DEF Call
  <2> HIDE DEF age
  <2> QED
    BY <1>1, <1>3, <1>7, <2>1
<1>9. /\ ~Holds(c)' => call'[c].entry = NoEntry
      /\ call'[c].op \notin {"load", "touch", "link"}
  BY <1>1 DEF Holds
<1> HIDE DEF age
<1>10. CallsSane' /\ AskedKept' /\ MatchesFromEntries'
  BY <1>1, <1>2, <1>8, <1>9, CallsKept, SaneCaller
<1> QED
  BY <1>1, <1>5, <1>6, <1>10, CallerStep, TablePlaces

LEMMA EvictKeeps ==
  ASSUME IInv, History, NEW c \in Callers, Evict(c)
  PROVE  IInv'
<1>1. /\ TypeOK' /\ UNCHANGED now /\ Heap(lastSeen)
      /\ \A d \in Callers \ {c} : call'[d] = call[d]
      /\ call[c].op = "evict" /\ call'[c].op = "range"
      /\ call'[c].start = call[c].start /\ call'[c].prints = call[c].prints
      /\ call'[c].entry = NoEntry /\ call'[c].matches = call[c].matches
      /\ table'[Current(c)][call[c].id] = NoEntry
      /\ \A q \in Prints, a \in BackendIDs :
           q # Current(c) \/ a # call[c].id => table'[q][a] = table[q][a]
  BY EvictStep DEF IInv
<1>2. Busy(c) /\ InLookup(c) /\ ~Holds(c)'
  BY <1>1 DEF Busy, InLookup, Holds
<1>3. FreeReset' /\ \A e \in Entries : lastSeen'[e] \in {lastSeen[e], 0}
  BY <1>1, Cleared DEF IInv
<1>4. CallsSane' /\ AskedKept' /\ MatchesFromEntries'
  BY <1>1, <1>2, CallsKept, SaneCaller
<1>5. \A q \in Prints, a \in BackendIDs :
        table'[q][a] = NoEntry \/ Place(table'[q][a], q, a)
  BY <1>1, TablePlaces
<1> QED
  BY <1>1, <1>2, <1>3, <1>4, <1>5, CallerStep

LEMMA EndRangeKeeps ==
  ASSUME IInv, History, NEW c \in Callers, EndRange(c)
  PROVE  IInv'
<1>1. /\ TypeOK' /\ UNCHANGED <<table, lastSeen, now>>
      /\ \A d \in Callers \ {c} : call'[d] = call[d]
      /\ call[c].op = "range" /\ call'[c].op = "range"
      /\ call[c].prints # <<>> /\ call'[c].start = call[c].start
      /\ call'[c].prints = Tail(call[c].prints)
      /\ call'[c].entry = call[c].entry
      /\ call'[c].matches = call[c].matches
  BY EndRangeStep DEF IInv
<1>2. /\ Busy(c) /\ InLookup(c) /\ ~Holds(c) /\ ~Holds(c)'
      /\ call[c].entry = NoEntry
  BY <1>1, SaneCaller DEF Busy, InLookup, Holds
<1>3. FreeReset'
  BY <1>1, <1>2, FreeKept DEF IInv
<1>4. Elems(call'[c].prints) \subseteq Elems(call[c].prints)
  <2>1. call[c].prints \in Seq(Prints)
    BY DEF IInv, TypeOK, Call
  <2> QED
    BY <1>1, <2>1, ElemsOfPrints
<1>5. CallsSane' /\ AskedKept' /\ MatchesFromEntries'
  BY <1>1, <1>2, <1>4, CallsKept, SaneCaller
<1> QED
  BY <1>1, <1>2, <1>3, <1>5, CallerStep, TablePlaces

LEMMA ReturnKeeps ==
  ASSUME IInv, History, NEW c \in Callers, Answer(c) \/ Return(c)
  PROVE  IInv'
<1>1. /\ TypeOK' /\ UNCHANGED <<table, lastSeen, now>>
      /\ \A d \in Callers \ {c} : call'[d] = call[d]
      /\ call[c].op \in {"range", "load"} /\ call'[c].op = "idle"
      /\ call'[c].start = 0 /\ call'[c].entry = NoEntry
  BY ReturnStep DEF IInv
<1>2. /\ Busy(c) /\ ~Holds(c) /\ call[c].entry = NoEntry
      /\ ~Busy(c)' /\ ~InLookup(c)' /\ ~Holds(c)'
  BY <1>1, SaneCaller DEF Busy, InLookup, Holds
<1>3. FreeReset'
  BY <1>1, <1>2, FreeKept DEF IInv
<1>4. 0 <= now
  BY StartAssumption DEF IInv, TypeOK
<1>5. CallsSane' /\ AskedKept' /\ MatchesFromEntries'
  BY <1>1, <1>2, <1>4, CallsKept
<1> QED
  BY <1>1, <1>2, <1>3, <1>5, CallerStep, TablePlaces

\* A new entry is one nobody could reach, so that it has no time and no place
\* but the new one.
LEMMA LoadOrStoreKeeps ==
  ASSUME IInv, History, NEW c \in Callers, LoadOrStore(c)
  PROVE  IInv'
<1> DEFINE p == Current(c)
           b == call[c].id
           n == call'[c].entry
<1>1. /\ TypeOK' /\ UNCHANGED now /\ Heap(lastSeen)
      /\ \A d \in Callers \ {c} : call'[d] = call[d]
      /\ call[c].op = "load" /\ b \in BackendIDs /\ p \in Prints
      /\ call'[c].op = "touch" /\ n \in Entries
      /\ call'[c].start = call[c].start /\ call'[c].prints = call[c].prints
      /\ call'[c].id = b
      /\ IF table[p][b] = NoEntry THEN n \notin Live ELSE n = table[p][b]
      /\ table'[p][b] = n
      /\ \A q \in Prints, a \in BackendIDs :
           q # p \/ a # b => table'[q][a] = table[q][a]
  BY LoadOrStoreStep DEF IInv
<1>2. /\ Busy(c) /\ ~InLookup(c)' /\ Holds(c)' /\ Current(c)' = p
  BY <1>1 DEF Busy, InLookup, Holds, Current
<1> HIDE DEF p, b, n
<1>3. /\ FreeReset' /\ \A e \in Entries : lastSeen'[e] \in {lastSeen[e], 0}
  BY <1>1, Cleared DEF IInv
<1>4. CallsSane' /\ AskedKept' /\ MatchesFromEntries'
  BY <1>1, <1>2, CallsKept, SaneCaller
<1>5. CASE n = table[p][b]
  <2>1. \A q \in Prints, a \in BackendIDs : Place(table'[q][a], q, a)
    BY <1>1, <1>5, TablePlaces
  <2>2. Place(call'[c].entry, Current(c)', call'[c].id)
    BY <1>1, <1>2, <1>5, TablePlaces DEF n
  <2> QED
    BY <1>1, <1>3, <1>4, <2>1, <2>2, CallerStep
<1>6. CASE n \notin Live
  <2>1. \A q \in Prints, a \in BackendIDs : ~Place(n, q, a)
    BY <1>6 DEF Live, Place
  <2>2. ASSUME NEW e \in Entries, NEW q \in Prints, NEW a \in BackendIDs,
               Place(e, q, a)'
        PROVE  IF e = n THEN q = p /\ a = b ELSE Place(e, q, a)
    <3>1. CASE table'[q][a] = e
      <4>1. CASE q = p /\ a = b
        BY <1>1, <3>1, <4>1
      <4>2. CASE ~(q = p /\ a = b)
        <5>1. table[q][a] = e
          BY <1>1, <3>1, <4>2
        <5>2. Place(e, q, a)
          BY <5>1 DEF Place
        <5> QED
          BY <2>1, <5>2
      <4> QED
        BY <4>1, <4>2
    <3>2. CASE \E d \in Callers : /\ Holds(d)' /\ call'[d].entry = e
                                  /\ Current(d)' = q /\ call'[d].id = a
      <4>1. PICK d \in Callers : /\ Holds(d)' /\ call'[d].entry = e
                                 /\ Current(d)' = q /\ call'[d].id = a
        BY <3>2
      <4>2. CASE d = c
        BY <1>1, <1>2, <4>1, <4>2 DEF n
      <4>3. CASE d # c
        <5>1. call'[d] = call[d]
          BY <1>1, <4>3
        <5>2. Place(e, q, a)
          BY <4>1, <5>1 DEF Holds, Current, Place
        <5> QED
          BY <2>1, <5>2
      <4> QED
        BY <4>2, <4>3
    <3> QED
      BY <2>2, <3>1, <3>2 DEF Place
  <2>3. OneOwner'
    BY <2>2 DEF IInv, OneOwner
  <2>4. TimesRecorded'
    <3>1. lastSeen'[n] = 0
      BY <1>1, <1>3, <1>6 DEF IInv, FreeReset
    <3> QED
      BY <1>3, <2>2, <3>1, RecordedGrows DEF IInv, TimesRecorded
  <2>5. TimesPast'
    <3>1. 0 <= now
      BY StartAssumption DEF IInv, TypeOK
    <3> QED
      BY <1>1, <1>3, <3>1 DEF IInv, TimesPast
  <2> QED
    BY <1>1, <1>3, <1>4, <2>3, <2>4, <2>5 DEF IInv
<1> QED
  BY <1>1, <1>5, <1>6

\* The time is recorded for the one place the entry has.
LEMMA TouchKeeps ==
  ASSUME IInv, History, NEW c \in Callers, Touch(c)
  PROVE  IInv'
<1>0. PICK n : n = call[c].entry
  OBVIOUS
<1>1. /\ TypeOK' /\ UNCHANGED <<table, now>>
      /\ \A d \in Callers \ {c} : call'[d] = call[d]
      /\ call[c].op = "touch" /\ call'[c].op = "link"
      /\ call'[c].start = call[c].start /\ call'[c].prints = call[c].prints
      /\ call'[c].id = call[c].id /\ call'[c].entry = n
      /\ lastSeen'[n] = call[c].start
      /\ \A e \in Entries \ {n} : lastSeen'[e] = lastSeen[e]
  BY <1>0, TouchStep DEF IInv
<1>2. /\ Busy(c) /\ ~InLookup(c)' /\ Holds(c) /\ Holds(c)'
      /\ Current(c)' = Current(c)
  BY <1>1 DEF Busy, InLookup, Holds, Current
<1>3. /\ call[c].id \in BackendIDs /\ n \in Entries /\ Current(c) \in Prints
  BY <1>0, <1>2, Holding DEF IInv
<1>4. CallsSane' /\ AskedKept' /\ MatchesFromEntries'
  BY <1>1, <1>2, <1>3, CallsKept, SaneCaller
<1>5. Place(n, Current(c), call[c].id)
  BY <1>0, <1>2 DEF Place
<1>6. \A e \in Entries, p \in Prints, b \in BackendIDs :
        Place(e, p, b)' => Place(e, p, b)
  BY <1>1, <1>2, <1>5, PlacesShrink, TablePlaces
<1>7. OneOwner'
  BY <1>6, OwnersKept DEF IInv
<1>8. TimesRecorded'
  <2>1. <<Current(c), call[c].id, lastSeen'[n]>> \in recorded'
    BY <1>1 DEF History
  <2>2. \A p \in Prints, b \in BackendIDs :
          Place(n, p, b)' => p = Current(c) /\ b = call[c].id
    BY <1>3, <1>5, <1>6 DEF IInv, OneOwner
  <2> QED
    BY <1>1, <1>6, <2>1, <2>2, RecordedGrows DEF IInv, TimesRecorded
<1>9. TimesPast'
  BY <1>1, <1>2, SaneCaller DEF IInv, TimesPast
<1>10. FreeReset'
  <2>1. n \in Live'
    BY <1>1 DEF Live
  <2>2. ASSUME NEW e \in Entries, e \notin Live'
        PROVE  e \notin Live
    <3>1. \A d \in Callers : call'[d].entry = call[d].entry
      BY <1>0, <1>1
    <3> QED
      BY <1>1, <2>2, <3>1 DEF Live
  <2> QED
    BY <1>1, <2>1, <2>2 DEF IInv, FreeReset
<1> QED
  BY <1>1, <1>4, <1>7, <1>8, <1>9, <1>10 DEF IInv

LEMMA LinkKeeps ==
  ASSUME IInv, History, NEW c \in Callers, Link(c)
  PROVE  IInv'
<1>1. /\ TypeOK' /\ UNCHANGED now /\ Heap(lastSeen)
      /\ \A d \in Callers \ {c} : call'[d] = call[d]
      /\ call[c].op = "link" /\ call'[c].op = "load"
      /\ call'[c].start = call[c].start /\ call'[c].id = call[c].id
      /\ call'[c].entry = NoEntry
      /\ table'[Current(c)][call[c].id] = call[c].entry
      /\ \A q \in Prints, a \in BackendIDs :
           q # Current(c) \/ a # call[c].id => table'[q][a] = table[q][a]
  BY LinkStep DEF IInv
<1>2. Busy(c) /\ ~InLookup(c)' /\ Holds(c) /\ ~Holds(c)'
  BY <1>1 DEF Busy, InLookup, Holds
<1>3. call[c].id \in BackendIDs
  BY <1>2, Holding DEF IInv
<1>4. FreeReset' /\ \A e \in Entries : lastSeen'[e] \in {lastSeen[e], 0}
  BY <1>1, Cleared DEF IInv
<1>5. CallsSane' /\ AskedKept' /\ MatchesFromEntries'
  BY <1>1, <1>2, <1>3, CallsKept, SaneCaller
<1>6. Place(call[c].entry, Current(c), call[c].id)
  BY <1>2 DEF Place
<1>7. \A q \in Prints, a \in BackendIDs : Place(table'[q][a], q, a)
  BY <1>1, <1>6, TablePlaces
<1> QED
  BY <1>1, <1>2, <1>4, <1>5, <1>7, CallerStep

LEMMA TickKeeps ==
  ASSUME IInv, History, Tick
  PROVE  IInv'
<1>1. /\ now' = now + 1 /\ now' \in Start..MaxTime
      /\ UNCHANGED <<table, lastSeen, call>>
  BY StartAssumption, MaxTimeAssumption DEF Tick, IInv, TypeOK
<1>2. TypeOK'
  BY <1>1 DEF IInv, TypeOK
<1>3. CallsSane'
  BY <1>1 DEF IInv, TypeOK, Call, CallsSane, Busy, Holds
<1>4. \A e \in Entries, p \in Prints, b \in BackendIDs :
        Place(e, p, b)' => Place(e, p, b)
  BY <1>1 DEF Place, Holds, Current
<1>5. OneOwner' /\ TimesRecorded'
  BY <1>1, <1>4, OwnersKept, TimesKept, RecordedGrows DEF IInv
<1>6. TimesPast' /\ FreeReset'
  BY <1>1 DEF IInv, TypeOK, TimesPast, FreeReset, Live
<1>7. ASSUME NEW d \in Callers
      PROVE  /\ InLookup(d)' <=> InLookup(d)
             /\ InLookup(d) => asked'[d] = asked[d]
             /\ ~InLookup(d) => asked'[d] \in {{}, asked[d]}
  BY <1>1 DEF History, InLookup
<1>8. AskedKept'
  BY <1>1, <1>7 DEF IInv, AskedKept
<1>9. MatchesFromEntries'
  BY <1>1, <1>7, RecordedGrows
     DEF IInv, MatchesFromEntries, FromEntry, isExpired
<1> QED
  BY <1>2, <1>3, <1>5, <1>6, <1>8, <1>9 DEF IInv

-----------------------------------------------------------------------------
(* What holds of every configuration *)

LEMMA HInitInv == HInit => IInv
<1> SUFFICES ASSUME HInit
             PROVE  IInv
  OBVIOUS
<1>1. TypeOK
  BY InitType DEF HInit
<1>2. /\ \A c \in Callers : call[c] = Idle
      /\ \A p \in Prints, b \in BackendIDs : table[p][b] = NoEntry
      /\ \A e \in Entries : lastSeen[e] = 0
      /\ now = Start /\ \A c \in Callers : asked[c] = {}
  BY DEF HInit, Init
<1>3. Idle.op = "idle" /\ Idle.start = 0 /\ Idle.entry = NoEntry
  BY DEF Idle
<1>4. \A c \in Callers : ~Holds(c) /\ ~Busy(c) /\ ~InLookup(c)
  BY <1>2, <1>3 DEF Holds, Busy, InLookup
<1>5. \A e \in Entries, p \in Prints, b \in BackendIDs : ~Place(e, p, b)
  BY <1>2, <1>4, NoEntryAssumption DEF Place
<1>6. CallsSane /\ TimesPast
  BY <1>2, <1>3, <1>4, StartAssumption DEF CallsSane, TimesPast
<1>7. OneOwner /\ TimesRecorded
  BY <1>5 DEF OneOwner, TimesRecorded
<1>8. FreeReset /\ AskedKept /\ MatchesFromEntries
  BY <1>2, <1>4 DEF FreeReset, AskedKept, MatchesFromEntries
<1> QED
  BY <1>1, <1>6, <1>7, <1>8 DEF IInv

LEMMA StutterKeeps ==
  ASSUME IInv, UNCHANGED hvars
  PROVE  IInv'
<1>1. UNCHANGED <<table, lastSeen, now, call, recorded, asked>>
  BY DEF hvars, vars
<1>2. TypeOK' /\ CallsSane' /\ TimesPast' /\ FreeReset'
  BY <1>1
     DEF IInv, TypeOK, CallsSane, TimesPast, FreeReset, Live, Busy, Holds
<1>3. \A e \in Entries, p \in Prints, b \in BackendIDs :
        Place(e, p, b)' => Place(e, p, b)
  BY <1>1 DEF Place, Holds, Current
<1>4. OneOwner' /\ TimesRecorded'
  BY <1>1, <1>3, OwnersKept, TimesKept DEF IInv
<1>5. AskedKept' /\ MatchesFromEntries'
  BY <1>1
     DEF IInv, AskedKept, MatchesFromEntries, FromEntry, isExpired, InLookup
<1> QED
  BY <1>2, <1>4, <1>5 DEF IInv

LEMMA NextInv == IInv /\ [HNext]_hvars => IInv'
<1> SUFFICES ASSUME IInv, [HNext]_hvars
             PROVE  IInv'
  OBVIOUS
<1>1. CASE HNext
  <2>1. History /\ Next
    BY <1>1 DEF HNext, History
  <2>2. ASSUME NEW c \in Callers, CandidateMatches(c)
        PROVE  IInv'
    BY <2>1, <2>2, BeginKeeps, VisitKeeps, ReadAgeKeeps, EvictKeeps,
       EndRangeKeeps, ReturnKeeps DEF CandidateMatches
  <2>3. ASSUME NEW c \in Callers, Remember(c)
        PROVE  IInv'
    BY <2>1, <2>3, BeginKeeps, LoadOrStoreKeeps, TouchKeeps, LinkKeeps,
       ReturnKeeps DEF Remember
  <2> QED
    BY <2>1, <2>2, <2>3, TickKeeps DEF Next
<1>2. CASE UNCHANGED hvars
  BY <1>2, StutterKeeps
<1> QED
  BY <1>1, <1>2

\* The matcher keeps the types of the code's data, and no call works on an
\* entry without having one, for any callers, prompts, policies and clock.
THEOREM MatcherTypeCorrect == HSpec => []TypeOK
<1>1. IInv => TypeOK
  BY DEF IInv
<1> QED
  BY <1>1, HInitInv, NextInv, PTL DEF HSpec

\* Metadata expires at all.
Expires == ExpiryPolicy # "none" /\ PrefixMaxAge > 0

LEMMA GenuineFromEntries ==
  ASSUME Expires, IInv
  PROVE  CandidatesGenuine
<1> SUFFICES ASSUME NEW c \in Callers, InLookup(c), NEW b \in BackendIDs,
                    call[c].matches[b] # NoMatch
             PROVE  \E p \in asked[c] :
                      /\ Length[p] = call[c].matches[b].MatchLength
                      /\ <<p, b, call[c].start - call[c].matches[b].Age>>
                           \in recorded
                      /\ ~isExpired(call[c].matches[b].Age)
  BY DEF CandidatesGenuine
<1>1. FromEntry(c, b, call[c].matches[b])
  BY DEF IInv, MatchesFromEntries
<1>2. call[c].matches[b].Age \in Int /\ call[c].start \in Int
  <2>1. call[c] \in Call
    BY DEF IInv, TypeOK
  <2>2. call[c].matches[b] \in CandidateMatch
    BY <2>1 DEF Call
  <2> QED
    BY <2>1, <2>2 DEF Call, CandidateMatch
<1>3. call[c].start >= Start
  BY SaneCaller DEF InLookup, Busy
\* A time of 0 would have expired long ago.
<1>4. call[c].start - call[c].matches[b].Age = 0 =>
        isExpired(call[c].matches[b].Age)
  BY <1>2, <1>3, StartAssumption, AgeAssumption DEF isExpired, Expires
<1> QED
  BY <1>1, <1>4 DEF FromEntry

\* With expiry on, no lookup ever answers with a backend that was not recorded
\* for one of its prefixes within the maximum age, whatever overlaps it.
THEOREM CandidatesNeverMadeUp ==
  ASSUME Expires
  PROVE  HSpec => []CandidatesGenuine
<1>1. IInv => CandidatesGenuine
  BY GenuineFromEntries
<1> QED
  BY <1>1, HInitInv, NextInv, PTL DEF HSpec

-----------------------------------------------------------------------------
(* Lone calls *)

\* What HNext says of alone.
Alone ==
  alone' = {c \in Callers :
              /\ Busy(c)'
              /\ \A d \in Callers \ {c} : ~Busy(d)'
              /\ Busy(c) => c \in alone}

\* Entries somebody can reach keep their times in every step but Touch.
LEMMA LiveKept ==
  ASSUME IInv, TypeOK', Heap(lastSeen) \/ UNCHANGED lastSeen
  PROVE  /\ \A e \in Entries : e \in Live' => lastSeen'[e] = lastSeen[e]
         /\ \A e \in Entries : lastSeen'[e] \in {lastSeen[e], 0}
BY Cleared DEF IInv

LEMMA TableIsLive ==
  ASSUME NEW p \in Prints, NEW b \in BackendIDs
  PROVE  table[p][b] \in Live
BY DEF Live

LEMMA EntryIsLive ==
  ASSUME NEW c \in Callers
  PROVE  call[c].entry \in Live
BY DEF Live

LEMMA PendingKept ==
  ASSUME IInv, TypeOK', TouchPending, NEW c \in Callers,
         \A d \in Callers \ {c} : call'[d] = call[d],
         Heap(lastSeen) \/ UNCHANGED lastSeen,
         call[c].op # "touch", call'[c].op # "link",
         \A p \in Prints, b \in BackendIDs :
           \/ table'[p][b] = NoEntry
           \/ table'[p][b] = table[p][b]
           \/ call'[c].op = "touch" /\ call'[c].entry = table'[p][b]
           \/ lastSeen[table'[p][b]] # 0
  PROVE  TouchPending'
<1>1. \A e \in Entries : e \in Live' => lastSeen'[e] = lastSeen[e]
  BY LiveKept
<1>2. ASSUME NEW p \in Prints, NEW b \in BackendIDs,
             table'[p][b] # NoEntry, lastSeen'[table'[p][b]] = 0
      PROVE  \E d \in Callers :
               call'[d].op = "touch" /\ call'[d].entry = table'[p][b]
  <2>1. table'[p][b] \in Entries
    BY <1>2 DEF TypeOK
  <2>2. table'[p][b] \in Live'
    BY DEF Live
  <2>3. lastSeen[table'[p][b]] = 0
    BY <1>1, <1>2, <2>1, <2>2
  <2>4. CASE table'[p][b] = table[p][b]
    <3>1. PICK d \in Callers :
            call[d].op = "touch" /\ call[d].entry = table[p][b]
      BY <1>2, <2>3, <2>4 DEF TouchPending
    <3>2. call'[d] = call[d]
      BY <3>1
    <3> QED
      BY <2>4, <3>1, <3>2
  <2> QED
    BY <1>2, <2>3, <2>4
<1>3. ASSUME NEW d \in Callers, call'[d].op = "link"
      PROVE  lastSeen'[call'[d].entry] # 0
  <2>1. call'[d] = call[d]
    BY <1>3
  <2>2. call[d].entry \in Entries
    BY <1>3, <2>1 DEF IInv, TypeOK
  <2>3. call[d].entry \in Live'
    BY <2>1 DEF Live
  <2> QED
    BY <1>1, <1>3, <2>1, <2>2, <2>3 DEF TouchPending
<1> QED
  BY <1>2, <1>3 DEF TouchPending

LEMMA PendingNext == IInv /\ IInv' /\ TouchPending /\ Next => TouchPending'
<1> SUFFICES ASSUME IInv, IInv', TouchPending, Next
             PROVE  TouchPending'
  OBVIOUS
<1> USE DEF IInv
<1>1. ASSUME NEW c \in Callers, CandidateMatches(c)
      PROVE  TouchPending'
  <2>1. CASE BeginLookup(c)
    BY <2>1, BeginLookupStep, PendingKept
  <2>2. CASE Visit(c)
    BY <2>2, VisitStep, PendingKept
  <2>3. CASE ReadAge(c)
    BY <2>3, ReadAgeStep, PendingKept
  <2>4. CASE Evict(c)
    BY <2>4, EvictStep, PendingKept
  <2>5. CASE EndRange(c)
    BY <2>5, EndRangeStep, PendingKept
  <2>6. CASE Answer(c)
    BY <2>6, ReturnStep, PendingKept
  <2> QED
    BY <1>1, <2>1, <2>2, <2>3, <2>4, <2>5, <2>6 DEF CandidateMatches
<1>2. ASSUME NEW c \in Callers, Remember(c)
      PROVE  TouchPending'
  <2>1. CASE BeginRemember(c)
    BY <2>1, BeginRememberStep, PendingKept
  <2>2. CASE LoadOrStore(c)
    BY <2>2, LoadOrStoreStep, PendingKept
  <2>3. CASE Touch(c)
    <3>1. /\ UNCHANGED table /\ call[c].op = "touch"
          /\ \A d \in Callers \ {c} : call'[d] = call[d]
          /\ call'[c].op = "link" /\ call'[c].entry = call[c].entry
          /\ lastSeen'[call[c].entry] = call[c].start
          /\ \A e \in Entries \ {call[c].entry} : lastSeen'[e] = lastSeen[e]
      BY <2>3, TouchStep
    <3>2. lastSeen'[call[c].entry] # 0
      <4>1. call[c].start >= Start
        BY <3>1, SaneCaller DEF Busy
      <4>2. Start > 0
        BY StartAssumption, AgeAssumption
      <4>3. call[c].start \in Int
        BY DEF TypeOK, Call
      <4> QED
        BY <3>1, <4>1, <4>2, <4>3, StartAssumption
    <3>3. ASSUME NEW p \in Prints, NEW b \in BackendIDs,
                 table'[p][b] # NoEntry, lastSeen'[table'[p][b]] = 0
          PROVE  \E d \in Callers :
                   call'[d].op = "touch" /\ call'[d].entry = table'[p][b]
      <4>1. /\ table[p][b] \in Entries /\ table[p][b] # call[c].entry
            /\ table'[p][b] = table[p][b] /\ table[p][b] # NoEntry
        BY <3>1, <3>2, <3>3 DEF TypeOK
      <4>2. PICK d \in Callers :
              call[d].op = "touch" /\ call[d].entry = table[p][b]
        BY <3>1, <3>3, <4>1 DEF TouchPending
      <4>3. call'[d] = call[d]
        BY <3>1, <4>1, <4>2
      <4> QED
        BY <4>1, <4>2, <4>3
    <3>4. ASSUME NEW d \in Callers, call'[d].op = "link"
          PROVE  lastSeen'[call'[d].entry] # 0
      <4>1. CASE d = c
        BY <3>1, <3>2, <4>1
      <4>2. CASE d # c
        <5>1. /\ call'[d] = call[d] /\ call[d].entry \in Entries
              /\ lastSeen[call[d].entry] # 0
          BY <3>1, <3>4, <4>2 DEF TypeOK, TouchPending
        <5> QED
          BY <3>1, <3>2, <5>1
      <4> QED
        BY <4>1, <4>2
    <3> QED
      BY <3>3, <3>4 DEF TouchPending
  <2>4. CASE Link(c)
    <3>1. lastSeen[call[c].entry] # 0
      BY <2>4, LinkStep DEF TouchPending
    <3> QED
      BY <2>4, <3>1, LinkStep, PendingKept
  <2>5. CASE Return(c)
    BY <2>5, ReturnStep, PendingKept
  <2> QED
    BY <1>2, <2>1, <2>2, <2>3, <2>4, <2>5 DEF Remember
<1>3. CASE Tick
  BY <1>3 DEF Tick, TouchPending
<1> QED
  BY <1>1, <1>2, <1>3 DEF Next

\* A step of c leaves nobody alone but c, and c only if it was alone before or
\* has just begun.
LEMMA AloneStep ==
  ASSUME LoneUndisturbed, Alone, NEW c \in Callers,
         \A d \in Callers \ {c} : call'[d] = call[d],
         Busy(c) \/ Busy(c)',
         NEW d \in alone'
  PROVE  /\ d = c /\ Busy(c)' /\ \A a \in Callers \ {c} : ~Busy(a)'
         /\ Busy(c) => c \in alone
<1>1. /\ d \in Callers /\ Busy(d)' /\ \A a \in Callers \ {d} : ~Busy(a)'
      /\ Busy(d) => d \in alone
  BY DEF Alone
<1>2. ASSUME d # c
      PROVE  FALSE
  <2>1. call'[d] = call[d] /\ Busy(d) /\ ~Busy(c)'
    BY <1>1, <1>2 DEF Busy
  <2>2. ~Busy(c)
    BY <1>1, <1>2, <2>1 DEF LoneUndisturbed
  <2> QED
    BY <2>1, <2>2
<1> QED
  BY <1>1, <1>2

\* A lone call that has begun before stays undisturbed if its own step leaves
\* the table as it says.
LEMMA UndisturbedKept ==
  ASSUME IInv, IInv', LoneUndisturbed, Alone, NEW c \in Callers, Busy(c),
         \A d \in Callers \ {c} : call'[d] = call[d],
         Busy(c)' => call'[c].start = call[c].start,
         c \in alone =>
           /\ \A e \in Entries :
                lastSeen'[e] \in {lastSeen[e], 0, call[c].start}
           /\ Holds(c)' =>
                table'[Current(c)'][call'[c].id] = call'[c].entry
           /\ call'[c].op = "evict" =>
                isExpired(call[c].start - lastSeen'[call'[c].entry])
           /\ call'[c].op = "link" =>
                lastSeen'[call'[c].entry] = call[c].start
  PROVE  LoneUndisturbed'
<1> SUFFICES ASSUME NEW d \in alone'
             PROVE  /\ d \in Callers /\ Busy(d)'
                    /\ \A a \in Callers \ {d} : ~Busy(a)'
                    /\ \A e \in Entries : lastSeen'[e] <= call'[d].start
                    /\ Holds(d)' =>
                         table'[Current(d)'][call'[d].id] = call'[d].entry
                    /\ call'[d].op = "evict" =>
                         isExpired(call'[d].start - lastSeen'[call'[d].entry])
                    /\ call'[d].op = "link" =>
                         lastSeen'[call'[d].entry] = call'[d].start
  BY DEF LoneUndisturbed, isExpired
<1>1. /\ d = c /\ Busy(c)' /\ \A a \in Callers \ {c} : ~Busy(a)'
      /\ c \in alone
  BY AloneStep
<1>2. \A e \in Entries : lastSeen'[e] <= call'[c].start
  <2>1. call[c].start \in Nat /\ \A e \in Entries : lastSeen[e] \in Nat
    BY MaxTimeAssumption DEF IInv, TypeOK, Call
  <2>2. \A e \in Entries : lastSeen[e] <= call[c].start
    BY <1>1 DEF LoneUndisturbed
  <2> QED
    BY <1>1, <2>1, <2>2
<1> QED
  BY <1>1, <1>2

\* Whoever begins alone sees only times of the past.
LEMMA UndisturbedBegins ==
  ASSUME IInv, IInv', LoneUndisturbed, Alone, NEW c \in Callers,
         UNCHANGED lastSeen, \A d \in Callers \ {c} : call'[d] = call[d],
         call'[c].op \in {"range", "load"}, call'[c].start = now
  PROVE  LoneUndisturbed'
<1> SUFFICES ASSUME NEW d \in alone'
             PROVE  /\ d \in Callers /\ Busy(d)'
                    /\ \A a \in Callers \ {d} : ~Busy(a)'
                    /\ \A e \in Entries : lastSeen'[e] <= call'[d].start
                    /\ ~Holds(d)' /\ call'[d].op \notin {"evict", "link"}
  BY DEF LoneUndisturbed
<1>1. Busy(c)'
  BY DEF Busy
<1>2. d = c /\ \A a \in Callers \ {c} : ~Busy(a)'
  BY <1>1, AloneStep
<1> QED
  BY <1>1, <1>2 DEF IInv, TimesPast, Holds

LEMMA UndisturbedNext ==
  IInv /\ IInv' /\ LoneUndisturbed /\ Alone /\ Next => LoneUndisturbed'
<1> SUFFICES ASSUME IInv, IInv', LoneUndisturbed, Alone, Next
             PROVE  LoneUndisturbed'
  OBVIOUS
<1>t. TypeOK /\ TypeOK' /\ CallsSane
  BY DEF IInv
<1>1. ASSUME NEW c \in Callers, CandidateMatches(c)
      PROVE  LoneUndisturbed'
  <2>1. CASE BeginLookup(c)
    BY <1>t, <2>1, BeginLookupStep, UndisturbedBegins
  <2>2. CASE Visit(c)
    <3>1. /\ UNCHANGED <<table, lastSeen, now>>
          /\ \A d \in Callers \ {c} : call'[d] = call[d]
          /\ call[c].op = "range" /\ call'[c].start = call[c].start
          /\ call'[c].prints = call[c].prints
          /\ \/ call'[c].op = "range"
             \/ /\ call'[c].op = "age"
                /\ call'[c].entry = table[Current(c)][call'[c].id]
      BY <1>t, <2>2, VisitStep
    <3>2. Busy(c) /\ Current(c)' = Current(c)
      BY <3>1 DEF Busy, Current
    <3>3. Holds(c)' => table'[Current(c)'][call'[c].id] = call'[c].entry
      BY <3>1, <3>2 DEF Holds
    <3>4. call'[c].op \notin {"evict", "link"}
      BY <3>1
    <3> QED
      BY <3>1, <3>2, <3>3, <3>4, UndisturbedKept
  <2>3. CASE ReadAge(c)
    <3> DEFINE age == call[c].start - lastSeen[call[c].entry]
    <3>1. /\ UNCHANGED table /\ Heap(lastSeen)
          /\ \A d \in Callers \ {c} : call'[d] = call[d]
          /\ call[c].op = "age" /\ call'[c].start = call[c].start
          /\ call'[c].prints = call[c].prints
          /\ \/ /\ isExpired(age) /\ call'[c].op = "evict"
                /\ call'[c].id = call[c].id /\ call'[c].entry = call[c].entry
             \/ call'[c].op = "range"
      BY <1>t, <2>3, ReadAgeStep
    <3>2. /\ Busy(c) /\ Holds(c) /\ Current(c)' = Current(c)
          /\ call[c].entry \in Entries
      BY <1>t, <3>1, Holding DEF Busy, Holds, Current
    <3>3. \A e \in Entries : lastSeen'[e] \in {lastSeen[e], 0}
      BY <1>t, <3>1, Cleared
    <3>4. ASSUME call'[c].op = "evict"
          PROVE  isExpired(call[c].start - lastSeen'[call'[c].entry])
      <4>1. call'[c].entry \in Live'
        BY DEF Live
      <4>2. lastSeen'[call'[c].entry] = lastSeen[call[c].entry]
        BY <1>t, <3>1, <3>2, <3>4, <4>1, Cleared
      <4> QED
        BY <3>1, <3>4, <4>2
    <3>5. c \in alone =>
            (Holds(c)' => table'[Current(c)'][call'[c].id] = call'[c].entry)
      BY <3>1, <3>2 DEF Holds, LoneUndisturbed
    <3> HIDE DEF age
    <3>6. call'[c].op # "link"
      BY <3>1
    <3> QED
      BY <3>1, <3>2, <3>3, <3>4, <3>5, <3>6, UndisturbedKept
  <2>4. CASE Evict(c)
    <3>1. /\ Busy(c) /\ ~Holds(c)' /\ call'[c].op = "range"
          /\ \A d \in Callers \ {c} : call'[d] = call[d]
          /\ call'[c].start = call[c].start
          /\ \A e \in Entries : lastSeen'[e] \in {lastSeen[e], 0}
      BY <1>t, <2>4, EvictStep, Cleared DEF Busy, Holds
    <3> QED
      BY <3>1, UndisturbedKept
  <2>5. CASE EndRange(c)
    <3>1. /\ Busy(c) /\ ~Holds(c)' /\ call'[c].op = "range"
          /\ \A d \in Callers \ {c} : call'[d] = call[d]
          /\ call'[c].start = call[c].start
          /\ \A e \in Entries : lastSeen'[e] \in {lastSeen[e], 0}
      BY <1>t, <2>5, EndRangeStep DEF Busy, Holds
    <3> QED
      BY <3>1, UndisturbedKept
  <2>6. CASE Answer(c)
    <3>1. /\ Busy(c) /\ ~Holds(c)' /\ call'[c].op = "idle" /\ ~Busy(c)'
          /\ \A d \in Callers \ {c} : call'[d] = call[d]
          /\ \A e \in Entries : lastSeen'[e] \in {lastSeen[e], 0}
      BY <1>t, <2>6, ReturnStep DEF Busy, Holds
    <3> QED
      BY <3>1, UndisturbedKept
  <2> QED
    BY <1>1, <2>1, <2>2, <2>3, <2>4, <2>5, <2>6 DEF CandidateMatches
<1>2. ASSUME NEW c \in Callers, Remember(c)
      PROVE  LoneUndisturbed'
  <2>1. CASE BeginRemember(c)
    BY <1>t, <2>1, BeginRememberStep, UndisturbedBegins
  <2>2. CASE LoadOrStore(c)
    <3>1. /\ \A d \in Callers \ {c} : call'[d] = call[d]
          /\ call[c].op = "load" /\ call'[c].op = "touch"
          /\ call'[c].start = call[c].start /\ call'[c].prints = call[c].prints
          /\ call'[c].id = call[c].id
          /\ table'[Current(c)][call[c].id] = call'[c].entry
          /\ \A e \in Entries : lastSeen'[e] \in {lastSeen[e], 0}
      BY <1>t, <2>2, LoadOrStoreStep, Cleared
    <3>2. Busy(c) /\ Current(c)' = Current(c)
      BY <3>1 DEF Busy, Current
    <3>3. table'[Current(c)'][call'[c].id] = call'[c].entry
      BY <3>1, <3>2
    <3>4. call'[c].op \notin {"evict", "link"}
      BY <3>1
    <3> QED
      BY <3>1, <3>2, <3>3, <3>4, UndisturbedKept
  <2>3. CASE Touch(c)
    <3>1. /\ UNCHANGED table
          /\ \A d \in Callers \ {c} : call'[d] = call[d]
          /\ call[c].op = "touch" /\ call'[c].op = "link"
          /\ call'[c].start = call[c].start /\ call'[c].prints = call[c].prints
          /\ call'[c].id = call[c].id /\ call'[c].entry = call[c].entry
          /\ lastSeen'[call[c].entry] = call[c].start
          /\ \A e \in Entries \ {call[c].entry} : lastSeen'[e] = lastSeen[e]
      BY <1>t, <2>3, TouchStep
    <3>2. Busy(c) /\ Holds(c) /\ Current(c)' = Current(c)
      BY <3>1 DEF Busy, Holds, Current
    <3>3. c \in alone =>
            table'[Current(c)'][call'[c].id] = call'[c].entry
      BY <3>1, <3>2 DEF LoneUndisturbed
    <3>4. \A e \in Entries : lastSeen'[e] \in {lastSeen[e], 0, call[c].start}
      BY <3>1
    <3>5. call'[c].op # "evict"
      BY <3>1
    <3> QED
      BY <3>1, <3>2, <3>3, <3>4, <3>5, UndisturbedKept
  <2>4. CASE Link(c)
    <3>1. /\ Busy(c) /\ ~Holds(c)' /\ call'[c].op = "load"
          /\ \A d \in Callers \ {c} : call'[d] = call[d]
          /\ call'[c].start = call[c].start
          /\ \A e \in Entries : lastSeen'[e] \in {lastSeen[e], 0}
      BY <1>t, <2>4, LinkStep, Cleared DEF Busy, Holds
    <3> QED
      BY <3>1, UndisturbedKept
  <2>5. CASE Return(c)
    <3>1. /\ Busy(c) /\ ~Holds(c)' /\ call'[c].op = "idle" /\ ~Busy(c)'
          /\ \A d \in Callers \ {c} : call'[d] = call[d]
          /\ \A e \in Entries : lastSeen'[e] \in {lastSeen[e], 0}
      BY <1>t, <2>5, ReturnStep DEF Busy, Holds
    <3> QED
      BY <3>1, UndisturbedKept
  <2> QED
    BY <1>2, <2>1, <2>2, <2>3, <2>4, <2>5 DEF Remember
<1>3. CASE Tick
  <2>1. UNCHANGED <<table, lastSeen, call>>
    BY <1>3 DEF Tick
  <2>2. alone' \subseteq alone
    BY <2>1 DEF Alone, Busy
  <2>3. \A c \in Callers :
          /\ (Busy(c)' <=> Busy(c)) /\ (Holds(c)' <=> Holds(c))
          /\ Current(c)' = Current(c)
    BY <2>1 DEF Busy, Holds, Current
  <2> QED
    BY <2>1, <2>2, <2>3 DEF LoneUndisturbed, isExpired
<1> QED
  BY <1>1, <1>2, <1>3 DEF Next

-----------------------------------------------------------------------------
(* The steps of lone calls are steps of the table of times *)

LEMMA SeenAt ==
  ASSUME NEW p \in Prints, NEW b \in BackendIDs
  PROVE  Seen[p][b] = IF table[p][b] = NoEntry THEN 0 ELSE lastSeen[table[p][b]]
BY DEF Seen

\* The table of times changes at most at one place.
LEMMA SeenReplaced ==
  ASSUME NEW p \in Prints, NEW b \in BackendIDs, NEW t,
         \A q \in Prints, a \in BackendIDs :
           Seen'[q][a] = IF q = p /\ a = b THEN t ELSE Seen[q][a]
  PROVE  Seen' = [Seen EXCEPT ![p][b] = t]
<1> DEFINE rows == [Seen EXCEPT ![p][b] = t]
<1>1. /\ Seen = [q \in Prints |-> [a \in BackendIDs |-> Seen[q][a]]]
      /\ Seen' = [q \in Prints |-> [a \in BackendIDs |-> Seen'[q][a]]]
  BY DEF Seen
<1>2. rows = [q \in Prints |-> [a \in BackendIDs |->
                IF q = p /\ a = b THEN t ELSE Seen[q][a]]]
  BY <1>1, SMTT(30)
<1> QED
  BY <1>1, <1>2

LEMMA SeenSame ==
  ASSUME \A q \in Prints, a \in BackendIDs : Seen'[q][a] = Seen[q][a]
  PROVE  Seen' = Seen
BY DEF Seen

\* A step that keeps a cell of the table, or puts back what was there, keeps
\* its time unless the entry is touched.
LEMMA TimeKept ==
  ASSUME IInv, TypeOK', Heap(lastSeen) \/ UNCHANGED lastSeen,
         NEW p \in Prints, NEW b \in BackendIDs, table'[p][b] = table[p][b]
  PROVE  Seen'[p][b] = Seen[p][b]
<1>1. table'[p][b] \in Live'
  BY DEF Live
<1>2. CASE table[p][b] = NoEntry
  BY <1>2 DEF Seen
<1>3. CASE table[p][b] # NoEntry
  <2>1. table'[p][b] \in Entries
    BY <1>3 DEF IInv, TypeOK
  <2>2. lastSeen'[table'[p][b]] = lastSeen[table[p][b]]
    BY <1>1, <2>1, LiveKept
  <2> QED
    BY <1>3, <2>2 DEF Seen
<1> QED
  BY <1>2, <1>3

LEMMA EvictForgets ==
  ASSUME IInv, LoneUndisturbed, NEW c \in alone, Evict(c)
  PROVE  Table!Forget(Current(c), call[c].id)
<1> DEFINE p == Current(c)
           b == call[c].id
<1>1. /\ c \in Callers /\ Busy(c)
      /\ table[p][b] = call[c].entry
      /\ isExpired(call[c].start - lastSeen[call[c].entry])
  BY DEF LoneUndisturbed, Evict, Holds
<1>2. TypeOK /\ Holds(c)
  BY DEF IInv, Evict, Holds
<1>3. p \in Prints /\ b \in BackendIDs /\ call[c].entry \in Entries
  BY <1>1, <1>2, Holding
<1>4. /\ TypeOK' /\ UNCHANGED now /\ Heap(lastSeen)
      /\ table'[p][b] = NoEntry
      /\ \A q \in Prints, a \in BackendIDs :
           q # p \/ a # b => table'[q][a] = table[q][a]
  BY <1>1, <1>2, EvictStep
<1> HIDE DEF p, b
<1>5. Seen[p][b] = lastSeen[call[c].entry]
  BY <1>1, <1>3, SeenAt, NoEntryAssumption
<1>6. now - Seen[p][b] > PrefixMaxAge
  <2>1. call[c].start <= now /\ call[c].start \in Int /\ now \in Int
    BY <1>1, <1>2, MaxTimeAssumption, StartAssumption
       DEF IInv, CallsSane, TypeOK, Call
  <2>2. lastSeen[call[c].entry] \in Int
    BY <1>2, <1>3, MaxTimeAssumption, StartAssumption DEF TypeOK
  <2> QED
    BY <1>1, <1>5, <2>1, <2>2, AgeAssumption DEF isExpired
<1>7. \A q \in Prints, a \in BackendIDs :
        Seen'[q][a] = IF q = p /\ a = b THEN 0 ELSE Seen[q][a]
  <2>1. Seen'[p][b] = 0
    BY <1>3, <1>4 DEF Seen
  <2> QED
    BY <1>4, <2>1, TimeKept
<1>8. Seen' = [Seen EXCEPT ![p][b] = 0]
  BY <1>3, <1>7, SeenReplaced
<1>9. Table!Forget(p, b)
  BY <1>4, <1>6, <1>8 DEF Table!Forget, Table!Never
<1> QED
  BY <1>9 DEF p, b

LEMMA TouchRecords ==
  ASSUME IInv, LoneUndisturbed, NEW c \in alone, Touch(c)
  PROVE  Table!Record(Current(c), call[c].id)
<1> DEFINE p == Current(c)
           b == call[c].id
           t == call[c].start
<1>1. /\ c \in Callers /\ Busy(c)
      /\ table[p][b] = call[c].entry
      /\ \A e \in Entries : lastSeen[e] <= t
  BY DEF LoneUndisturbed, Touch, Holds
<1>2. TypeOK /\ Holds(c)
  BY DEF IInv, Touch, Holds
<1>3. p \in Prints /\ b \in BackendIDs /\ call[c].entry \in Entries
  BY <1>1, <1>2, Holding
<1>4. /\ UNCHANGED <<table, now>>
      /\ lastSeen'[call[c].entry] = t
      /\ \A e \in Entries \ {call[c].entry} : lastSeen'[e] = lastSeen[e]
  BY <1>1, <1>2, TouchStep
<1>5. t >= Start /\ t <= now /\ t \in Int
  BY <1>1, <1>2, SaneCaller, MaxTimeAssumption, StartAssumption
     DEF TypeOK, Call
<1>6. Place(call[c].entry, p, b)
  BY <1>1 DEF Place
<1> HIDE DEF p, b, t
<1>7. Seen[p][b] = lastSeen[call[c].entry]
  BY <1>1, <1>3, SeenAt, NoEntryAssumption
<1>8. ASSUME NEW q \in Prints, NEW a \in BackendIDs
      PROVE  Seen'[q][a] = IF q = p /\ a = b THEN t ELSE Seen[q][a]
  <2>1. CASE q = p /\ a = b
    BY <1>1, <1>3, <1>4, <2>1, NoEntryAssumption DEF Seen
  <2>2. CASE ~(q = p /\ a = b)
    <3>1. Place(table[q][a], q, a)
      BY TablePlaces
    <3>2. table[q][a] # call[c].entry
      BY <1>3, <1>6, <2>2, <3>1 DEF IInv, OneOwner
    <3>3. table[q][a] \in Entries \cup {NoEntry}
      BY <1>2 DEF TypeOK
    <3> QED
      BY <1>4, <2>2, <3>2, <3>3 DEF Seen
  <2> QED
    BY <2>1, <2>2
<1>9. Seen' = [Seen EXCEPT ![p][b] = t]
  BY <1>3, <1>8, SeenReplaced
<1>10. t \in Start..now /\ t >= Seen[p][b]
  BY <1>1, <1>2, <1>3, <1>5, <1>7, StartAssumption DEF TypeOK
<1>11. Table!Record(p, b)
  BY <1>4, <1>9, <1>10 DEF Table!Record
<1> QED
  BY <1>11 DEF p, b

\* No step of a caller that works alone does anything else to the table.
LEMMA LoneStepImplements ==
  ASSUME IInv, LoneUndisturbed, Next,
         \A c \in Callers : Busy(c) => c \in alone
  PROVE  Table!TableNext \/ UNCHANGED <<Seen, now>>
<1>t. TypeOK /\ CallsSane
  BY DEF IInv
<1>1. ASSUME NEW c \in Callers, CandidateMatches(c)
      PROVE  Table!TableNext \/ UNCHANGED <<Seen, now>>
  <2>1. CASE BeginLookup(c)
    BY <1>t, <2>1, BeginLookupStep DEF Seen
  <2>2. CASE Visit(c)
    BY <1>t, <2>2, VisitStep DEF Seen
  <2>3. CASE ReadAge(c)
    <3> DEFINE age == call[c].start - lastSeen[call[c].entry]
    <3>1. TypeOK' /\ UNCHANGED <<table, now>> /\ Heap(lastSeen)
      BY <1>t, <2>3, ReadAgeStep
    <3> HIDE DEF age
    <3>2. Seen' = Seen
      BY <3>1, TimeKept, SeenSame
    <3> QED
      BY <3>1, <3>2
  <2>4. CASE Evict(c)
    <3>1. c \in alone
      BY <2>4 DEF Evict, Busy
    <3>2. Holds(c)
      BY <2>4 DEF Evict, Holds
    <3>3. Current(c) \in Prints /\ call[c].id \in BackendIDs
      BY <1>t, <3>2, Holding
    <3> QED
      BY <2>4, <3>1, <3>3, EvictForgets DEF Table!TableNext
  <2>5. CASE EndRange(c)
    BY <1>t, <2>5, EndRangeStep DEF Seen
  <2>6. CASE Answer(c)
    BY <1>t, <2>6, ReturnStep DEF Seen
  <2> QED
    BY <1>1, <2>1, <2>2, <2>3, <2>4, <2>5, <2>6 DEF CandidateMatches
<1>2. ASSUME NEW c \in Callers, Remember(c)
      PROVE  Table!TableNext \/ UNCHANGED <<Seen, now>>
  <2>1. CASE BeginRemember(c)
    BY <1>t, <2>1, BeginRememberStep DEF Seen
  <2>2. CASE LoadOrStore(c)
    <3> DEFINE p == Current(c)
               b == call[c].id
    <3>1. /\ TypeOK' /\ UNCHANGED now /\ Heap(lastSeen)
          /\ p \in Prints /\ b \in BackendIDs
          /\ call'[c].entry \in Entries
          /\ IF table[p][b] = NoEntry THEN call'[c].entry \notin Live
             ELSE call'[c].entry = table[p][b]
          /\ table'[p][b] = call'[c].entry
          /\ \A q \in Prints, a \in BackendIDs :
               q # p \/ a # b => table'[q][a] = table[q][a]
      BY <1>t, <2>2, LoadOrStoreStep
    <3> HIDE DEF p, b
    <3>2. Seen'[p][b] = Seen[p][b]
      <4>1. CASE table[p][b] = NoEntry
        <5>1. lastSeen[call'[c].entry] = 0
          BY <3>1, <4>1 DEF IInv, FreeReset
        <5>2. lastSeen'[call'[c].entry] = 0
          BY <3>1, <5>1, LiveKept
        <5> QED
          BY <3>1, <4>1, <5>2 DEF Seen
      <4>2. CASE table[p][b] # NoEntry
        BY <3>1, <4>2, TimeKept
      <4> QED
        BY <4>1, <4>2
    <3>3. ASSUME NEW q \in Prints, NEW a \in BackendIDs
          PROVE  Seen'[q][a] = Seen[q][a]
      <4>1. CASE q = p /\ a = b
        BY <3>2, <4>1
      <4>2. CASE ~(q = p /\ a = b)
        BY <3>1, <4>2, TimeKept
      <4> QED
        BY <4>1, <4>2
    <3> QED
      BY <3>1, <3>3, SeenSame
  <2>3. CASE Touch(c)
    <3>1. c \in alone
      BY <2>3 DEF Touch, Busy
    <3>2. Holds(c)
      BY <2>3 DEF Touch, Holds
    <3>3. Current(c) \in Prints /\ call[c].id \in BackendIDs
      BY <1>t, <3>2, Holding
    <3> QED
      BY <2>3, <3>1, <3>3, TouchRecords DEF Table!TableNext
  <2>4. CASE Link(c)
    <3>1. c \in alone /\ Holds(c)
      BY <2>4 DEF Link, Busy, Holds
    <3>2. table[Current(c)][call[c].id] = call[c].entry
      BY <3>1 DEF LoneUndisturbed
    <3>3. /\ TypeOK' /\ UNCHANGED now /\ Heap(lastSeen)
          /\ table'[Current(c)][call[c].id] = call[c].entry
          /\ \A q \in Prints, a \in BackendIDs :
               q # Current(c) \/ a # call[c].id => table'[q][a] = table[q][a]
      BY <1>t, <2>4, LinkStep
    <3>4. \A q \in Prints, a \in BackendIDs : table'[q][a] = table[q][a]
      BY <3>2, <3>3
    <3>5. \A q \in Prints, a \in BackendIDs : Seen'[q][a] = Seen[q][a]
      BY <3>3, <3>4, TimeKept
    <3> QED
      BY <3>3, <3>5, SeenSame
  <2>5. CASE Return(c)
    BY <1>t, <2>5, ReturnStep DEF Seen
  <2> QED
    BY <1>2, <2>1, <2>2, <2>3, <2>4, <2>5 DEF Remember
<1>3. CASE Tick
  BY <1>3 DEF Tick, Seen, Table!TableNext, Table!Pass
<1> QED
  BY <1>1, <1>2, <1>3 DEF Next

-----------------------------------------------------------------------------
(* A lone lookup keeps the warmest *)

LEMMA WarmthType ==
  ASSUME TypeOK, NEW c \in Callers, NEW b \in BackendIDs, NEW p \in Prints
  PROVE  /\ WarmthOf(c, b, p) \in Int
         /\ call[c].matches[b].Warmth \in Int
<1>1. call[c] \in Call
  BY DEF TypeOK
<1>2. call[c].matches[b] \in CandidateMatch
  BY <1>1 DEF Call
<1>3. call[c].start \in Int /\ Seen[p][b] \in Int
  <2>1. table[p][b] \in Entries \cup {NoEntry}
    BY DEF TypeOK
  <2> QED
    BY <1>1, <2>1, MaxTimeAssumption, StartAssumption DEF TypeOK, Call, Seen
<1>4. decay(call[c].start - Seen[p][b]) \in Int /\ Length[p] \in Int
  BY <1>3, DecayType, LengthAssumption
<1> QED
  BY <1>2, <1>4 DEF WarmthOf, CandidateMatch

\* The warmest stays the warmest if the times only change where they are
\* expired and what is done with is counted.
LEMMA WarmestKept ==
  ASSUME IInv, TypeOK', WarmestSoFar, LoneUndisturbed, Alone, History,
         NEW c \in Callers, InLookup(c), InLookup(c)',
         \A d \in Callers \ {c} : call'[d] = call[d],
         call'[c].start = call[c].start,
         c \in alone =>
           /\ \A p \in Prints, b \in BackendIDs :
                \/ Seen'[p][b] = Seen[p][b]
                \/ /\ Seen'[p][b] = 0
                   /\ isExpired(call[c].start - Seen[p][b])
           /\ \A b \in BackendIDs :
                /\ call'[c].matches[b].Warmth >= call[c].matches[b].Warmth
                /\ \/ call'[c].matches[b].Warmth = call[c].matches[b].Warmth
                   \/ \E p \in Known(c, b) :
                        call'[c].matches[b].Warmth = WarmthOf(c, b, p)
                /\ \A p \in ToCome(c, b) \cap Known(c, b) :
                     \/ p \in ToCome(c, b)'
                     \/ Seen'[p][b] = 0
                     \/ WarmthOf(c, b, p) <= call'[c].matches[b].Warmth
  PROVE  WarmestSoFar'
<1>1. asked[c] \subseteq Prints /\ asked'[c] = asked[c] /\ TypeOK
  BY DEF InLookup, History, IInv, AskedKept
<1> SUFFICES ASSUME NEW d \in alone', NEW b \in BackendIDs
             PROVE  InLookup(d)' =>
               LET warmth == call[d].matches[b].Warmth
               IN  (/\ \A p \in Known(d, b) \ ToCome(d, b) :
                         WarmthOf(d, b, p) <= warmth
                    /\ warmth >= 0
                    /\ warmth # 0 =>
                         \E p \in Known(d, b) : warmth = WarmthOf(d, b, p))'
  BY DEF WarmestSoFar
<1>2. d = c /\ c \in alone
  BY AloneStep DEF InLookup, Busy
<1> DEFINE old == call[c].matches[b].Warmth
           new == call'[c].matches[b].Warmth
<1>3. /\ \A p \in Known(c, b) \ ToCome(c, b) : WarmthOf(c, b, p) <= old
      /\ old >= 0
      /\ old # 0 => \E p \in Known(c, b) : old = WarmthOf(c, b, p)
  BY <1>2 DEF WarmestSoFar
<1>4. old \in Int /\ new \in Int
  <2>1. call[c] \in Call /\ call'[c] \in Call
    BY <1>1 DEF TypeOK
  <2>2. /\ call[c].matches[b] \in CandidateMatch
        /\ call'[c].matches[b] \in CandidateMatch
    BY <2>1 DEF Call
  <2> QED
    BY <2>2 DEF CandidateMatch
<1>5. ASSUME NEW p \in Known(c, b)'
      PROVE  /\ p \in Known(c, b) /\ p \in Prints
             /\ WarmthOf(c, b, p)' = WarmthOf(c, b, p)
             /\ Seen'[p][b] # 0
  <2>1. p \in asked[c] /\ p \in Prints
    BY <1>1 DEF Known
  <2>2. Seen'[p][b] = Seen[p][b] /\ Seen'[p][b] # 0
    BY <1>2, <2>1 DEF Known
  <2> QED
    BY <2>1, <2>2 DEF Known, WarmthOf, isExpired, decay
<1>6. ASSUME NEW p \in Known(c, b)
      PROVE  /\ p \in Known(c, b)'
             /\ WarmthOf(c, b, p)' = WarmthOf(c, b, p)
  <2>1. p \in asked[c] /\ p \in Prints
    BY <1>1 DEF Known
  <2>2. Seen'[p][b] = Seen[p][b]
    BY <1>2, <2>1 DEF Known
  <2> QED
    BY <1>1, <2>1, <2>2 DEF Known, WarmthOf, isExpired, decay
<1> HIDE DEF old, new
<1>7. ASSUME NEW p \in Known(c, b)', p \notin ToCome(c, b)'
      PROVE  WarmthOf(c, b, p)' <= new
  <2>1. WarmthOf(c, b, p) \in Int
    BY <1>1, <1>5, WarmthType
  <2>2. CASE p \in ToCome(c, b)
    BY <1>2, <1>5, <1>7, <2>2 DEF new
  <2>3. CASE p \notin ToCome(c, b)
    <3>1. WarmthOf(c, b, p) <= old /\ old <= new
      BY <1>2, <1>3, <1>5, <2>3 DEF new, old
    <3> QED
      BY <1>4, <1>5, <2>1, <3>1
  <2> QED
    BY <2>2, <2>3
<1>8. new >= 0
  BY <1>2, <1>3, <1>4 DEF new, old
<1>9. ASSUME new # 0
      PROVE  \E p \in Known(c, b)' : new = WarmthOf(c, b, p)'
  <2>1. CASE new = old
    BY <1>3, <1>6, <1>9, <2>1
  <2>2. CASE new # old
    <3>1. \E p \in Known(c, b) : new = WarmthOf(c, b, p)
      BY <1>2, <2>2 DEF new, old
    <3> QED
      BY <1>6, <3>1
  <2> QED
    BY <2>1, <2>2
<1> QED
  BY <1>2, <1>7, <1>8, <1>9 DEF new

LEMMA SeenKept ==
  ASSUME IInv, TypeOK', Heap(lastSeen) \/ UNCHANGED lastSeen,
         \A p \in Prints, b \in BackendIDs : table'[p][b] = table[p][b]
  PROVE  \A p \in Prints, b \in BackendIDs : Seen'[p][b] = Seen[p][b]
BY TimeKept

\* A lookup of c looks its prefixes up from the first to the last.
LEMMA PrintsOfLookup ==
  ASSUME TypeOK, NEW c \in Callers, call[c].prints # <<>>
  PROVE  /\ Current(c) \in Elems(call[c].prints) /\ Current(c) \in Prints
         /\ Elems(call[c].prints)
              = {Current(c)} \cup Elems(Tail(call[c].prints))
<1>1. call[c].prints \in Seq(Prints)
  BY DEF TypeOK, Call
<1> QED
  BY <1>1, ElemsOfPrints DEF Current

LEMMA BeginKeepsWarmest ==
  ASSUME TypeOK, LoneUndisturbed, Alone, History, NEW c \in Callers,
         BeginLookup(c)
  PROVE  WarmestSoFar'
<1>1. /\ \A d \in Callers \ {c} : call'[d] = call[d]
      /\ call[c].op = "idle" /\ call'[c].op = "range"
      /\ call'[c].keys = BackendIDs
      /\ call'[c].matches = NoMatches
  BY BeginLookupStep
<1>2. asked'[c] = Elems(call'[c].prints)
  BY <1>1 DEF History
<1> SUFFICES ASSUME NEW d \in alone', NEW b \in BackendIDs
             PROVE  /\ Known(d, b)' \subseteq ToCome(d, b)'
                    /\ call'[d].matches[b].Warmth = 0
  BY DEF WarmestSoFar
<1>3. d = c
  BY <1>1, AloneStep DEF Busy
<1>4. ToCome(c, b)' = Elems(call'[c].prints)
  BY <1>1 DEF ToCome, Elems
<1> QED
  BY <1>1, <1>2, <1>3, <1>4 DEF Known, NoMatches, NoMatch

LEMMA VisitKeepsWarmest ==
  ASSUME IInv, WarmestSoFar, LoneUndisturbed, Alone, History,
         NEW c \in Callers, Visit(c)
  PROVE  WarmestSoFar'
<1>1. /\ TypeOK' /\ UNCHANGED <<table, lastSeen, now>>
      /\ \A d \in Callers \ {c} : call'[d] = call[d]
      /\ call[c].op = "range" /\ call[c].prints # <<>>
      /\ call'[c].start = call[c].start /\ call'[c].prints = call[c].prints
      /\ call'[c].matches = call[c].matches
      /\ \E b \in call[c].keys :
           /\ b \in BackendIDs /\ call'[c].keys = call[c].keys \ {b}
           /\ \/ /\ table[Current(c)][b] = NoEntry
                 /\ call'[c].op = "range" /\ call'[c].entry = call[c].entry
              \/ /\ table[Current(c)][b] \in Entries
                 /\ call'[c].op = "age" /\ call'[c].id = b
                 /\ call'[c].entry = table[Current(c)][b]
  BY VisitStep DEF IInv
<1>2. Seen' = Seen
  BY <1>1 DEF Seen
<1>3. Current(c) \in Prints
  BY <1>1, PrintsOfLookup DEF IInv
<1>4. \A b \in BackendIDs : \A p \in ToCome(c, b) :
        p \in ToCome(c, b)' \/ Seen'[p][b] = 0
  BY <1>1, <1>2, <1>3 DEF ToCome, Current, Seen
<1>5. \A b \in BackendIDs : call[c].matches[b].Warmth \in Int
  BY WarmthType, <1>1 DEF IInv, TypeOK, Call, CandidateMatch
<1>6. InLookup(c) /\ InLookup(c)'
  BY <1>1 DEF InLookup
<1> QED
  BY <1>1, <1>2, <1>4, <1>5, <1>6, WarmestKept

LEMMA EndRangeKeepsWarmest ==
  ASSUME IInv, WarmestSoFar, LoneUndisturbed, Alone, History,
         NEW c \in Callers, EndRange(c)
  PROVE  WarmestSoFar'
<1>1. /\ TypeOK' /\ UNCHANGED <<table, lastSeen, now>>
      /\ \A d \in Callers \ {c} : call'[d] = call[d]
      /\ call[c].op = "range" /\ call'[c].op = "range"
      /\ call[c].prints # <<>> /\ call[c].keys = {}
      /\ call'[c].start = call[c].start
      /\ call'[c].prints = Tail(call[c].prints)
      /\ call'[c].keys = BackendIDs
      /\ call'[c].matches = call[c].matches
  BY EndRangeStep DEF IInv
<1>2. Seen' = Seen
  BY <1>1 DEF Seen
<1>3. Elems(call[c].prints) = {Current(c)} \cup Elems(call'[c].prints)
  BY <1>1, PrintsOfLookup DEF IInv
<1>4. ASSUME NEW b \in BackendIDs, NEW p \in ToCome(c, b)
      PROVE  p \in ToCome(c, b)'
  <2>1. p \in Elems(call'[c].prints)
    BY <1>1, <1>3 DEF ToCome
  <2>2. p \in Elems(call[c].prints)'
    BY <2>1 DEF Elems
  <2> QED
    BY <1>1, <2>2 DEF ToCome
<1>5. \A b \in BackendIDs : call[c].matches[b].Warmth \in Int
  BY WarmthType, <1>1 DEF IInv, TypeOK, Call, CandidateMatch
<1>6. InLookup(c) /\ InLookup(c)'
  BY <1>1 DEF InLookup
<1> QED
  BY <1>1, <1>2, <1>4, <1>5, <1>6, WarmestKept

LEMMA EvictKeepsWarmest ==
  ASSUME IInv, WarmestSoFar, LoneUndisturbed, Alone, History,
         NEW c \in Callers, Evict(c)
  PROVE  WarmestSoFar'
<1> DEFINE p == Current(c)
           b == call[c].id
<1>1. /\ TypeOK' /\ UNCHANGED now /\ Heap(lastSeen)
      /\ \A d \in Callers \ {c} : call'[d] = call[d]
      /\ call[c].op = "evict" /\ call'[c].op = "range"
      /\ call'[c].start = call[c].start /\ call'[c].prints = call[c].prints
      /\ call'[c].keys = call[c].keys
      /\ call'[c].matches = call[c].matches
      /\ table'[p][b] = NoEntry
      /\ \A q \in Prints, a \in BackendIDs :
           q # p \/ a # b => table'[q][a] = table[q][a]
  BY EvictStep DEF IInv
<1>2. InLookup(c) /\ InLookup(c)' /\ Holds(c)
  BY <1>1 DEF InLookup, Holds
<1>3. p \in Prints /\ b \in BackendIDs /\ call[c].entry \in Entries
  BY <1>2, Holding DEF IInv
<1>4. \A q \in Prints, a \in BackendIDs :
        q # p \/ a # b => Seen'[q][a] = Seen[q][a]
  BY <1>1, TimeKept
<1>5. Seen'[p][b] = 0
  BY <1>1, <1>3 DEF Seen
<1>6. c \in alone => isExpired(call[c].start - Seen[p][b])
  <2>1. SUFFICES ASSUME c \in alone
                 PROVE  isExpired(call[c].start - Seen[p][b])
    OBVIOUS
  <2>2. /\ table[p][b] = call[c].entry
        /\ isExpired(call[c].start - lastSeen[call[c].entry])
    BY <1>1, <1>2, <2>1 DEF LoneUndisturbed
  <2> QED
    BY <1>3, <2>2, NoEntryAssumption DEF Seen
<1>7. \A a \in BackendIDs : \A q \in ToCome(c, a) :
        \/ q \in ToCome(c, a)'
        \/ q = p /\ a = b
  BY <1>1 DEF ToCome, Current
<1>8. \A a \in BackendIDs : call[c].matches[a].Warmth \in Int
  BY WarmthType, <1>1 DEF IInv, TypeOK, Call, CandidateMatch
<1> HIDE DEF p, b
<1> QED
  BY <1>1, <1>2, <1>4, <1>5, <1>6, <1>7, <1>8, WarmestKept

\* Nobody is about to touch an entry while a lookup works alone.
LEMMA LoneSeesTimes ==
  ASSUME IInv, TouchPending, LoneUndisturbed, NEW c \in alone,
         call[c].op = "age"
  PROVE  /\ Seen[Current(c)][call[c].id] = lastSeen[call[c].entry]
         /\ lastSeen[call[c].entry] # 0
<1>1. /\ c \in Callers /\ \A d \in Callers \ {c} : ~Busy(d)
      /\ table[Current(c)][call[c].id] = call[c].entry
  BY DEF LoneUndisturbed, Holds
<1>2. /\ Current(c) \in Prints /\ call[c].id \in BackendIDs
      /\ call[c].entry \in Entries
  BY <1>1, Holding DEF Holds, IInv
<1>3. ~\E d \in Callers : call[d].op = "touch"
  BY <1>1 DEF Busy
<1>4. lastSeen[call[c].entry] # 0
  BY <1>1, <1>2, <1>3, NoEntryAssumption DEF TouchPending
<1> QED
  BY <1>1, <1>2, <1>4, NoEntryAssumption DEF Seen

LEMMA ReadAgeKeepsWarmest ==
  ASSUME IInv, TouchPending, WarmestSoFar, LoneUndisturbed, Alone, History,
         NEW c \in Callers, ReadAge(c)
  PROVE  WarmestSoFar'
<1>h. PICK age : age = call[c].start - lastSeen[call[c].entry]
  OBVIOUS
<1>1. /\ TypeOK' /\ UNCHANGED <<table, now>> /\ Heap(lastSeen)
      /\ \A d \in Callers \ {c} : call'[d] = call[d]
      /\ call[c].op = "age" /\ age \in Int
      /\ MatchOf(c, age) \in CandidateMatch
      /\ call'[c].start = call[c].start /\ call'[c].prints = call[c].prints
      /\ call'[c].keys = call[c].keys
      /\ \/ /\ isExpired(age) /\ call'[c].op = "evict"
            /\ call'[c].id = call[c].id /\ call'[c].entry = call[c].entry
            /\ call'[c].matches = call[c].matches
         \/ /\ ~isExpired(age) /\ call'[c].op = "range"
            /\ call'[c].entry = NoEntry
            /\ \/ /\ MatchOf(c, age).Warmth
                       > call[c].matches[call[c].id].Warmth
                  /\ call'[c].matches = [call[c].matches EXCEPT
                                           ![call[c].id] = MatchOf(c, age)]
               \/ /\ ~(MatchOf(c, age).Warmth
                         > call[c].matches[call[c].id].Warmth)
                  /\ call'[c].matches = call[c].matches
  BY <1>h, ReadAgeStep DEF IInv
<1> DEFINE p == Current(c)
           b == call[c].id
<1>2. InLookup(c) /\ InLookup(c)' /\ Holds(c)
  BY <1>1 DEF InLookup, Holds
<1>3. /\ p \in Prints /\ b \in BackendIDs /\ p \in asked[c]
      /\ call[c].matches \in [BackendIDs -> CandidateMatch]
  <2>1. call[c] \in Call /\ call[c].prints # <<>>
    BY <1>2, Holding DEF IInv
  <2>2. p \in Elems(call[c].prints)
    BY <2>1, PrintsOfLookup DEF IInv
  <2> QED
    BY <1>2, <2>1, <2>2, Holding DEF IInv, AskedKept, Call
<1>4. \A q \in Prints, a \in BackendIDs : Seen'[q][a] = Seen[q][a]
  BY <1>1, SeenKept
<1>5. c \in alone =>
        /\ Seen[p][b] # 0 /\ age = call[c].start - Seen[p][b]
        /\ MatchOf(c, age).Warmth = WarmthOf(c, b, p)
  <2>1. SUFFICES ASSUME c \in alone
                 PROVE  /\ Seen[p][b] # 0
                        /\ age = call[c].start - Seen[p][b]
                        /\ MatchOf(c, age).Warmth = WarmthOf(c, b, p)
    OBVIOUS
  <2>2. Seen[p][b] # 0 /\ age = call[c].start - Seen[p][b]
    BY <1>h, <1>1, <2>1, LoneSeesTimes
  <2> QED
    BY <2>2 DEF MatchOf, WarmthOf
<1>6. \A a \in BackendIDs : call[c].matches[a].Warmth \in Int
  BY <1>3 DEF CandidateMatch
<1>7. \A a \in BackendIDs : \A q \in ToCome(c, a) :
        \/ q \in ToCome(c, a)'
        \/ q = p /\ a = b /\ call'[c].op = "range"
  BY <1>1 DEF ToCome, Current
<1>8. MatchOf(c, age).Warmth \in Int
  BY <1>1 DEF CandidateMatch
<1> HIDE DEF p, b
<1>9. CASE isExpired(age)
  <2>1. /\ call'[c].matches = call[c].matches /\ call'[c].op = "evict"
    BY <1>1, <1>9
  <2> QED
    BY <1>1, <1>2, <1>4, <1>6, <1>7, <2>1, WarmestKept
<1>10. CASE ~isExpired(age)
  <2>1. c \in alone => p \in Known(c, b)
    BY <1>3, <1>5, <1>10 DEF Known
  <2>2. call'[c].matches[b].Warmth >= MatchOf(c, age).Warmth
    BY <1>1, <1>3, <1>6, <1>8, <1>10 DEF b
  <2>3. \A a \in BackendIDs :
          /\ call'[c].matches[a].Warmth >= call[c].matches[a].Warmth
          /\ \/ call'[c].matches[a].Warmth = call[c].matches[a].Warmth
             \/ a = b /\ call'[c].matches[a].Warmth = MatchOf(c, age).Warmth
    BY <1>1, <1>3, <1>6, <1>8, <1>10 DEF b
  <2>4. ASSUME c \in alone, NEW a \in BackendIDs
        PROVE  /\ call'[c].matches[a].Warmth >= call[c].matches[a].Warmth
               /\ \/ call'[c].matches[a].Warmth = call[c].matches[a].Warmth
                  \/ \E q \in Known(c, a) :
                       call'[c].matches[a].Warmth = WarmthOf(c, a, q)
               /\ \A q \in ToCome(c, a) \cap Known(c, a) :
                    \/ q \in ToCome(c, a)'
                    \/ Seen'[q][a] = 0
                    \/ WarmthOf(c, a, q) <= call'[c].matches[a].Warmth
    <3>1. \/ call'[c].matches[a].Warmth = call[c].matches[a].Warmth
          \/ \E q \in Known(c, a) :
               call'[c].matches[a].Warmth = WarmthOf(c, a, q)
      BY <1>5, <2>1, <2>3, <2>4
    <3>2. \A q \in ToCome(c, a) \cap Known(c, a) :
            \/ q \in ToCome(c, a)'
            \/ WarmthOf(c, a, q) <= call'[c].matches[a].Warmth
      <4>1. WarmthOf(c, b, p) <= call'[c].matches[b].Warmth
        <5>1. call'[c].matches[b].Warmth \in Int
          <6>1. call'[c] \in Call
            BY <1>1 DEF TypeOK
          <6>2. call'[c].matches[b] \in CandidateMatch
            BY <1>3, <6>1 DEF Call
          <6> QED
            BY <6>2 DEF CandidateMatch
        <5> QED
          BY <1>5, <1>8, <2>2, <2>4, <5>1
      <4> QED
        BY <1>7, <4>1
    <3> QED
      BY <2>3, <3>1, <3>2
  <2> QED
    BY <1>1, <1>2, <1>4, <2>4, WarmestKept
<1> QED
  BY <1>9, <1>10

LEMMA WarmestNext ==
  ASSUME IInv, TouchPending, WarmestSoFar, LoneUndisturbed, Alone, History,
         Next
  PROVE  WarmestSoFar'
<1>t. TypeOK /\ CallsSane
  BY DEF IInv
\* Who leaves or never was in a lookup has nothing to keep.
<1>0. ASSUME NEW c \in Callers, Busy(c) \/ Busy(c)', ~InLookup(c)',
             \A d \in Callers \ {c} : call'[d] = call[d]
      PROVE  WarmestSoFar'
  <2>1. \A d \in alone' : d = c
    BY <1>0, AloneStep
  <2> QED
    BY <1>0, <2>1 DEF WarmestSoFar
<1>1. ASSUME NEW c \in Callers, CandidateMatches(c)
      PROVE  WarmestSoFar'
  <2>1. CASE Answer(c)
    <3>1. /\ \A d \in Callers \ {c} : call'[d] = call[d]
          /\ call[c].op \in {"range", "load"} /\ call'[c].op = "idle"
      BY <1>t, <2>1, ReturnStep
    <3> QED
      BY <3>1, <1>0 DEF Busy, InLookup
  <2> QED
    BY <1>t, <1>1, <2>1, BeginKeepsWarmest, VisitKeepsWarmest,
       ReadAgeKeepsWarmest, EvictKeepsWarmest, EndRangeKeepsWarmest
       DEF CandidateMatches
<1>2. ASSUME NEW c \in Callers, Remember(c)
      PROVE  WarmestSoFar'
  <2>1. CASE BeginRemember(c)
    <3>1. /\ \A d \in Callers \ {c} : call'[d] = call[d]
          /\ call'[c].op = "load"
      BY <1>t, <2>1, BeginRememberStep
    <3> QED
      BY <3>1, <1>0 DEF Busy, InLookup
  <2>2. CASE LoadOrStore(c)
    <3>1. /\ \A d \in Callers \ {c} : call'[d] = call[d]
          /\ call'[c].op = "touch"
      BY <1>t, <2>2, LoadOrStoreStep
    <3> QED
      BY <3>1, <1>0 DEF Busy, InLookup
  <2>3. CASE Touch(c)
    <3>1. /\ \A d \in Callers \ {c} : call'[d] = call[d]
          /\ call'[c].op = "link"
      BY <1>t, <2>3, TouchStep
    <3> QED
      BY <3>1, <1>0 DEF Busy, InLookup
  <2>4. CASE Link(c)
    <3>1. /\ \A d \in Callers \ {c} : call'[d] = call[d]
          /\ call'[c].op = "load"
      BY <1>t, <2>4, LinkStep
    <3> QED
      BY <3>1, <1>0 DEF Busy, InLookup
  <2>5. CASE Return(c)
    <3>1. /\ \A d \in Callers \ {c} : call'[d] = call[d]
          /\ call[c].op \in {"range", "load"} /\ call'[c].op = "idle"
      BY <1>t, <2>5, ReturnStep
    <3> QED
      BY <3>1, <1>0 DEF Busy, InLookup
  <2> QED
    BY <1>2, <2>1, <2>2, <2>3, <2>4, <2>5 DEF Remember
<1>3. CASE Tick
  <2>1. UNCHANGED <<table, lastSeen, call>>
    BY <1>3 DEF Tick
  <2>2. alone' \subseteq alone /\ alone' \subseteq Callers
    BY <2>1 DEF Alone, Busy
  <2>3. \A c \in Callers : InLookup(c) => asked'[c] = asked[c]
    BY <2>1 DEF History, InLookup
  <2>4. Seen' = Seen
    BY <2>1 DEF Seen
  <2>5. ASSUME NEW c \in alone', NEW b \in BackendIDs, InLookup(c)'
        PROVE  /\ Known(c, b)' = Known(c, b) /\ ToCome(c, b)' = ToCome(c, b)
               /\ \A p \in Known(c, b) :
                    WarmthOf(c, b, p)' = WarmthOf(c, b, p)
    <3>1. c \in Callers /\ InLookup(c)
      BY <2>1, <2>2, <2>5 DEF InLookup
    <3>2. asked'[c] = asked[c]
      BY <2>3, <3>1
    <3>3. Known(c, b)' = Known(c, b)
      BY <2>1, <2>4, <3>2 DEF Known, isExpired
    <3>4. ToCome(c, b)' = ToCome(c, b)
      BY <2>1 DEF ToCome, Elems, Current
    <3>5. \A p \in Known(c, b) : WarmthOf(c, b, p)' = WarmthOf(c, b, p)
      BY <2>1, <2>4 DEF WarmthOf, decay
    <3> QED
      BY <3>3, <3>4, <3>5
  <2>6. ASSUME NEW c \in alone', NEW b \in BackendIDs, InLookup(c)'
        PROVE  LET warmth == call'[c].matches[b].Warmth
               IN  /\ \A p \in Known(c, b)' \ ToCome(c, b)' :
                        WarmthOf(c, b, p)' <= warmth
                   /\ warmth >= 0
                   /\ warmth # 0 => \E p \in Known(c, b)' :
                                      warmth = WarmthOf(c, b, p)'
    <3>1. c \in alone /\ InLookup(c) /\ call'[c] = call[c]
      BY <2>1, <2>2, <2>6 DEF InLookup
    <3> QED
      BY <2>5, <2>6, <3>1 DEF WarmestSoFar
  <2> QED
    BY <2>6 DEF WarmestSoFar
<1> QED
  BY <1>1, <1>2, <1>3 DEF Next

LEMMA LoneInit == HInit => LoneInv
<1> SUFFICES ASSUME HInit
             PROVE  LoneInv
  OBVIOUS
<1>1. /\ alone = {}
      /\ table = [p \in Prints |-> [b \in BackendIDs |-> NoEntry]]
      /\ \A c \in Callers : call[c].op = "idle"
  BY DEF HInit, Init, Idle
<1> QED
  BY <1>1 DEF LoneInv, TouchPending, LoneUndisturbed, WarmestSoFar

LEMMA LoneNext == IInv /\ IInv' /\ LoneInv /\ [HNext]_hvars => LoneInv'
<1> SUFFICES ASSUME IInv, IInv', LoneInv, [HNext]_hvars
             PROVE  LoneInv'
  OBVIOUS
<1>1. CASE HNext
  <2>1. Next /\ History /\ Alone
    BY <1>1 DEF HNext, History, Alone
  <2> QED
    BY <2>1, PendingNext, UndisturbedNext, WarmestNext DEF LoneInv
<1>2. CASE UNCHANGED hvars
  <2>1. UNCHANGED <<table, lastSeen, call, asked, alone>>
    BY <1>2 DEF hvars, vars
  <2>2. TouchPending'
    BY <2>1 DEF LoneInv, TouchPending
  <2>3. LoneUndisturbed'
    BY <2>1 DEF LoneInv, LoneUndisturbed, Busy, Holds, Current, isExpired
  <2>4. WarmestSoFar'
    <3>1. \A c, b : Known(c, b)' = Known(c, b) /\ ToCome(c, b)' = ToCome(c, b)
      BY <2>1 DEF Known, ToCome, Seen, Elems, Current, isExpired
    <3>2. \A c, b, p : WarmthOf(c, b, p)' = WarmthOf(c, b, p)
      BY <2>1 DEF WarmthOf, Seen, decay
    <3>3. \A c : InLookup(c)' <=> InLookup(c)
      BY <2>1 DEF InLookup
    <3> QED
      BY <2>1, <3>1, <3>2, <3>3 DEF LoneInv, WarmestSoFar
  <2> QED
    BY <2>2, <2>3, <2>4 DEF LoneInv
<1> QED
  BY <1>1, <1>2

LEMMA LoneInvariant == HSpec => [](IInv /\ LoneInv)
<1>1. HInit => IInv /\ LoneInv
  BY HInitInv, LoneInit
<1>2. IInv /\ LoneInv /\ [HNext]_hvars => (IInv /\ LoneInv)'
  BY NextInv, LoneNext
<1> QED
  BY <1>1, <1>2, PTL DEF HSpec

-----------------------------------------------------------------------------
(* Records that are complete *)

\* A place that is kept has an entry with a time.
PlacesFilled ==
  \A place \in kept :
    /\ place \in Prints \X BackendIDs
    /\ table[place[1]][place[2]] # NoEntry
    /\ lastSeen[table[place[1]][place[2]]] # 0

\* What HNext says of kept.
KeptNext == kept' = (kept \cup Stepping("link", "load")) \ Stepping("evict", "range")

\* A step keeps the places filled if it takes an entry out only by evicting,
\* puts one where there is one only by linking, and forgets no time.
LEMMA FilledKept ==
  ASSUME IInv, TypeOK', PlacesFilled, TouchPending, KeptNext, NEW c \in Callers,
         \A d \in Callers \ {c} : call'[d] = call[d],
         \A e \in Entries : e \in Live' /\ lastSeen[e] # 0 => lastSeen'[e] # 0,
         call[c].op = "link" =>
           /\ Current(c) \in Prints /\ call[c].id \in BackendIDs
           /\ table'[Current(c)][call[c].id] = call[c].entry,
         \A p \in Prints, b \in BackendIDs :
           \/ table'[p][b] = table[p][b]
           \/ table[p][b] = NoEntry
           \/ <<p, b>> \in Stepping("evict", "range")
           \/ call[c].op = "link" /\ table'[p][b] = call[c].entry
  PROVE  PlacesFilled'
<1>1. ASSUME call[c].op = "link"
      PROVE  call[c].entry \in Entries /\ call[c].entry # NoEntry
             /\ lastSeen[call[c].entry] # 0
  <2>1. call[c].entry \in Entries
    BY <1>1 DEF IInv, TypeOK
  <2> QED
    BY <1>1, <2>1, NoEntryAssumption DEF TouchPending
<1>2. ASSUME NEW p \in Prints, NEW b \in BackendIDs, NEW e \in Entries,
             table'[p][b] = e, lastSeen[e] # 0
      PROVE  table'[p][b] # NoEntry /\ lastSeen'[table'[p][b]] # 0
  <2>1. e \in Live'
    BY <1>2 DEF Live
  <2> QED
    BY <1>2, <2>1, NoEntryAssumption
<1>3. SUFFICES ASSUME NEW place \in kept'
               PROVE  /\ place \in Prints \X BackendIDs
                      /\ table'[place[1]][place[2]] # NoEntry
                      /\ lastSeen'[table'[place[1]][place[2]]] # 0
  BY DEF PlacesFilled
<1>4. CASE place \in kept
  <2>1. PICK p \in Prints, b \in BackendIDs : place = <<p, b>>
    BY <1>4 DEF PlacesFilled
  <2>2. table[p][b] \in Entries /\ lastSeen[table[p][b]] # 0
    BY <1>4, <2>1 DEF PlacesFilled, IInv, TypeOK
  <2>3. <<p, b>> \notin Stepping("evict", "range")
    BY <1>3, <2>1 DEF KeptNext
  <2>4. \/ table'[p][b] = table[p][b]
        \/ call[c].op = "link" /\ table'[p][b] = call[c].entry
    BY <2>2, <2>3, NoEntryAssumption
  <2>5. table'[p][b] # NoEntry /\ lastSeen'[table'[p][b]] # 0
    BY <1>1, <1>2, <2>2, <2>4
  <2> QED
    BY <2>1, <2>5
<1>5. CASE place \notin kept
  <2>1. place \in Stepping("link", "load")
    BY <1>3, <1>5 DEF KeptNext
  <2>2. PICK d \in Callers : /\ call[d].op = "link" /\ call'[d].op = "load"
                             /\ place = <<Current(d), call[d].id>>
    BY <2>1 DEF Stepping
  <2>3. d = c
    BY <2>2
  <2>4. PICK p \in Prints, b \in BackendIDs : p = Current(c) /\ b = call[c].id
    BY <2>2, <2>3
  <2>5. table'[p][b] # NoEntry /\ lastSeen'[table'[p][b]] # 0
    BY <1>1, <1>2, <2>2, <2>3, <2>4
  <2> QED
    BY <2>2, <2>3, <2>4, <2>5
<1> QED
  BY <1>4, <1>5

LEMMA FilledNext ==
  IInv /\ IInv' /\ TouchPending /\ PlacesFilled /\ Next /\ KeptNext => PlacesFilled'
<1> SUFFICES ASSUME IInv, IInv', TouchPending, PlacesFilled, Next, KeptNext
             PROVE  PlacesFilled'
  OBVIOUS
<1> USE DEF IInv
\* The steps that leave the table alone and forget no time in it.
<1>1. ASSUME NEW c \in Callers, UNCHANGED table,
             Heap(lastSeen) \/ UNCHANGED lastSeen,
             \A d \in Callers \ {c} : call'[d] = call[d], call[c].op # "link"
      PROVE  PlacesFilled'
  <2>1. \A e \in Entries : e \in Live' => lastSeen'[e] = lastSeen[e]
    BY <1>1, LiveKept
  <2> QED
    BY <1>1, <2>1, FilledKept
<1>2. ASSUME NEW c \in Callers, CandidateMatches(c)
      PROVE  PlacesFilled'
  <2>1. CASE BeginLookup(c)
    BY <1>1, <2>1, BeginLookupStep
  <2>2. CASE Visit(c)
    BY <1>1, <2>2, VisitStep
  <2>3. CASE ReadAge(c)
    BY <1>1, <2>3, ReadAgeStep
  <2>4. CASE Evict(c)
    <3>1. /\ Heap(lastSeen) /\ call[c].op = "evict" /\ call'[c].op = "range"
          /\ \A d \in Callers \ {c} : call'[d] = call[d]
          /\ \A q \in Prints, a \in BackendIDs :
               q # Current(c) \/ a # call[c].id => table'[q][a] = table[q][a]
      BY <2>4, EvictStep
    <3>2. <<Current(c), call[c].id>> \in Stepping("evict", "range")
      BY <3>1 DEF Stepping
    <3>3. \A q \in Prints, a \in BackendIDs :
            \/ table'[q][a] = table[q][a]
            \/ <<q, a>> \in Stepping("evict", "range")
      BY <3>1, <3>2
    <3>4. \A e \in Entries : e \in Live' => lastSeen'[e] = lastSeen[e]
      BY <3>1, LiveKept
    <3> QED
      BY <3>1, <3>3, <3>4, FilledKept
  <2>5. CASE EndRange(c)
    BY <1>1, <2>5, EndRangeStep
  <2>6. CASE Answer(c)
    BY <1>1, <2>6, ReturnStep
  <2> QED
    BY <1>2, <2>1, <2>2, <2>3, <2>4, <2>5, <2>6 DEF CandidateMatches
<1>3. ASSUME NEW c \in Callers, Remember(c)
      PROVE  PlacesFilled'
  <2>1. CASE BeginRemember(c)
    BY <1>1, <2>1, BeginRememberStep
  <2>2. CASE LoadOrStore(c)
    <3>1. /\ Heap(lastSeen) /\ call[c].op = "load"
          /\ \A d \in Callers \ {c} : call'[d] = call[d]
          /\ table[Current(c)][call[c].id] # NoEntry =>
               call'[c].entry = table[Current(c)][call[c].id]
          /\ table'[Current(c)][call[c].id] = call'[c].entry
          /\ \A q \in Prints, a \in BackendIDs :
               q # Current(c) \/ a # call[c].id => table'[q][a] = table[q][a]
      BY <2>2, LoadOrStoreStep
    <3>2. \A q \in Prints, a \in BackendIDs :
            table'[q][a] = table[q][a] \/ table[q][a] = NoEntry
      BY <3>1
    <3>3. \A e \in Entries : e \in Live' => lastSeen'[e] = lastSeen[e]
      BY <3>1, LiveKept
    <3> QED
      BY <3>1, <3>2, <3>3, FilledKept
  <2>3. CASE Touch(c)
    <3>1. /\ UNCHANGED table /\ call[c].op = "touch"
          /\ \A d \in Callers \ {c} : call'[d] = call[d]
          /\ lastSeen'[call[c].entry] = call[c].start
          /\ \A e \in Entries \ {call[c].entry} : lastSeen'[e] = lastSeen[e]
      BY <2>3, TouchStep
    <3>2. call[c].start # 0
      <4>1. call[c].start >= Start /\ Start > 0 /\ Start \in Int
        BY <3>1, SaneCaller, StartAssumption, AgeAssumption DEF Busy
      <4>2. call[c].start \in Int
        BY DEF TypeOK, Call
      <4> QED
        BY <4>1, <4>2
    <3>3. \A e \in Entries : lastSeen[e] # 0 => lastSeen'[e] # 0
      BY <3>1, <3>2
    <3> QED
      BY <3>1, <3>3, FilledKept
  <2>4. CASE Link(c)
    <3>1. /\ Heap(lastSeen) /\ call[c].op = "link"
          /\ \A d \in Callers \ {c} : call'[d] = call[d]
          /\ table'[Current(c)][call[c].id] = call[c].entry
          /\ \A q \in Prints, a \in BackendIDs :
               q # Current(c) \/ a # call[c].id => table'[q][a] = table[q][a]
      BY <2>4, LinkStep
    <3>2. Current(c) \in Prints /\ call[c].id \in BackendIDs
      BY <3>1, Holding DEF Holds
    <3>3. \A e \in Entries : e \in Live' => lastSeen'[e] = lastSeen[e]
      BY <3>1, LiveKept
    <3>4. \A q \in Prints, a \in BackendIDs :
            table'[q][a] = table[q][a] \/ table'[q][a] = call[c].entry
      BY <3>1
    <3> QED
      BY <3>1, <3>2, <3>3, <3>4, FilledKept
  <2>5. CASE Return(c)
    BY <1>1, <2>5, ReturnStep
  <2> QED
    BY <1>3, <2>1, <2>2, <2>3, <2>4, <2>5 DEF Remember
<1>4. CASE Tick
  <2>1. UNCHANGED <<table, lastSeen, call>>
    BY <1>4 DEF Tick
  <2>2. Stepping("link", "load") = {}
    BY <2>1 DEF Stepping
  <2>3. kept' \subseteq kept
    BY <2>2 DEF KeptNext
  <2> QED
    BY <2>1, <2>3 DEF PlacesFilled
<1> QED
  BY <1>2, <1>3, <1>4 DEF Next

\* A complete record is only lost to a lookup that deletes its key: until then
\* the table has a time for it that was recorded for it (RecordsKept), however
\* lookups, evictions and records overlap.
THEOREM CompleteRecordsKept == HSpec => []RecordsKept
<1>1. HInit => PlacesFilled
  BY DEF HInit, PlacesFilled
<1>2. IInv /\ IInv' /\ LoneInv /\ PlacesFilled /\ [HNext]_hvars => PlacesFilled'
  <2>1. CASE HNext
    BY <2>1, FilledNext DEF HNext, KeptNext, LoneInv
  <2>2. CASE UNCHANGED hvars
    BY <2>2 DEF hvars, vars, PlacesFilled
  <2> QED
    BY <2>1, <2>2
<1>3. IInv /\ PlacesFilled => RecordsKept
  <2>1. SUFFICES ASSUME IInv, PlacesFilled, NEW place \in kept
                 PROVE  <<place[1], place[2], Seen[place[1]][place[2]]>> \in recorded
    BY DEF RecordsKept
  <2>2. PICK p \in Prints, b \in BackendIDs : place = <<p, b>>
    BY <2>1 DEF PlacesFilled
  <2>3. PICK e \in Entries : e = table[p][b] /\ lastSeen[e] # 0
    BY <2>1, <2>2 DEF PlacesFilled, IInv, TypeOK
  <2>4. <<p, b, lastSeen[e]>> \in recorded
    BY <2>1, <2>3 DEF IInv, TimesRecorded, Place
  <2>5. Seen[p][b] = lastSeen[e]
    BY <2>3, NoEntryAssumption DEF Seen
  <2> QED
    BY <2>2, <2>4, <2>5
<1> QED
  BY <1>1, <1>2, <1>3, LoneInvariant, PTL DEF HSpec

\* A lookup that nobody's call overlaps answers with the warmest prefix of
\* each backend: what it has when it is done is the maximum.
LEMMA WarmestAtTheEnd ==
  ASSUME IInv, LoneInv
  PROVE  AnswerExact
<1> SUFFICES ASSUME NEW c \in alone, call[c].op = "range",
                    call[c].prints = <<>>, NEW b \in BackendIDs
             PROVE  call[c].matches[b].Warmth = Warmest(c, b)
  BY DEF AnswerExact
<1> DEFINE warmth == call[c].matches[b].Warmth
           W == {0} \cup {WarmthOf(c, b, p) : p \in Known(c, b)}
<1>1. c \in Callers /\ TypeOK /\ asked[c] \subseteq Prints
  BY DEF LoneInv, LoneUndisturbed, IInv, AskedKept
<1>2. W \subseteq Int /\ warmth \in Int
  <2>1. \A p \in Known(c, b) : WarmthOf(c, b, p) \in Int
    BY <1>1, WarmthType DEF Known
  <2>2. call[c].matches[b] \in CandidateMatch
    BY <1>1 DEF TypeOK, Call
  <2> QED
    BY <2>1, <2>2 DEF CandidateMatch
<1>3. ToCome(c, b) = {}
  BY DEF ToCome, Elems
<1>4. /\ \A p \in Known(c, b) : WarmthOf(c, b, p) <= warmth
      /\ warmth >= 0
      /\ warmth # 0 => \E p \in Known(c, b) : warmth = WarmthOf(c, b, p)
  BY <1>3 DEF LoneInv, WarmestSoFar, InLookup
<1>5. warmth \in W /\ \A w \in W : warmth >= w
  <2> HIDE DEF warmth
  <2> QED
    BY <1>2, <1>4
<1>6. Warmest(c, b) = Max(W)
  BY DEF Warmest, Known, WarmthOf
<1> HIDE DEF W, warmth
<1>7. ASSUME NEW w \in W, \A v \in W : w >= v
      PROVE  w = warmth
  <2>1. w >= warmth /\ warmth >= w /\ w \in Int
    BY <1>2, <1>5, <1>7
  <2> QED
    BY <1>2, <2>1
<1>8. Max(W) = warmth
  BY <1>5, <1>7 DEF Max
<1> QED
  BY <1>6, <1>8 DEF warmth

\* A lookup that no call overlaps answers exactly, whatever the calls before
\* it left behind: for any prefixes, policies, ages and entries. The steps of
\* CandidateMatches are those of a Range that may evict while it goes.
THEOREM LoneAnswersExact == HSpec => []AnswerExact
<1>1. IInv /\ LoneInv => AnswerExact
  BY WarmestAtTheEnd
<1> QED
  BY <1>1, LoneInvariant, PTL

\* While calls do not overlap, the matcher is the table of times: a Remember
\* is lost only by expiry, and times never go back.
THEOREM LoneCallsAreTable == HSpec => LoneCallsImplementTable
<1>1. IInv /\ LoneInv /\ [HNext]_hvars =>
        [(\A c \in Callers : Busy(c) => c \in alone)
           => Table!TableNext \/ UNCHANGED <<Seen, now>>]_hvars
  BY LoneStepImplements DEF LoneInv, HNext
<1> QED
  BY <1>1, LoneInvariant, PTL DEF HSpec, LoneCallsImplementTable
=============================================================================
