------------------------- MODULE Forwarding_proofs -------------------------
(***************************************************************************)
(* Proofs about Forwarding for any number of requests, arrivals and        *)
(* replacements and any outcomes: how far the in-flight gauge can stray,   *)
(* and that a request alone sets it right; that every request is answered  *)
(* exactly once; and that every error is counted once.                     *)
(***************************************************************************)
EXTENDS ForwardingHistory, Induction, TLAPS

N == Cardinality(Requests)

Goroutine ==
  [pc : {"idle", "inc", "load", "set", "forward", "account", "release",
         "dec", "answer", "done"},
   target : Versions, load : Int, err : BOOLEAN, written : BOOLEAN,
   answers : Int]

\* As much of TypeOK as the arguments below need.
Shape ==
  /\ inflight \in [Versions -> Int]
  /\ current \in Versions
  /\ gauge \in Int
  /\ req \in [Requests -> Goroutine]
  /\ updating \in BOOLEAN
  /\ updating => current < MaxReplacements

\* The requests that hold version v.
Holders(v) ==
  {q \in Requests : /\ req[q].target = v
                    /\ req[q].pc \in {"inc", "load", "set", "forward",
                                      "account", "release"}}

InflightExact == \A v \in Versions : inflight[v] = Cardinality(Holders(v))

\* What is about to be written to the gauge was a number of requests.
LoadSmall == \A q \in Requests : req[q].pc = "set" => req[q].load \in 0..N

\* How many answers a request has got, by where it is.
AnswersSoFar ==
  \A q \in Requests :
    /\ req[q].pc \in {"idle", "inc", "load", "set", "forward"} =>
         req[q].answers = 0
    /\ req[q].pc \in {"account", "release", "dec", "answer"} =>
         \/ req[q].written /\ req[q].answers = 1
         \/ ~req[q].written /\ req[q].err /\ req[q].answers = 0
    /\ req[q].pc = "done" => req[q].answers = 1

IInv == Shape /\ InflightExact /\ LoadSmall /\ GaugeBounded /\ AnswersSoFar

-----------------------------------------------------------------------------
LEMMA NumberOfRequests == N \in Nat /\ N >= 1
<1>1. N \in Nat /\ N # 0
  BY RequestsAssumption, FS_CardinalityType, FS_EmptySet DEF N
<1> QED
  BY <1>1

\* Counting a subset of the requests.
LEMMA Count ==
  ASSUME NEW S, S \subseteq Requests
  PROVE  /\ Cardinality(S) \in 0..N
         /\ \A q \in Requests \ S :
              Cardinality(S \cup {q}) = Cardinality(S) + 1
         /\ \A q \in S : /\ Cardinality(S \ {q}) = Cardinality(S) - 1
                         /\ Cardinality(S) >= 1
<1>1. IsFiniteSet(S) /\ Cardinality(S) \in Nat /\ Cardinality(S) <= N
  BY RequestsAssumption, FS_Subset, FS_CardinalityType DEF N
<1>2. \A q \in Requests \ S : Cardinality(S \cup {q}) = Cardinality(S) + 1
  BY <1>1, FS_AddElement
<1>3. \A q \in S : Cardinality(S \ {q}) = Cardinality(S) - 1
  BY <1>1, FS_RemoveElement
<1>4. \A q \in S : Cardinality(S) >= 1
  BY <1>1, FS_EmptySet
<1> QED
  BY <1>1, <1>2, <1>3, <1>4, NumberOfRequests

\* The places of a request that holds a reservation.
Holding == {"inc", "load", "set", "forward", "account", "release"}

\* A step of one request that keeps its reservation and its place in the gauge
\* disturbs neither count.
LEMMA QuietStep ==
  ASSUME IInv, NEW q \in Requests,
         \A p \in Requests \ {q} : req'[p] = req[p],
         q \in Counted <=> q \in Counted',
         req[q].pc \in Holding <=> req'[q].pc \in Holding,
         req[q].pc \in Holding => req'[q].target = req[q].target,
         UNCHANGED inflight
  PROVE  Counted' = Counted /\ InflightExact'
<1>1. Counted' = Counted
  BY DEF Counted
<1>2. ASSUME NEW v \in Versions
      PROVE  Holders(v)' = Holders(v)
  BY DEF Holders, Holding
<1> QED
  BY <1>1, <1>2 DEF IInv, InflightExact

LEMMA InitInv == Init => IInv
<1> SUFFICES ASSUME Init
             PROVE  IInv
  OBVIOUS
<1>1. Counted = {} /\ \A v \in Versions : Holders(v) = {}
  BY DEF Init, Idle, Request, Counted, Holders
<1>2. Shape /\ LoadSmall /\ AnswersSoFar
  <2>1. updating \in BOOLEAN /\ ~updating
    BY DEF Init
  <2>2. /\ inflight \in [Versions -> Int] /\ current \in Versions
        /\ gauge \in Int /\ req \in [Requests -> Goroutine]
    BY BoundsAssumption DEF Init, Idle, Request, Goroutine, Versions
  <2>3. LoadSmall /\ AnswersSoFar
    BY DEF Init, Idle, Request, LoadSmall, AnswersSoFar
  <2> QED
    BY <2>1, <2>2, <2>3, Zenon DEF Shape
<1>3. InflightExact
  BY <1>1, FS_EmptySet DEF Init, InflightExact
<1>4. GaugeBounded
  BY <1>1, FS_EmptySet, NumberOfRequests DEF Init, GaugeBounded, N
<1> QED
  BY <1>2, <1>3, <1>4 DEF IInv

-----------------------------------------------------------------------------
(* One lemma per action that moves a count *)

LEMMA ReserveStep ==
  ASSUME IInv, NEW q \in Requests, Reserve(q)
  PROVE  IInv'
<1>1. PICK v \in 0..current :
        /\ inflight' = [inflight EXCEPT ![v] = @ + 1]
        /\ req' = [req EXCEPT ![q] = Request("inc", v, 0)]
  BY DEF Reserve
<1>2. /\ v \in Versions /\ req[q].pc = "idle"
      /\ UNCHANGED <<errors, current, updating, gauge>>
  BY BoundsAssumption
     DEF Reserve, At, IInv, Shape, Versions, discovery, metrics
<1>3. /\ req' \in [Requests -> Goroutine] /\ req'[q].pc = "inc"
      /\ req'[q].target = v /\ req'[q].answers = 0
      /\ \A p \in Requests \ {q} : req'[p] = req[p]
  BY <1>1, <1>2, BoundsAssumption DEF IInv, Shape, Goroutine, Request, Versions
<1>4. Counted' = Counted
  BY <1>2, <1>3 DEF Counted
<1>5. InflightExact'
  <2>1. q \notin Holders(v) /\ Holders(v)' = Holders(v) \cup {q}
    BY <1>2, <1>3 DEF Holders
  <2>2. \A w \in Versions \ {v} : Holders(w)' = Holders(w)
    BY <1>2, <1>3 DEF Holders
  <2>3. Cardinality(Holders(v)') = Cardinality(Holders(v)) + 1
    BY <2>1, Count DEF Holders
  <2>4. inflight'[v] = inflight[v] + 1
        /\ \A w \in Versions \ {v} : inflight'[w] = inflight[w]
    BY <1>1, <1>2 DEF IInv, Shape
  <2> QED
    BY <2>2, <2>3, <2>4 DEF IInv, InflightExact
<1>6. Shape'
  BY <1>1, <1>2, <1>3 DEF IInv, Shape
<1>7. LoadSmall' /\ AnswersSoFar'
  BY <1>3 DEF IInv, LoadSmall, AnswersSoFar
<1>8. GaugeBounded'
  BY <1>2, <1>4 DEF IInv, GaugeBounded
<1> QED
  BY <1>5, <1>6, <1>7, <1>8 DEF IInv

LEMMA IncGaugeStep ==
  ASSUME IInv, NEW q \in Requests, IncGauge(q)
  PROVE  IInv'
<1> USE DEF IncGauge, At, discovery, state
<1>1. /\ req[q].pc = "inc" /\ gauge' = gauge + 1
      /\ req' = [req EXCEPT ![q].pc = "load"]
      /\ UNCHANGED <<inflight, errors, current, updating>>
  OBVIOUS
<1>2. Shape'
  BY <1>1 DEF IInv, Shape, Goroutine
<1>3. InflightExact'
  <2>1. \A v \in Versions : Holders(v)' = Holders(v)
    BY <1>1 DEF IInv, Shape, Goroutine, Holders
  <2> QED
    BY <1>1, <2>1 DEF IInv, InflightExact
<1>4. LoadSmall' /\ AnswersSoFar'
  BY <1>1 DEF IInv, Shape, Goroutine, LoadSmall, AnswersSoFar
<1>5. GaugeBounded'
  <2>1. q \notin Counted /\ Counted' = Counted \cup {q}
    BY <1>1 DEF IInv, Shape, Goroutine, Counted
  <2>2. Cardinality(Counted') = Cardinality(Counted) + 1
    BY <2>1, Count DEF Counted
  <2>3. Cardinality(Counted) \in 0..N
    BY Count DEF Counted
  <2> QED
    BY <1>1, <2>2, <2>3, NumberOfRequests DEF IInv, Shape, GaugeBounded
<1> QED
  BY <1>2, <1>3, <1>4, <1>5 DEF IInv

\* The counter of a version is the number of its holders, so what is read is
\* at most the number of requests.
LEMMA LoadInflightStep ==
  ASSUME IInv, NEW q \in Requests, LoadInflight(q)
  PROVE  IInv'
<1>1. /\ req[q].pc = "load"
      /\ req' = [req EXCEPT ![q].pc = "set",
                            ![q].load = inflight[req[q].target]]
      /\ UNCHANGED <<inflight, errors, current, updating, gauge>>
  BY DEF LoadInflight, At, discovery, metrics, state
<1>2. inflight[req[q].target] \in 0..N
  <2>1. req[q].target \in Versions
    BY DEF IInv, Shape, Goroutine
  <2> QED
    BY <2>1, Count DEF IInv, InflightExact, Holders
<1>3. /\ req' \in [Requests -> Goroutine] /\ req'[q].pc = "set"
      /\ req'[q].load \in 0..N /\ req'[q].target = req[q].target
      /\ req'[q].answers = req[q].answers
      /\ \A p \in Requests \ {q} : req'[p] = req[p]
  BY <1>1, <1>2 DEF IInv, Shape, Goroutine
<1>4. Counted' = Counted /\ InflightExact'
  BY <1>1, <1>3, QuietStep DEF Counted, Holding
<1>5. Shape'
  BY <1>1, <1>3 DEF IInv, Shape
<1>6. LoadSmall' /\ AnswersSoFar'
  BY <1>1, <1>3 DEF IInv, LoadSmall, AnswersSoFar
<1>7. GaugeBounded'
  BY <1>1, <1>4 DEF IInv, GaugeBounded
<1> QED
  BY <1>4, <1>5, <1>6, <1>7 DEF IInv

\* Whoever sets the gauge is counted himself: it is set to one less than the
\* upper end of the band, or below.
LEMMA SetGaugeStep ==
  ASSUME IInv, NEW q \in Requests, SetGauge(q)
  PROVE  IInv'
<1>1. /\ req[q].pc = "set" /\ gauge' = req[q].load
      /\ UNCHANGED <<inflight, errors, current, updating>>
  BY DEF SetGauge, At, discovery, state
<1>z. PICK z \in Int : z = 0
  OBVIOUS
<1>r. req' = [req EXCEPT ![q].pc = "forward", ![q].load = z]
  BY <1>z, Zenon DEF SetGauge
<1>2. req[q].load \in 0..N
  BY <1>1 DEF IInv, LoadSmall
<1>3. /\ req' \in [Requests -> Goroutine] /\ req'[q].pc = "forward"
      /\ req'[q].target = req[q].target
      /\ req'[q].answers = req[q].answers
      /\ \A p \in Requests \ {q} : req'[p] = req[p]
  BY <1>r DEF IInv, Shape, Goroutine
<1>4. Counted' = Counted /\ InflightExact'
  BY <1>1, <1>3, QuietStep DEF Counted, Holding
<1>5. Shape'
  BY <1>1, <1>2, <1>3, NumberOfRequests DEF IInv, Shape
<1>6. LoadSmall' /\ AnswersSoFar'
  BY <1>1, <1>3 DEF IInv, LoadSmall, AnswersSoFar
<1>7. GaugeBounded'
  <2>1. q \in Counted /\ Counted \subseteq Requests
    BY <1>1 DEF Counted
  <2>2. Cardinality(Counted) \in 0..N /\ Cardinality(Counted) >= 1
    BY <2>1, Count
  <2> QED
    BY <1>1, <1>2, <1>4, <2>2, NumberOfRequests DEF GaugeBounded, N
<1> QED
  BY <1>4, <1>5, <1>6, <1>7 DEF IInv

LEMMA ReleaseStep ==
  ASSUME IInv, NEW q \in Requests, Release(q)
  PROVE  IInv'
<1> DEFINE t == req[q].target
<1>1. /\ req[q].pc = "release"
      /\ inflight' = [inflight EXCEPT ![t] = @ - 1]
      /\ req' = [req EXCEPT ![q].pc = "dec"]
      /\ UNCHANGED <<errors, current, updating, gauge>>
  BY DEF Release, At, discovery, metrics
<1>2. /\ t \in Versions /\ req' \in [Requests -> Goroutine]
      /\ req'[q] = [req[q] EXCEPT !.pc = "dec"]
      /\ req'[q].pc = "dec" /\ req'[q].answers = req[q].answers
      /\ req'[q].written = req[q].written /\ req'[q].err = req[q].err
      /\ \A p \in Requests \ {q} : req'[p] = req[p]
  BY <1>1 DEF IInv, Shape, Goroutine
<1>3. Counted' = Counted
  BY <1>1, <1>2 DEF Counted
<1>4. InflightExact'
  <2>1. q \in Holders(t) /\ Holders(t)' = Holders(t) \ {q}
    BY <1>1, <1>2 DEF Holders
  <2>2. \A w \in Versions \ {t} : Holders(w)' = Holders(w)
    BY <1>1, <1>2 DEF Holders
  <2>3. Cardinality(Holders(t)') = Cardinality(Holders(t)) - 1
    BY <2>1, Count DEF Holders
  <2>4. inflight'[t] = inflight[t] - 1
        /\ \A w \in Versions \ {t} : inflight'[w] = inflight[w]
    BY <1>1, <1>2 DEF IInv, Shape
  <2> QED
    BY <1>2, <2>2, <2>3, <2>4 DEF IInv, InflightExact
<1>5. Shape'
  BY <1>1, <1>2 DEF IInv, Shape
<1>6. LoadSmall' /\ AnswersSoFar'
  BY <1>1, <1>2 DEF IInv, LoadSmall, AnswersSoFar
<1>7. GaugeBounded'
  BY <1>1, <1>3 DEF IInv, GaugeBounded
<1> QED
  BY <1>4, <1>5, <1>6, <1>7 DEF IInv

LEMMA DecGaugeStep ==
  ASSUME IInv, NEW q \in Requests, DecGauge(q)
  PROVE  IInv'
<1>1. /\ req[q].pc = "dec" /\ gauge' = gauge - 1
      /\ req' = [req EXCEPT ![q].pc = "answer"]
      /\ UNCHANGED <<inflight, errors, current, updating>>
  BY DEF DecGauge, At, discovery, state
<1>2. Shape'
  BY <1>1 DEF IInv, Shape, Goroutine
<1>3. InflightExact'
  <2>1. \A v \in Versions : Holders(v)' = Holders(v)
    BY <1>1 DEF IInv, Shape, Goroutine, Holders
  <2> QED
    BY <1>1, <2>1 DEF IInv, InflightExact
<1>4. LoadSmall' /\ AnswersSoFar'
  BY <1>1 DEF IInv, Shape, Goroutine, LoadSmall, AnswersSoFar
<1>5. GaugeBounded'
  <2>1. q \in Counted /\ Counted' = Counted \ {q}
    BY <1>1 DEF IInv, Shape, Goroutine, Counted
  <2>2. Cardinality(Counted') = Cardinality(Counted) - 1
    BY <2>1, Count DEF Counted
  <2>3. Cardinality(Counted) \in 0..N
    BY Count DEF Counted
  <2> QED
    BY <1>1, <2>2, <2>3, NumberOfRequests DEF IInv, Shape, GaugeBounded
<1> QED
  BY <1>2, <1>3, <1>4, <1>5 DEF IInv

\* 0 is in the band, whoever is in flight.
LEMMA InitBackendStep ==
  ASSUME IInv, InitBackend
  PROVE  IInv'
<1>1. gauge' = 0 /\ UNCHANGED <<inflight, errors, current, req>>
      /\ current < MaxReplacements /\ updating'
  BY DEF InitBackend, state
<1>2. Counted' = Counted /\ \A v \in Versions : Holders(v)' = Holders(v)
  BY <1>1 DEF Counted, Holders
<1>3. GaugeBounded'
  <2>1. Cardinality(Counted) \in 0..N
    BY Count DEF Counted
  <2> QED
    BY <1>1, <1>2, <2>1, NumberOfRequests DEF GaugeBounded, N
<1>4. InflightExact'
  BY <1>1, <1>2 DEF IInv, InflightExact
<1>5. Shape'
  BY <1>1 DEF IInv, Shape, InitBackend
<1> QED
  BY <1>1, <1>3, <1>4, <1>5 DEF IInv, LoadSmall, AnswersSoFar

-----------------------------------------------------------------------------
(* The steps that move no count: one lemma for all of them *)

LEMMA OtherStep ==
  ASSUME IInv, NEW q \in Requests,
         Refuse(q) \/ Proxy(q) \/ Account(q) \/ Answer(q) \/ Finish(q)
  PROVE  IInv'
<1>1. UNCHANGED <<inflight, current, updating, gauge>>
  BY DEF Refuse, Proxy, Account, Answer, Finish, state, discovery, metrics
<1>2. /\ req' \in [Requests -> Goroutine] /\ req'[q].pc # "set"
      /\ \A p \in Requests \ {q} : req'[p] = req[p]
      /\ req[q].pc \in Holding => req'[q].target = req[q].target
      /\ \/ req[q].pc \in {"idle", "answer", "done"}
            /\ req'[q].pc \in {"idle", "done"}
         \/ req[q].pc \in {"forward", "account"}
            /\ req'[q].pc \in {"account", "release"}
      /\ req'[q].pc = "idle" => req'[q].answers = 0
      /\ req'[q].pc = "done" => req'[q].answers = 1
      /\ req'[q].pc \in {"account", "release"} =>
           \/ req'[q].written /\ req'[q].answers = 1
           \/ ~req'[q].written /\ req'[q].err /\ req'[q].answers = 0
  <2>1. CASE Refuse(q)
    BY <2>1, BoundsAssumption
       DEF Refuse, At, IInv, Shape, Goroutine, Idle, Request, Versions, Holding
  <2>2. CASE Proxy(q)
    <3>1. PICK pc \in {"account", "release"}, err \in BOOLEAN,
               written \in BOOLEAN, answers \in 0..1 :
            /\ Proxied(q, pc, err, written, answers)
            /\ (written /\ answers = 1) \/ (~written /\ err /\ answers = 0)
      <4>1. \/ Proxied(q, "account", FALSE, TRUE, 1)
            \/ Proxied(q, "account", TRUE, FALSE, 0)
            \/ Proxied(q, "account", TRUE, TRUE, 1)
            \/ Proxied(q, "release", FALSE, TRUE, 1)
        BY <2>2 DEF Proxy
      <4>2. 0 \in 0..1 /\ 1 \in 0..1
        OBVIOUS
      <4> QED
        BY <4>1, <4>2, Zenon
    <3> QED
      BY <2>2, <3>1
         DEF Proxy, Proxied, At, IInv, Shape, Goroutine, Holding
  <2>3. CASE Account(q)
    BY <2>3 DEF Account, At, IInv, Shape, Goroutine, AnswersSoFar, Holding
  <2>4. CASE Answer(q)
    <3>1. Over(q, 1)
      BY <2>4 DEF Answer, At, IInv, Shape, Goroutine, AnswersSoFar
    <3> QED
      BY <2>4, <3>1, BoundsAssumption
         DEF Answer, Over, Request, At, IInv, Shape, Goroutine, Versions, Holding
  <2>5. CASE Finish(q)
    BY <2>5, BoundsAssumption
       DEF Finish, At, IInv, Shape, Goroutine, Idle, Request, Versions, Holding
  <2> QED
    BY <2>1, <2>2, <2>3, <2>4, <2>5
<1>3. Counted' = Counted /\ InflightExact'
  BY <1>1, <1>2, QuietStep DEF Counted, Holding
<1>4. Shape' /\ LoadSmall' /\ AnswersSoFar'
  BY <1>1, <1>2 DEF IInv, Shape, LoadSmall, AnswersSoFar
<1>5. GaugeBounded'
  BY <1>1, <1>3 DEF IInv, GaugeBounded
<1> QED
  BY <1>3, <1>4, <1>5 DEF IInv

LEMMA StoreSnapshotStep ==
  ASSUME IInv, StoreSnapshot
  PROVE  IInv'
<1>1. /\ UNCHANGED <<inflight, gauge, req>>
      /\ current' = current + 1 /\ updating /\ ~updating'
      /\ updating' \in BOOLEAN
  BY DEF StoreSnapshot, state, metrics
<1>2. Shape'
  BY <1>1, BoundsAssumption DEF IInv, Shape, Versions
<1> QED
  BY <1>1, <1>2
     DEF IInv, InflightExact, Holders, LoadSmall, GaugeBounded, Counted, AnswersSoFar

LEMMA NextInv == IInv /\ [Next]_vars => IInv'
<1> SUFFICES ASSUME IInv, [Next]_vars
             PROVE  IInv'
  OBVIOUS
<1>1. CASE UNCHANGED vars
  BY <1>1
     DEF vars, state, discovery, metrics, IInv, Shape, InflightExact, Holders,
         LoadSmall, GaugeBounded, Counted, AnswersSoFar
<1>2. ASSUME NEW q \in Requests, Forward(q)
      PROVE  IInv'
  BY <1>2, IncGaugeStep, LoadInflightStep, SetGaugeStep, ReleaseStep,
     DecGaugeStep, OtherStep DEF Forward
<1> QED
  BY <1>1, <1>2, ReserveStep, OtherStep, InitBackendStep, StoreSnapshotStep
     DEF Next

-----------------------------------------------------------------------------
\* The gauge is never further from the number of requests it should count than
\* there are request goroutines, however long the router runs: between two
\* settings it moves along with that number, and what it is set to was one.
THEOREM GaugeStaysBounded == Spec => []GaugeBounded
<1>1. IInv => GaugeBounded
  BY DEF IInv
<1> QED
  BY <1>1, InitInv, NextInv, PTL DEF Spec

\* Every request that is over has been answered exactly once.
THEOREM AnsweredOnce == Spec => []OneAnswer
<1>1. IInv => OneAnswer
  BY DEF IInv, AnswersSoFar, OneAnswer, At
<1> QED
  BY <1>1, InitInv, NextInv, PTL DEF Spec

-----------------------------------------------------------------------------
(* The types of the variables the counts leave aside *)

Rest ==
  /\ errors \in [Versions -> Nat]
  /\ errorSeries \in Nat
  /\ arrived \in 0..MaxArrivals
  /\ \A q \in Requests : req[q].load \in Nat

LEMMA RestInit == Init => Rest
BY BoundsAssumption DEF Init, Idle, Request, Rest

\* A step of q that only moves q on.
LEMMA MoveKeepsRest ==
  ASSUME Rest, NEW q \in Requests,
         \A p \in Requests \ {q} : req'[p] = req[p], req'[q].load \in Nat,
         UNCHANGED <<errors, errorSeries>>, arrived' \in 0..MaxArrivals
  PROVE  Rest'
BY DEF Rest

LEMMA AccountKeepsRest ==
  ASSUME IInv, Rest, NEW q \in Requests, Account(q)
  PROVE  Rest'
<1>1. PICK e : e = IF req[q].err THEN 1 ELSE 0
  OBVIOUS
<1>4. /\ errors' = [errors EXCEPT ![req[q].target] = @ + e]
      /\ errorSeries' = errorSeries + e
  BY <1>1 DEF Account
<1>5. e \in Nat
  BY <1>1
<1>2. /\ req' = [req EXCEPT ![q].pc = "release"] /\ UNCHANGED arrived
  BY DEF Account
<1>3. \A p \in Requests : req'[p].load = req[p].load
  BY <1>2 DEF IInv, Shape, Goroutine
<1>6. errors' \in [Versions -> Nat] /\ errorSeries' \in Nat
  <2>1. errors \in [Versions -> Nat] /\ errorSeries \in Nat
        /\ req[q].target \in Versions
    BY DEF Rest, IInv, Shape, Goroutine
  <2>2. errors[req[q].target] + e \in Nat
    BY <1>5, <2>1
  <2> QED
    BY <1>4, <1>5, <2>1, <2>2
<1> QED
  BY <1>2, <1>3, <1>6 DEF Rest

LEMMA RestNext == IInv /\ Rest /\ [Next]_vars => Rest'
<1> SUFFICES ASSUME IInv, Rest, [Next]_vars
             PROVE  Rest'
  OBVIOUS
<1>0. req \in [Requests -> Goroutine] /\ arrived \in 0..MaxArrivals
      /\ \A q \in Requests : req[q].load \in Nat
  BY DEF IInv, Shape, Rest
<1>a. ASSUME NEW q \in Requests, Refuse(q) \/ Reserve(q)
      PROVE  Rest'
  <2>1. arrived' = arrived + 1 /\ arrived < MaxArrivals
        /\ UNCHANGED <<errors, errorSeries>>
    BY <1>a DEF Refuse, Reserve, state, metrics
  <2>2. PICK pc, v, n : req' = [req EXCEPT ![q] = Request(pc, v, n)]
    BY <1>a DEF Refuse, Reserve
  <2>3. req'[q].load = 0 /\ \A p \in Requests \ {q} : req'[p] = req[p]
    BY <1>0, <2>2 DEF Request
  <2> QED
    BY <1>0, <2>1, <2>3, MoveKeepsRest, BoundsAssumption
<1>b. ASSUME NEW q \in Requests, IncGauge(q) \/ Release(q) \/ DecGauge(q)
      PROVE  Rest'
  <2>1. /\ UNCHANGED <<errors, errorSeries, arrived>>
        /\ \E pc : req' = [req EXCEPT ![q].pc = pc]
    BY <1>b DEF IncGauge, Release, DecGauge, state, metrics
  <2>2. \A p \in Requests : req'[p].load = req[p].load
    BY <1>0, <2>1 DEF Goroutine
  <2> QED
    BY <1>0, <2>1, <2>2 DEF Rest
<1>c. ASSUME NEW q \in Requests, LoadInflight(q)
      PROVE  Rest'
  <2>1. /\ UNCHANGED <<errors, errorSeries, arrived>>
        /\ req' = [req EXCEPT ![q].pc = "set",
                              ![q].load = inflight[req[q].target]]
    BY <1>c DEF LoadInflight, state, metrics
  <2>2. inflight[req[q].target] \in Nat
    <3>1. req[q].target \in Versions
      BY <1>0 DEF Goroutine
    <3>2. Cardinality(Holders(req[q].target)) \in 0..N
      BY Count DEF Holders
    <3> QED
      BY <3>1, <3>2, NumberOfRequests DEF IInv, InflightExact
  <2>3. req'[q].load \in Nat /\ \A p \in Requests \ {q} : req'[p] = req[p]
    BY <1>0, <2>1, <2>2 DEF Goroutine
  <2> QED
    BY <1>0, <2>1, <2>3, MoveKeepsRest
<1>d. ASSUME NEW q \in Requests, SetGauge(q)
      PROVE  Rest'
  <2>1. UNCHANGED <<errors, errorSeries, arrived>>
    BY <1>d DEF SetGauge, state
  <2>z. PICK z \in Int : z = 0
    OBVIOUS
  <2>2. req' = [req EXCEPT ![q].pc = "forward", ![q].load = z]
    BY <1>d, <2>z, Zenon DEF SetGauge
  <2>3. req'[q].load = z /\ \A p \in Requests \ {q} : req'[p] = req[p]
    BY <1>0, <2>2 DEF Goroutine
  <2> QED
    BY <1>0, <2>1, <2>3, <2>z, MoveKeepsRest
<1>e. ASSUME NEW q \in Requests, Proxy(q)
      PROVE  Rest'
  <2>1. UNCHANGED <<errors, errorSeries, arrived>>
    BY <1>e DEF Proxy, state, metrics
  <2>2. PICK pc, err, written, answers : Proxied(q, pc, err, written, answers)
    BY <1>e DEF Proxy
  <2>3. req'[q].load = 0 /\ \A p \in Requests \ {q} : req'[p] = req[p]
    BY <1>0, <2>2 DEF Proxied
  <2> QED
    BY <1>0, <2>1, <2>3, MoveKeepsRest
<1>f. ASSUME NEW q \in Requests, Answer(q) \/ Finish(q)
      PROVE  Rest'
  <2>1. UNCHANGED <<errors, errorSeries, arrived>>
    BY <1>f DEF Answer, Finish, state, metrics
  <2>2. PICK pc, v, n : req' = [req EXCEPT ![q] = Request(pc, v, n)]
    BY <1>f DEF Answer, Finish, Over, Idle
  <2>3. req'[q].load = 0 /\ \A p \in Requests \ {q} : req'[p] = req[p]
    BY <1>0, <2>2 DEF Request
  <2> QED
    BY <1>0, <2>1, <2>3, MoveKeepsRest
<1>g. CASE InitBackend \/ StoreSnapshot
  BY <1>g DEF InitBackend, StoreSnapshot, state, metrics, Rest
<1>h. CASE UNCHANGED vars
  BY <1>h DEF vars, state, metrics, Rest
<1> QED
  BY <1>a, <1>b, <1>c, <1>d, <1>e, <1>f, <1>g, <1>h, AccountKeepsRest
     DEF Next, Forward

\* Every variable has the shape the code gives it, however many requests
\* there are: what is read for the gauge is a number of requests, and no
\* request is ever written a second answer.
THEOREM ForwardingTypeCorrect == Spec => []TypeOK
<1>1. IInv /\ Rest => TypeOK
  <2> SUFFICES ASSUME IInv, Rest
               PROVE  TypeOK
    OBVIOUS
  <2>1. \A q \in Requests : req[q].answers \in 0..1
    BY DEF IInv, Shape, Goroutine, AnswersSoFar
  <2>2. req \in [Requests ->
          [pc : {"idle", "inc", "load", "set", "forward", "account", "release",
                 "dec", "answer", "done"},
           target : Versions, load : Nat, err : BOOLEAN, written : BOOLEAN,
           answers : 0..1]]
    BY <2>1 DEF IInv, Shape, Goroutine, Rest
  <2>3. /\ inflight \in [Versions -> Int] /\ errors \in [Versions -> Nat]
        /\ current \in Versions /\ updating \in BOOLEAN
        /\ gauge \in Int /\ errorSeries \in Nat
        /\ arrived \in 0..MaxArrivals
    BY DEF IInv, Shape, Rest
  <2> QED
    BY <2>2, <2>3, Zenon DEF TypeOK
<1>2. Init => IInv /\ Rest
  BY InitInv, RestInit
<1>3. IInv /\ Rest /\ [Next]_vars => (IInv /\ Rest)'
  BY NextInv, RestNext
<1> QED
  BY <1>1, <1>2, <1>3, PTL DEF Spec

-----------------------------------------------------------------------------
(* The history: a request that has the label to itself *)

\* What is true of a request that nobody else writes the gauge along with: it
\* is the only holder of its version, so it reads 1 and sets the gauge to 1.
LoneWriter ==
  \A q \in alone :
    /\ q \in Requests /\ WritesGauge(q) /\ Others(q) = {}
    /\ req[q].pc = "set" => req[q].load = 1
    /\ req[q].pc \in {"forward", "account", "release"} => gauge = 1

\* What HNext says of alone.
AloneHistory ==
  alone' = {q \in Requests :
              /\ WritesGauge(q)'
              /\ Others(q)' = {}
              /\ At(q, "idle") => Others(q) = {}
              /\ ~At(q, "idle") => q \in alone
              /\ ~updating'}

\* The steps of a request, and whether they write the gauge.
LEMMA RequestStep ==
  ASSUME IInv, NEW q \in Requests,
         Refuse(q) \/ Reserve(q) \/ Forward(q) \/ Finish(q)
  PROVE  /\ \A p \in Requests \ {q} : req'[p] = req[p]
         /\ gauge' # gauge => WritesGauge(q) \/ WritesGauge(q)'
         /\ req'[q].pc = "set" =>
              req[q].pc = "load" /\ req'[q].load = inflight[req[q].target]
         /\ req'[q].pc \in {"forward", "account", "release"} =>
              \/ req[q].pc \in {"forward", "account"} /\ gauge' = gauge
              \/ req[q].pc = "set" /\ gauge' = req[q].load
<1>t. req \in [Requests -> Goroutine]
  BY DEF IInv, Shape
<1>1. CASE Refuse(q) \/ Reserve(q) \/ Answer(q) \/ Finish(q)
  <2>1. gauge' = gauge
    BY <1>1 DEF Refuse, Reserve, Answer, Finish, metrics
  <2>2. PICK pc \in {"inc", "done", "idle"} :
          \E v, n : req' = [req EXCEPT ![q] = Request(pc, v, n)]
    BY <1>1 DEF Refuse, Reserve, Answer, Finish, Over, Idle
  <2>3. req'[q].pc = pc /\ \A p \in Requests \ {q} : req'[p] = req[p]
    BY <1>t, <2>2 DEF Request
  <2> QED
    BY <2>1, <2>3 DEF WritesGauge
<1>2. CASE IncGauge(q) \/ DecGauge(q) \/ Release(q) \/ Account(q)
  <2>1. PICK pc : req' = [req EXCEPT ![q].pc = pc]
    BY <1>2 DEF IncGauge, DecGauge, Release, Account
  <2>2. req'[q].pc = pc /\ \A p \in Requests \ {q} : req'[p] = req[p]
    BY <1>t, <2>1 DEF Goroutine
  <2>3. \/ req[q].pc = "inc" /\ req'[q].pc = "load" /\ gauge' = gauge + 1
        \/ req[q].pc = "dec" /\ req'[q].pc = "answer" /\ gauge' = gauge - 1
        \/ req[q].pc = "release" /\ req'[q].pc = "dec" /\ gauge' = gauge
        \/ req[q].pc = "account" /\ req'[q].pc = "release" /\ gauge' = gauge
    BY <1>t, <1>2
       DEF IncGauge, DecGauge, Release, Account, At, metrics, Goroutine
  <2>4. gauge \in Int
    BY DEF IInv, Shape
  <2> QED
    BY <2>2, <2>3, <2>4 DEF WritesGauge
<1>3. CASE LoadInflight(q)
  <2>1. /\ req[q].pc = "load" /\ gauge' = gauge
        /\ req' = [req EXCEPT ![q].pc = "set",
                              ![q].load = inflight[req[q].target]]
    BY <1>3 DEF LoadInflight, At, metrics
  <2>2. /\ req'[q].pc = "set" /\ req'[q].load = inflight[req[q].target]
        /\ \A p \in Requests \ {q} : req'[p] = req[p]
    BY <1>t, <2>1 DEF Goroutine
  <2> QED
    BY <2>1, <2>2 DEF WritesGauge
<1>4. CASE SetGauge(q)
  <2>1. req[q].pc = "set" /\ gauge' = req[q].load
    BY <1>4 DEF SetGauge, At
  <2>z. PICK z \in Int : z = 0
    OBVIOUS
  <2>2. req' = [req EXCEPT ![q].pc = "forward", ![q].load = z]
    BY <1>4, <2>z, Zenon DEF SetGauge
  <2>3. req'[q].pc = "forward" /\ \A p \in Requests \ {q} : req'[p] = req[p]
    BY <1>t, <2>2 DEF Goroutine
  <2> QED
    BY <2>1, <2>3 DEF WritesGauge
<1>5. CASE Proxy(q)
  <2>1. req[q].pc = "forward" /\ gauge' = gauge
    BY <1>5 DEF Proxy, At, metrics
  <2>2. PICK pc \in {"account", "release"} :
          \E err, written, answers : Proxied(q, pc, err, written, answers)
    BY <1>5 DEF Proxy
  <2>3. req'[q].pc = pc /\ \A p \in Requests \ {q} : req'[p] = req[p]
    BY <1>t, <2>2 DEF Proxied
  <2> QED
    BY <2>1, <2>3 DEF WritesGauge
<1> QED
  BY <1>1, <1>2, <1>3, <1>4, <1>5 DEF Forward

LEMMA LoneInit == HInit => LoneWriter
BY DEF HInit, LoneWriter

\* Who is alone at its version reads that it is.
LEMMA LoneReadsOne ==
  ASSUME IInv, NEW q \in Requests, req[q].pc = "load", Others(q) = {}
  PROVE  inflight[req[q].target] = 1
<1>1. Holders(req[q].target) = {q}
  BY DEF Holders, Others, WritesGauge
<1>2. req[q].target \in Versions
  BY DEF IInv, Shape, Goroutine
<1> QED
  BY <1>1, <1>2, FS_Singleton DEF IInv, InflightExact

LEMMA LoneNext == IInv /\ LoneWriter /\ [HNext]_hvars => LoneWriter'
<1> SUFFICES ASSUME IInv, LoneWriter, [HNext]_hvars
             PROVE  LoneWriter'
  OBVIOUS
<1>1. CASE UNCHANGED hvars
  BY <1>1 DEF hvars, vars, metrics, LoneWriter, WritesGauge, Others
<1>2. CASE HNext
  <2>1. AloneHistory /\ Next
    BY <1>2 DEF HNext, AloneHistory
  <2> SUFFICES ASSUME NEW q \in alone'
               PROVE  /\ req'[q].pc = "set" => req'[q].load = 1
                      /\ req'[q].pc \in {"forward", "account", "release"}
                           => gauge' = 1
    BY <2>1 DEF LoneWriter, AloneHistory
  <2>2. /\ q \in Requests /\ WritesGauge(q)' /\ Others(q)' = {} /\ ~updating'
        /\ req[q].pc = "idle" => Others(q) = {}
        /\ req[q].pc # "idle" => q \in alone
    BY <2>1 DEF AloneHistory, At
  <2>3. Others(q) = {}
    BY <2>2 DEF LoneWriter
  <2>4. ASSUME req'[q] = req[q], gauge' = gauge
        PROVE  /\ req'[q].pc = "set" => req'[q].load = 1
               /\ req'[q].pc \in {"forward", "account", "release"} => gauge' = 1
    <3>1. req[q].pc # "idle"
      BY <2>2, <2>4 DEF WritesGauge
    <3> QED
      BY <2>2, <2>4, <3>1 DEF LoneWriter
  <2>5. ASSUME NEW p \in Requests,
               Refuse(p) \/ Reserve(p) \/ Forward(p) \/ Finish(p)
        PROVE  /\ req'[q].pc = "set" => req'[q].load = 1
               /\ req'[q].pc \in {"forward", "account", "release"} => gauge' = 1
    <3>1. CASE p = q
      <4>1. /\ req'[q].pc = "set" =>
                 req[q].pc = "load" /\ req'[q].load = inflight[req[q].target]
            /\ req'[q].pc \in {"forward", "account", "release"} =>
                 \/ req[q].pc \in {"forward", "account"} /\ gauge' = gauge
                 \/ req[q].pc = "set" /\ gauge' = req[q].load
        BY <2>5, <3>1, RequestStep
      <4>2. ASSUME req'[q].pc = "set"
            PROVE  req'[q].load = 1
        BY <2>2, <2>3, <4>1, <4>2, LoneReadsOne
      <4>3. ASSUME req'[q].pc \in {"forward", "account", "release"}
            PROVE  gauge' = 1
        BY <2>2, <4>1, <4>3 DEF LoneWriter
      <4> QED
        BY <4>2, <4>3
    <3>2. CASE p # q
      <4>1. /\ req'[q] = req[q]
            /\ gauge' # gauge => WritesGauge(p) \/ WritesGauge(p)'
        BY <2>2, <2>5, <3>2, RequestStep
      <4>2. ~WritesGauge(p) /\ ~WritesGauge(p)'
        BY <2>2, <2>3, <3>2 DEF Others
      <4> QED
        BY <2>4, <4>1, <4>2
    <3> QED
      BY <3>1, <3>2
  <2>6. ~InitBackend
    BY <2>2 DEF InitBackend
  <2>7. CASE StoreSnapshot
    BY <2>4, <2>7 DEF StoreSnapshot, metrics
  <2> QED
    BY <2>1, <2>5, <2>6, <2>7 DEF Next
<1> QED
  BY <1>1, <1>2

\* Whatever earlier requests and replacements did to the gauge, a request that
\* has the label to itself sets it right, for any number of requests before.
THEOREM LoneRequestRepairsGauge == HSpec => []GaugeRepaired
<1>1. LoneWriter => GaugeRepaired
  BY DEF LoneWriter, GaugeRepaired
<1>2. HInit => IInv /\ LoneWriter
  BY InitInv, LoneInit DEF HInit
<1>3. [HNext]_hvars => [Next]_vars
  BY DEF HNext, hvars
<1>4. IInv /\ LoneWriter /\ [HNext]_hvars => (IInv /\ LoneWriter)'
  BY <1>3, NextInv, LoneNext
<1> QED
  BY <1>1, <1>2, <1>4, PTL DEF HSpec

-----------------------------------------------------------------------------
(* The history: errors are counted once *)

\* The fold over the versions' counters, as a recursion over sets.
ErrorsSum == SumsOver(Versions, errors)[Versions]

Tally ==
  /\ failed \in Int
  /\ errorSeries + Cardinality(Uncounted) = failed
  /\ errorSeries = ErrorsSum

LEMMA VersionsFinite == IsFiniteSet(Versions) /\ 0 \in Versions
BY BoundsAssumption, FS_Interval DEF Versions

LEMMA TallyInit == HInit => Tally
<1> SUFFICES ASSUME HInit
             PROVE  Tally
  OBVIOUS
<1>1. Uncounted = {} /\ errorSeries = 0 /\ failed = 0
  BY DEF HInit, Init, Idle, Request, Uncounted, At
<1>2. Cardinality(Uncounted) = 0
  BY <1>1, FS_EmptySet
<1>3. Summable(errors, Versions) /\ \A v \in Versions : errors[v] = 0
  BY DEF HInit, Init, Summable
<1>4. ErrorsSum = 0
  BY <1>3, VersionsFinite, SumOfZeros DEF ErrorsSum
<1> QED
  BY <1>1, <1>2, <1>4 DEF Tally

\* The forwards that failed in this step.
Failing == {q \in Ending("account") : req'[q].err}

\* A step of q counts nothing if q neither enters nor leaves Uncounted.
LEMMA CountsKept ==
  ASSUME Tally, NEW q \in Requests,
         \A p \in Requests \ {q} : req'[p] = req[p],
         q \notin Uncounted, q \notin Uncounted',
         UNCHANGED <<errors, errorSeries>>,
         failed' = failed + Cardinality(Failing)
  PROVE  Tally'
<1>1. Uncounted' = Uncounted
  BY DEF Uncounted, At
<1>2. Failing = {}
  BY DEF Failing, Ending, Uncounted, At
<1>3. failed' = failed
  BY <1>2, FS_EmptySet DEF Tally
<1> QED
  BY <1>1, <1>3 DEF Tally, ErrorsSum

LEMMA ProxyCounts ==
  ASSUME IInv, Rest, Tally, NEW q \in Requests, Proxy(q),
         failed' = failed + Cardinality(Failing)
  PROVE  Tally'
<1>1. req[q].pc = "forward" /\ UNCHANGED <<errors, errorSeries>>
  BY DEF Proxy, At, state, metrics
<1>2. PICK pc \in {"account", "release"} :
        \E err, written, answers : Proxied(q, pc, err, written, answers)
  BY DEF Proxy
<1>3. req'[q].pc = pc /\ \A p \in Requests \ {q} : req'[p] = req[p]
  BY <1>2 DEF Proxied, IInv, Shape
<1>4. q \notin Uncounted
  BY <1>1 DEF Uncounted, At
<1>5. CASE q \notin Uncounted'
  BY <1>1, <1>3, <1>4, <1>5, CountsKept
<1>6. CASE q \in Uncounted'
  <2>1. Failing = {q} /\ Uncounted' = Uncounted \cup {q}
    BY <1>1, <1>3, <1>6 DEF Failing, Ending, Uncounted, At
  <2>2. Cardinality(Uncounted') = Cardinality(Uncounted) + 1
        /\ Cardinality(Uncounted) \in 0..N
    BY <1>4, <2>1, Count DEF Uncounted
  <2>3. failed' = failed + 1
    BY <2>1, FS_Singleton
  <2> QED
    BY <1>1, <2>2, <2>3, NumberOfRequests DEF Tally, Rest, ErrorsSum
<1> QED
  BY <1>5, <1>6

LEMMA AccountCounts ==
  ASSUME IInv, Rest, Tally, NEW q \in Requests, Account(q),
         failed' = failed + Cardinality(Failing)
  PROVE  Tally'
<1> DEFINE t == req[q].target
<1>1. PICK e : e = IF req[q].err THEN 1 ELSE 0
  OBVIOUS
<1>2. /\ req[q].pc = "account"
      /\ errors' = [errors EXCEPT ![t] = @ + e]
      /\ errorSeries' = errorSeries + e
      /\ req' = [req EXCEPT ![q].pc = "release"]
  BY <1>1 DEF Account, At
<1>3. e \in Int /\ t \in Versions /\ errors \in [Versions -> Nat]
  BY <1>1 DEF IInv, Shape, Goroutine, Rest
<1>4. req'[q].pc = "release" /\ \A p \in Requests \ {q} : req'[p] = req[p]
  BY <1>2 DEF IInv, Shape, Goroutine
<1>5. ErrorsSum' = ErrorsSum + e
  <2>1. Summable(errors, Versions)
    BY <1>3 DEF Summable
  <2>2. errors'[t] = errors[t] + e
        /\ \A v \in Versions \ {t} : errors'[v] = errors[v]
    BY <1>2, <1>3
  <2> HIDE DEF t
  <2>3. SumsOver(Versions, errors')[Versions]
          = SumsOver(Versions, errors)[Versions] + e
    BY <1>3, <2>1, <2>2, VersionsFinite, SumUpdated
  <2> QED
    BY <2>3 DEF ErrorsSum, Versions
<1>6. failed' = failed
  <2>1. Failing = {}
    BY <1>2, <1>4 DEF Failing, Ending, At
  <2> QED
    BY <2>1, FS_EmptySet DEF Tally
<1>7. errorSeries' + Cardinality(Uncounted') = failed
  <2>1. Cardinality(Uncounted) \in 0..N /\ errorSeries \in Nat
    BY Count DEF Uncounted, Rest
  <2>2. CASE req[q].err
    <3>1. q \in Uncounted /\ Uncounted' = Uncounted \ {q}
      BY <1>2, <1>4, <2>2 DEF Uncounted, At
    <3>2. Cardinality(Uncounted') = Cardinality(Uncounted) - 1
      BY <3>1, Count DEF Uncounted
    <3>3. errorSeries' = errorSeries + 1
      BY <1>1, <1>2, <2>2
    <3> QED
      BY <2>1, <3>2, <3>3, NumberOfRequests DEF Tally
  <2>3. CASE ~req[q].err
    <3>1. Uncounted' = Uncounted
      BY <1>2, <1>4, <2>3 DEF Uncounted, At
    <3>2. errorSeries' = errorSeries
      BY <1>1, <1>2, <2>1, <2>3
    <3> QED
      BY <3>1, <3>2 DEF Tally
  <2> QED
    BY <2>2, <2>3
<1> QED
  BY <1>2, <1>5, <1>6, <1>7 DEF Tally

LEMMA OtherCounts ==
  ASSUME IInv, Tally, NEW q \in Requests,
         \/ Refuse(q) \/ Reserve(q) \/ Finish(q) \/ IncGauge(q)
         \/ LoadInflight(q) \/ SetGauge(q) \/ Release(q) \/ DecGauge(q)
         \/ Answer(q),
         failed' = failed + Cardinality(Failing)
  PROVE  Tally'
<1>1. /\ UNCHANGED <<errors, errorSeries>> /\ req[q].pc # "account"
  BY DEF Refuse, Reserve, Finish, IncGauge, LoadInflight, SetGauge, Release,
         DecGauge, Answer, At, state, metrics
<1>t. req \in [Requests -> Goroutine]
  BY DEF IInv, Shape
<1>2. /\ \A p \in Requests \ {q} : req'[p] = req[p]
      /\ req'[q].pc # "account"
  <2>1. CASE Refuse(q) \/ Reserve(q) \/ Answer(q) \/ Finish(q)
    <3>1. PICK pc \in {"inc", "done", "idle"} :
            \E v, n : req' = [req EXCEPT ![q] = Request(pc, v, n)]
      BY <2>1 DEF Refuse, Reserve, Answer, Finish, Over, Idle
    <3> QED
      BY <1>t, <3>1 DEF Request
  <2>2. CASE IncGauge(q) \/ DecGauge(q) \/ Release(q)
    <3>1. PICK pc \in {"load", "answer", "dec"} :
            req' = [req EXCEPT ![q].pc = pc]
      BY <2>2 DEF IncGauge, DecGauge, Release
    <3> QED
      BY <1>t, <3>1 DEF Goroutine
  <2>3. CASE LoadInflight(q)
    <3>1. req' = [req EXCEPT ![q].pc = "set",
                             ![q].load = inflight[req[q].target]]
      BY <2>3 DEF LoadInflight
    <3> QED
      BY <1>t, <3>1 DEF Goroutine
  <2>4. CASE SetGauge(q)
    <3>z. PICK z \in Int : z = 0
      OBVIOUS
    <3>1. req' = [req EXCEPT ![q].pc = "forward", ![q].load = z]
      BY <2>4, <3>z, Zenon DEF SetGauge
    <3> QED
      BY <1>t, <3>1 DEF Goroutine
  <2> QED
    BY <2>1, <2>2, <2>3, <2>4
<1>3. q \notin Uncounted /\ q \notin Uncounted'
  BY <1>1, <1>2 DEF Uncounted, At
<1> QED
  BY <1>1, <1>2, <1>3, CountsKept

LEMMA TallyNext == IInv /\ Rest /\ Tally /\ [HNext]_hvars => Tally'
<1> SUFFICES ASSUME IInv, Rest, Tally, [HNext]_hvars
             PROVE  Tally'
  OBVIOUS
<1>1. CASE UNCHANGED hvars
  BY <1>1 DEF hvars, vars, state, metrics, Tally, ErrorsSum, Uncounted, At
<1>2. CASE HNext
  <2>1. Next /\ failed' = failed + Cardinality(Failing)
    BY <1>2 DEF HNext, Failing
  <2>2. CASE InitBackend \/ StoreSnapshot
    <3>1. UNCHANGED <<errors, errorSeries, req>>
      BY <2>2 DEF InitBackend, StoreSnapshot, state, metrics
    <3>2. Failing = {} /\ Uncounted' = Uncounted
      BY <3>1 DEF Failing, Ending, Uncounted, At
    <3>3. failed' = failed
      BY <2>1, <3>2, FS_EmptySet DEF Tally
    <3> QED
      BY <3>1, <3>2, <3>3 DEF Tally, ErrorsSum
  <2>3. ASSUME NEW q \in Requests,
               Refuse(q) \/ Reserve(q) \/ Forward(q) \/ Finish(q)
        PROVE  Tally'
    BY <2>1, <2>3, ProxyCounts, AccountCounts, OtherCounts DEF Forward
  <2> QED
    BY <2>1, <2>2, <2>3 DEF Next
<1> QED
  BY <1>1, <1>2

\* The error series counts each forward that returned an error once, and is
\* the sum over all objects discovery ever put behind the ID: for any number
\* of them and of requests.
THEOREM ErrorsCountedOnce == HSpec => []ErrorsCounted
<1>1. Rest /\ Tally => ErrorsCounted
  <2> SUFFICES ASSUME Rest, Tally
               PROVE  ErrorsCounted
    OBVIOUS
  <2>1. errors \in [Versions -> Int]
    BY DEF Rest
  <2>2. FoldFunction(+, 0, errors) = SumsOver(Versions, errors)[Versions]
    BY <2>1, FoldIsSum
  <2>3. errorSeries = FoldFunction(+, 0, errors)
    BY <2>2 DEF Tally, ErrorsSum
  <2> QED
    BY <2>3 DEF Tally, ErrorsCounted
<1>2. HInit => IInv /\ Rest /\ Tally
  BY InitInv, RestInit, TallyInit DEF HInit
<1>3. [HNext]_hvars => [Next]_vars
  BY DEF HNext, hvars
<1>4. IInv /\ Rest /\ Tally /\ [HNext]_hvars => (IInv /\ Rest /\ Tally)'
  BY <1>3, NextInv, RestNext, TallyNext
<1> QED
  BY <1>1, <1>2, <1>4, PTL DEF HSpec
=============================================================================
