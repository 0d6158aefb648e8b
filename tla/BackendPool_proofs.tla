------------------------- MODULE BackendPool_proofs -------------------------
(***************************************************************************)
(* Proofs about BackendPool and PoolHistory for every set of requests,     *)
(* addresses, endpoints and listings, every threshold and both policies:   *)
(* the inductive invariant; what discovery may do to the health of a       *)
(* backend; and what a request may conclude from the healths it reads one  *)
(* after the other.                                                        *)
(***************************************************************************)
EXTENDS PoolHistory, Induction, FiniteSetTheorems, SequenceTheorems, TLAPS

-----------------------------------------------------------------------------
(* Lemmas about the operators *)

\* The elements of a sequence over S are in S; the head of a non-empty one is
\* an element of it and so are those of its tail.
LEMMA ElemsOfSeq ==
  ASSUME NEW S, NEW s \in Seq(S)
  PROVE  /\ Elems(s) \subseteq S
         /\ s # <<>> => /\ Head(s) \in Elems(s)
                        /\ Head(s) \in S
                        /\ Tail(s) \in Seq(S)
                        /\ Elems(Tail(s)) \subseteq Elems(s)
         /\ Len(s) # 1 /\ s # <<>> => Tail(s) # <<>>
<1>1. Elems(s) \subseteq S
  BY LenProperties DEF Elems
<1>2. ASSUME s # <<>>
      PROVE  /\ Head(s) \in Elems(s) /\ Head(s) \in S /\ Tail(s) \in Seq(S)
             /\ Len(s) \in Nat \ {0} /\ Len(Tail(s)) = Len(s) - 1
             /\ \A i \in 1..Len(Tail(s)) : Tail(s)[i] = s[i + 1]
  <2>1. Len(s) \in Nat \ {0} /\ DOMAIN s = 1..Len(s)
    BY <1>2, EmptySeq, LenProperties
  <2>2. Head(s) = s[1]
    BY <1>2
  <2>3. Head(s) \in Elems(s)
    BY <2>1, <2>2 DEF Elems
  <2> QED
    BY <1>2, <2>1, <2>3, HeadTailProperties
<1>3. ASSUME s # <<>>
      PROVE  Elems(Tail(s)) \subseteq Elems(s)
  <2>1. DOMAIN Tail(s) = 1..(Len(s) - 1) /\ DOMAIN s = 1..Len(s)
    BY <1>3, <1>2, LenProperties
  <2> QED
    BY <1>3, <1>2, <2>1 DEF Elems
<1>4. ASSUME s # <<>>, Len(s) # 1
      PROVE  Tail(s) # <<>>
  <2>1. Len(Tail(s)) # 0
    BY <1>4, <1>2
  <2> QED
    BY <2>1, EmptySeq
<1> QED
  BY <1>1, <1>2, <1>3, <1>4

\* Rotating a non-empty list keeps its length and its elements: every index
\* (start + i) % len is an index of the list.
LEMMA RotateType ==
  ASSUME NEW S, NEW list \in Seq(S), list # <<>>, NEW start \in Nat
  PROVE  /\ Rotate(list, start) \in Seq(S)
         /\ Rotate(list, start) # <<>>
         /\ Elems(Rotate(list, start)) \subseteq Elems(list)
<1> DEFINE n     == Len(list)
           at(i) == ((start + i - 1) % n) + 1
<1>1. n \in Nat \ {0} /\ DOMAIN list = 1..n /\ list \in [1..n -> S]
  BY EmptySeq, LenProperties
<1>2. ASSUME NEW i \in 1..n
      PROVE  at(i) \in 1..n
  <2> DEFINE k == start + i - 1
  <2>1. k \in Nat
    BY <1>1
  <2> HIDE DEF k, n
  <2>2. k % n \in 0..(n - 1)
    BY <1>1, <2>1
  <2>3. (k % n) + 1 \in 1..n
    BY <1>1, <2>2
  <2> QED
    BY <2>3 DEF k
<1>3. Rotate(list, start) = [i \in 1..n |-> list[at(i)]]
  BY DEF Rotate
<1> HIDE DEF at, n
<1>4. Rotate(list, start) \in [1..n -> S]
  BY <1>1, <1>2, <1>3
<1>5. Rotate(list, start) \in Seq(S) /\ DOMAIN Rotate(list, start) = 1..n
  BY <1>1, <1>4
<1>6. Elems(Rotate(list, start)) \subseteq Elems(list)
  BY <1>1, <1>2, <1>3 DEF Elems
<1> QED
  BY <1>1, <1>5, <1>6, EmptySeq

\* A candidate comes from the list it was looked up in.
LEMMA ByIDInList ==
  ASSUME NEW list, NEW id
  PROVE  ByID(list, id) \subseteq Elems(list)
BY DEF ByID, Elems

\* A fresh object has the shape of a BackendState.
LEMMA NewStateType ==
  ASSUME NEW e \in Endpoint \cup {NoEndpoint}
  PROVE  NewBackendState(e) \in BackendState
BY ThresholdAssumption DEF NewBackendState, BackendState

\* Allocation keeps the heap well formed.
LEMMA AllocateType ==
  ASSUME NEW h \in [Refs -> BackendState], NEW eps \in Seq(Endpoint),
         NEW list, NEW new \in SUBSET DOMAIN eps
  PROVE  Allocate(h, eps, list, new) \in [Refs -> BackendState]
<1> SUFFICES ASSUME NEW r \in Refs
             PROVE  Allocate(h, eps, list, new)[r] \in BackendState
  BY DEF Allocate
<1>1. CASE \E i \in new : list[i] = r
  <2> DEFINE i == CHOOSE j \in new : list[j] = r
  <2>1. i \in new
    BY <1>1
  <2>2. eps[i] \in Endpoint
    BY <2>1
  <2> QED
    BY <1>1, <2>2, NewStateType DEF Allocate
<1>2. CASE ~ \E i \in new : list[i] = r
  BY <1>2 DEF Allocate
<1> QED
  BY <1>1, <1>2

\* Collection keeps the heap well formed.
LEMMA HeapType ==
  ASSUME NEW h \in [Refs -> BackendState], Heap(h)
  PROVE  states' \in [Refs -> BackendState]
BY NewStateType DEF Heap, Freed

-----------------------------------------------------------------------------
(* The local state of one request *)

\* What each goroutine may take for granted where it stands: a round-robin
\* scan and a health round have a state left to read, and a request that
\* forwards holds an object. The steps keep it one by one; InflightExact needs
\* the last of these, or a release would decrement nothing.
ControlState ==
  /\ \A q \in Requests :
       /\ req[q].pc = "loaded" => req[q].snap # <<>>
       /\ req[q].pc = "scan" =>
            /\ Elems(req[q].todo) \subseteq Elems(req[q].snap)
            /\ policy # "cache_aware" => req[q].todo # <<>>
       /\ req[q].pc = "forward" => req[q].target \in Refs
       /\ req[q].pc \in {"idle", "loaded"} => req[q].target = NoRef
  /\ checker.pc # "idle" => checker.todo # <<>>

\* The inductive invariant: the conjunction the proofs carry through a step.
IInv == TypeOK /\ ControlState /\ SelectionFromOwnSnapshot /\ InflightExact

\* What TypeOK, ControlState and SelectionFromOwnSnapshot say of one request.
RequestOK(pol, l) ==
  /\ l \in Request
  /\ l.pc = "loaded" => l.snap # <<>>
  /\ l.pc = "scan" =>
       /\ Elems(l.todo) \subseteq Elems(l.snap)
       /\ pol # "cache_aware" => l.todo # <<>>
  /\ l.pc = "forward" => l.target \in Refs
  /\ l.pc \in {"idle", "loaded"} => l.target = NoRef
  /\ l.pc \in {"scan", "match"} => l.target \in Elems(l.snap) \cup {NoRef}

\* The local state of the health goroutine.
CheckerOK ==
  /\ checker \in [pc : {"idle", "probe", "apply"}, todo : Seq(Refs),
                  ok : BOOLEAN]
  /\ checker.pc # "idle" => checker.todo # <<>>

\* The data invariant, regrouped by goroutine.
DInv ==
  /\ states \in [Refs -> BackendState]
  /\ policy \in Policies
  /\ backends \in Seq(Refs)
  /\ next \in 0..(NextWrap - 1)
  /\ req \in [Requests -> Request]
  /\ \A q \in Requests : RequestOK(policy, req[q])
  /\ CheckerOK

LEMMA Regrouped ==
  DInv <=> TypeOK /\ ControlState /\ SelectionFromOwnSnapshot
BY DEF DInv, TypeOK, ControlState, SelectionFromOwnSnapshot, RequestOK,
       CheckerOK

\* A step of one request keeps the requests well formed if its new local
\* state is.
LEMMA GotoOK ==
  ASSUME DInv, NEW q \in Requests, NEW l, RequestOK(policy, l), Goto(q, l)
  PROVE  /\ req' \in [Requests -> Request]
         /\ \A p \in Requests : RequestOK(policy, req'[p])
         /\ req'[q] = l
         /\ \A p \in Requests \ {q} : req'[p] = req[p]
BY DEF DInv, Goto, RequestOK

LEMMA IdleOK == RequestOK(policy, Idle)
BY EmptySeq DEF RequestOK, Idle, Request

-----------------------------------------------------------------------------
(* The reservations *)

LEMMA HoldersFinite ==
  ASSUME NEW r
  PROVE  IsFiniteSet(Holders(r))
BY RequestsAssumption, FS_Subset DEF Holders

\* The counters of a heap are exact after a step if they count the holders
\* before collection: an object that is collected has no holder left.
LEMMA HeapExact ==
  ASSUME req' \in [Requests -> Request], NEW h, Heap(h),
         \A r \in Refs : h[r].Inflight = Cardinality(Holders(r)')
  PROVE  InflightExact'
<1> SUFFICES ASSUME NEW r \in Refs
             PROVE  states'[r].Inflight = Cardinality(Holders(r)')
  BY DEF InflightExact
<1>1. CASE r \in Live'
  BY <1>1 DEF Heap
<1>2. CASE r \notin Live'
  <2>1. Holders(r)' = {}
    BY <1>2, NoRefAssumption DEF Holders, Live
  <2>2. states'[r].Inflight = 0
    BY <1>2 DEF Heap, Freed, NewBackendState
  <2> QED
    BY <2>1, <2>2, FS_EmptySet
<1> QED
  BY <1>1, <1>2

\* A step of a request that neither reserves nor releases.
LEMMA HoldersSame ==
  ASSUME DInv, NEW q \in Requests, NEW l, Goto(q, l),
         req[q].pc # "forward", l.pc # "forward"
  PROVE  \A r \in Refs : Holders(r)' = Holders(r)
BY DEF DInv, Goto, Holders

-----------------------------------------------------------------------------
(* The steps: one lemma per action, for the data and for the counters *)

\* What the proof carries through every step.
Inv == DInv /\ InflightExact

LEMMA LoadSnapshotStep ==
  ASSUME Inv, NEW q \in Requests, LoadSnapshot(q)
  PROVE  Inv'
<1> DEFINE l == [Idle EXCEPT !.pc = "loaded", !.snap = backends]
<1>1. RequestOK(policy, l)
  BY EmptySeq DEF Inv, DInv, LoadSnapshot, RequestOK, Idle, Request
<1>2. DInv'
  BY <1>1, GotoOK DEF Inv, DInv, LoadSnapshot, CheckerOK
<1>3. \A r \in Refs : Holders(r)' = Holders(r)
  BY HoldersSame DEF Inv, LoadSnapshot, Idle
<1> QED
  BY <1>2, <1>3 DEF Inv, InflightExact, LoadSnapshot

LEMMA RejectBodyStep ==
  ASSUME Inv, NEW q \in Requests, RejectBody(q)
  PROVE  Inv'
<1>1. DInv'
  BY IdleOK, GotoOK, HeapType DEF Inv, DInv, RejectBody, CheckerOK
<1>2. \A r \in Refs : Holders(r)' = Holders(r)
  BY HoldersSame DEF Inv, RejectBody, Idle
<1> QED
  BY <1>1, <1>2, HeapExact DEF Inv, DInv, InflightExact, RejectBody

LEMMA TakeTurnStep ==
  ASSUME Inv, NEW q \in Requests, TakeTurn(q)
  PROVE  Inv'
<1> DEFINE snap == req[q].snap
           l == [req[q] EXCEPT !.pc = "scan", !.todo = Rotate(snap, next)]
<1>1. next \in Nat /\ snap \in Seq(Refs) /\ snap # <<>>
  BY NextWrapAssumption DEF Inv, DInv, TakeTurn, RequestOK, Request
<1>2. RequestOK(policy, l)
  <2>1. RequestOK(policy, req[q]) /\ req[q].pc = "loaded"
    BY DEF Inv, DInv, TakeTurn
  <2>2. /\ Rotate(snap, next) \in Seq(Refs) /\ Rotate(snap, next) # <<>>
        /\ Elems(Rotate(snap, next)) \subseteq Elems(snap)
    BY <1>1, RotateType
  <2> QED
    BY <2>1, <2>2 DEF RequestOK, Request
<1>3. next' \in 0..(NextWrap - 1)
  BY <1>1, NextWrapAssumption DEF TakeTurn
<1>4. DInv'
  BY <1>2, <1>3, GotoOK DEF Inv, DInv, TakeTurn, CheckerOK
<1>5. \A r \in Refs : Holders(r)' = Holders(r)
  BY HoldersSame DEF Inv, DInv, TakeTurn, Request
<1> QED
  BY <1>4, <1>5 DEF Inv, InflightExact, TakeTurn

LEMMA ScanRoundRobinStep ==
  ASSUME Inv, NEW q \in Requests, ScanRoundRobin(q)
  PROVE  Inv'
<1> DEFINE todo == req[q].todo
           hit  == [req[q] EXCEPT !.pc = "match", !.todo = <<>>,
                                  !.target = Head(todo)]
           miss == [req[q] EXCEPT !.todo = Tail(@)]
<1>1. RequestOK(policy, req[q]) /\ req[q].pc = "scan" /\ todo # <<>>
  BY DEF Inv, DInv, ScanRoundRobin, RequestOK
<1>2. /\ Head(todo) \in Elems(todo) /\ Head(todo) \in Refs
      /\ Tail(todo) \in Seq(Refs) /\ Elems(Tail(todo)) \subseteq Elems(todo)
      /\ Len(todo) # 1 => Tail(todo) # <<>>
  BY <1>1, ElemsOfSeq DEF RequestOK, Request
<1>3. RequestOK(policy, hit)
  BY <1>1, <1>2, EmptySeq DEF RequestOK, Request
<1>4. Len(todo) # 1 => RequestOK(policy, miss)
  BY <1>1, <1>2 DEF RequestOK, Request
<1>5. PICK l : /\ Goto(q, l) /\ RequestOK(policy, l) /\ l.pc # "forward"
  BY <1>1, <1>3, <1>4, IdleOK DEF ScanRoundRobin, Idle, RequestOK, Request
<1>6. DInv'
  BY <1>5, GotoOK, HeapType DEF Inv, DInv, ScanRoundRobin, CheckerOK
<1>7. \A r \in Refs : Holders(r)' = Holders(r)
  BY <1>1, <1>5, HoldersSame DEF Inv
<1> QED
  BY <1>6, <1>7, HeapExact DEF Inv, DInv, InflightExact, ScanRoundRobin

LEMMA ScanLoadAwareStep ==
  ASSUME Inv, NEW q \in Requests, ScanLoadAware(q)
  PROVE  Inv'
<1> DEFINE todo == req[q].todo
<1>1. RequestOK(policy, req[q]) /\ req[q].pc = "scan" /\ todo # <<>>
  BY DEF Inv, DInv, ScanLoadAware
<1>2. /\ Head(todo) \in Elems(todo) /\ Head(todo) \in Refs
      /\ Tail(todo) \in Seq(Refs) /\ Elems(Tail(todo)) \subseteq Elems(todo)
  BY <1>1, ElemsOfSeq DEF RequestOK, Request
<1>3. ASSUME NEW r \in {Head(todo), req[q].target}
      PROVE  RequestOK(policy, [req[q] EXCEPT !.todo = Tail(@), !.target = r])
  BY <1>1, <1>2 DEF RequestOK, Request, ScanLoadAware
<1>4. PICK t \in {Head(todo), req[q].target} :
        Goto(q, [req[q] EXCEPT !.todo = Tail(@), !.target = t])
  BY DEF ScanLoadAware
<1>5. DInv'
  BY <1>3, <1>4, GotoOK DEF Inv, DInv, ScanLoadAware, CheckerOK
<1>6. \A r \in Refs : Holders(r)' = Holders(r)
  BY <1>1, <1>4, HoldersSame DEF Inv, RequestOK, Request
<1> QED
  BY <1>5, <1>6 DEF Inv, InflightExact, ScanLoadAware

LEMMA MatchStep ==
  ASSUME Inv, NEW q \in Requests, Match(q)
  PROVE  Inv'
<1>1. PICK cands \in SUBSET IDs :
        Goto(q, [req[q] EXCEPT !.pc = "match", !.cands = cands])
  BY DEF Match
<1> DEFINE l == [req[q] EXCEPT !.pc = "match", !.cands = cands]
<1>2. RequestOK(policy, l)
  BY DEF Inv, DInv, Match, RequestOK, Request
<1>3. DInv'
  BY <1>1, <1>2, GotoOK DEF Inv, DInv, Match, CheckerOK
<1>4. \A r \in Refs : Holders(r)' = Holders(r)
  BY <1>1, HoldersSame DEF Inv, DInv, Match, RequestOK, Request
<1> QED
  BY <1>3, <1>4 DEF Inv, InflightExact, Match

LEMMA CandidateStep ==
  ASSUME Inv, NEW q \in Requests, Candidate(q)
  PROVE  Inv'
<1>1. RequestOK(policy, req[q]) /\ req[q].pc = "match"
  BY DEF Inv, DInv, Candidate
<1>2. PICK id \in req[q].cands, r \in Elems(req[q].snap) \cup {req[q].target} :
        Goto(q, [req[q] EXCEPT !.cands = @ \ {id}, !.target = r])
  BY ByIDInList DEF Candidate
<1> DEFINE l == [req[q] EXCEPT !.cands = @ \ {id}, !.target = r]
<1>3. Elems(req[q].snap) \subseteq Refs
  BY <1>1, ElemsOfSeq DEF RequestOK, Request
<1>4. RequestOK(policy, l)
  BY <1>1, <1>3 DEF RequestOK, Request
<1>5. DInv'
  BY <1>2, <1>4, GotoOK DEF Inv, DInv, Candidate, CheckerOK
<1>6. \A s \in Refs : Holders(s)' = Holders(s)
  BY <1>1, <1>2, HoldersSame DEF Inv, RequestOK, Request
<1> QED
  BY <1>5, <1>6 DEF Inv, InflightExact, Candidate

LEMMA RejectUnhealthyStep ==
  ASSUME Inv, NEW q \in Requests, RejectUnhealthy(q)
  PROVE  Inv'
<1>1. DInv'
  BY IdleOK, GotoOK, HeapType DEF Inv, DInv, RejectUnhealthy, CheckerOK
<1>2. \A r \in Refs : Holders(r)' = Holders(r)
  BY HoldersSame DEF Inv, RejectUnhealthy, Idle
<1> QED
  BY <1>1, <1>2, HeapExact DEF Inv, DInv, InflightExact, RejectUnhealthy

\* The request joins the holders of its target, whose counter goes up.
LEMMA ReserveStep ==
  ASSUME Inv, NEW q \in Requests, Reserve(q)
  PROVE  Inv'
<1>0. PICK t \in Refs : t = req[q].target
  BY DEF Inv, DInv, Reserve, RequestOK, Request
<1> DEFINE l == [Idle EXCEPT !.pc = "forward", !.target = t]
           h == [states EXCEPT ![t].Inflight = @ + 1]
<1>1. /\ RequestOK(policy, req[q]) /\ req[q].pc = "match"
      /\ states \in [Refs -> BackendState] /\ Goto(q, l) /\ Heap(h)
  BY <1>0 DEF Inv, DInv, Reserve
<1>2. RequestOK(policy, l)
  BY <1>1, EmptySeq DEF RequestOK, Request, Idle
<1>3. h \in [Refs -> BackendState]
  BY <1>1 DEF BackendState
<1>4. DInv'
  BY <1>1, <1>2, <1>3, GotoOK, HeapType DEF Inv, DInv, Reserve, CheckerOK
<1>5. /\ q \notin Holders(t)
      /\ Holders(t)' = Holders(t) \cup {q}
      /\ \A r \in Refs \ {t} : Holders(r)' = Holders(r)
  BY <1>0, <1>1 DEF Inv, DInv, Goto, Holders, Idle
<1>6. ASSUME NEW r \in Refs
      PROVE  h[r].Inflight = Cardinality(Holders(r)')
  <2>1. states[r].Inflight = Cardinality(Holders(r))
    BY DEF Inv, InflightExact
  <2>2. Cardinality(Holders(t) \cup {q}) = Cardinality(Holders(t)) + 1
    BY <1>5, HoldersFinite, FS_AddElement
  <2>3. h[r].Inflight = IF r = t THEN states[r].Inflight + 1
                                 ELSE states[r].Inflight
    BY <1>1 DEF BackendState
  <2> HIDE DEF h
  <2> QED
    BY <1>5, <2>1, <2>2, <2>3
<1> QED
  BY <1>1, <1>4, <1>6, HeapExact DEF Inv, DInv

\* The request leaves the holders of its target, whose counter goes down.
LEMMA ReleaseStep ==
  ASSUME Inv, NEW q \in Requests, Release(q)
  PROVE  Inv'
<1>0. PICK t \in Refs : t = req[q].target
  BY DEF Inv, DInv, Release, RequestOK, Request
<1> DEFINE h == [states EXCEPT ![t].Inflight = @ - 1]
<1>1. /\ RequestOK(policy, req[q]) /\ req[q].pc = "forward"
      /\ states \in [Refs -> BackendState] /\ Goto(q, Idle) /\ Heap(h)
  BY <1>0 DEF Inv, DInv, Release
<1>2. h \in [Refs -> BackendState]
  BY <1>1 DEF BackendState
<1>3. DInv'
  BY <1>1, <1>2, IdleOK, GotoOK, HeapType DEF Inv, DInv, Release, CheckerOK
<1>4. /\ q \in Holders(t)
      /\ Holders(t)' = Holders(t) \ {q}
      /\ \A r \in Refs \ {t} : Holders(r)' = Holders(r)
  BY <1>0, <1>1 DEF Inv, DInv, Goto, Holders, Idle
<1>5. ASSUME NEW r \in Refs
      PROVE  h[r].Inflight = Cardinality(Holders(r)')
  <2>1. states[r].Inflight = Cardinality(Holders(r))
    BY DEF Inv, InflightExact
  <2>2. Cardinality(Holders(t) \ {q}) = Cardinality(Holders(t)) - 1
    BY <1>4, HoldersFinite, FS_RemoveElement
  <2>3. h[r].Inflight = IF r = t THEN states[r].Inflight - 1
                                 ELSE states[r].Inflight
    BY <1>1 DEF BackendState
  <2> HIDE DEF h
  <2> QED
    BY <1>4, <2>1, <2>2, <2>3
<1> QED
  BY <1>1, <1>3, <1>5, HeapExact DEF Inv, DInv

\* Discovery allocates where no request holds anything: the new counters are
\* 0 and every other object, listed again or not, keeps its own.
LEMMA UpdateBackendsStep ==
  ASSUME Inv, NEW eps \in Listings, UpdateBackends(eps)
  PROVE  Inv'
<1> DEFINE fresh == {i \in DOMAIN eps : Existing(eps[i]) = {}}
<1>1. eps \in Seq(Endpoint) /\ DOMAIN eps = 1..Len(eps) /\ Len(eps) \in Nat
  BY ListingsAssumption, LenProperties
<1>2. PICK list \in [1..Len(eps) -> Refs] :
        /\ \A i \in fresh : list[i] \notin Live
        /\ backends' = list
        /\ Heap(Allocate(states, eps, list, fresh))
  BY DEF UpdateBackends
<1> DEFINE h == Allocate(states, eps, list, fresh)
<1>3. list \in Seq(Refs)
  BY <1>1
<1>4. h \in [Refs -> BackendState]
  BY <1>1, AllocateType DEF Inv, DInv
<1>5. UNCHANGED <<policy, next, req, checker>>
  BY DEF UpdateBackends
<1>6. DInv'
  BY <1>2, <1>3, <1>4, <1>5, HeapType DEF Inv, DInv, CheckerOK
<1>7. ASSUME NEW r \in Refs
      PROVE  h[r].Inflight = Cardinality(Holders(r)')
  <2>1. Holders(r)' = Holders(r)
    BY <1>5 DEF Holders
  <2>2. CASE \E i \in fresh : list[i] = r
    <3>1. r \notin Live
      BY <1>2, <2>2
    <3>2. Holders(r) = {}
      BY <3>1, NoRefAssumption DEF Live, Holders
    <3>3. h[r].Inflight = 0
      BY <2>2 DEF Allocate, NewBackendState
    <3> QED
      BY <2>1, <3>2, <3>3, FS_EmptySet
  <2>3. CASE ~ \E i \in fresh : list[i] = r
    BY <2>1, <2>3 DEF Allocate, Inv, InflightExact
  <2> QED
    BY <2>2, <2>3
<1> QED
  BY <1>2, <1>6, <1>7, HeapExact DEF Inv, DInv

LEMMA StartRoundStep ==
  ASSUME Inv, StartRound
  PROVE  Inv'
<1>1. DInv'
  BY DEF Inv, DInv, StartRound, CheckerOK, Resting
<1> QED
  BY <1>1 DEF Inv, InflightExact, Holders, StartRound

LEMMA ProbeStep ==
  ASSUME Inv, Probe
  PROVE  Inv'
<1>1. DInv'
  BY DEF Inv, DInv, Probe, CheckerOK
<1> QED
  BY <1>1 DEF Inv, InflightExact, Holders, Probe

\* The health goroutine writes one object and leaves its counter alone.
LEMMA ApplyStep ==
  ASSUME Inv, Apply
  PROVE  Inv'
<1> DEFINE todo == checker.todo
<1>1. PICK r \in Refs : r = Head(todo)
  BY ElemsOfSeq DEF Inv, DInv, CheckerOK, Apply
<1> DEFINE failures == IF checker.ok THEN 0
                       ELSE IF states[r].Failures < Threshold
                            THEN states[r].Failures + 1 ELSE Threshold
           healthy  == IF checker.ok THEN TRUE
                       ELSE states[r].Healthy /\ failures < Threshold
           h == [states EXCEPT ![r].Failures = failures,
                               ![r].Healthy = healthy]
<1>2. Heap(h)
  BY <1>1 DEF Apply
<1>3. h \in [Refs -> BackendState]
  <2>1. states \in [Refs -> BackendState] /\ states[r].Failures \in 0..Threshold
    BY DEF Inv, DInv, BackendState
  <2>2. failures \in 0..Threshold
    BY <2>1, ThresholdAssumption
  <2>3. healthy \in BOOLEAN
    OBVIOUS
  <2> HIDE DEF failures, healthy
  <2> QED
    BY <2>1, <2>2, <2>3 DEF BackendState
<1>4. CheckerOK'
  <2>1. /\ todo \in Seq(Refs) /\ todo # <<>>
        /\ Tail(todo) \in Seq(Refs) /\ Len(todo) # 1 => Tail(todo) # <<>>
    BY ElemsOfSeq DEF Inv, DInv, CheckerOK, Apply
  <2> QED
    BY <2>1, EmptySeq DEF CheckerOK, Apply, Resting
<1>5. DInv'
  BY <1>2, <1>3, <1>4, HeapType DEF Inv, DInv, Apply
<1>6. ASSUME NEW s \in Refs
      PROVE  h[s].Inflight = Cardinality(Holders(s)')
  <2>1. Holders(s)' = Holders(s)
    BY DEF Holders, Apply
  <2>2. h[s].Inflight = states[s].Inflight
    BY DEF Inv, DInv, BackendState
  <2> QED
    BY <2>1, <2>2 DEF Inv, InflightExact
<1> QED
  BY <1>2, <1>5, <1>6, HeapExact DEF Inv, DInv

-----------------------------------------------------------------------------
(* The theorems about the data and the counters *)

LEMMA InitInv == Init => Inv
<1> SUFFICES ASSUME Init
             PROVE  Inv
  OBVIOUS
<1>0. PICK eps \in Configured : \E list \in [1..Len(eps) -> Refs] :
        /\ backends = list
        /\ states = Allocate([r \in Refs |-> Freed], eps, list, DOMAIN eps)
  BY DEF Init
<1>1. PICK list \in [1..Len(eps) -> Refs] :
        /\ backends = list
        /\ states = Allocate([r \in Refs |-> Freed], eps, list, DOMAIN eps)
  BY <1>0
<1>2. eps \in Seq(Endpoint) /\ Len(eps) \in Nat
  BY ListingsAssumption, LenProperties
<1>3. [r \in Refs |-> Freed] \in [Refs -> BackendState]
  BY NewStateType DEF Freed
<1>4. states \in [Refs -> BackendState]
  BY <1>1, <1>2, <1>3, AllocateType
<1>5. CheckerOK
  BY EmptySeq DEF Init, CheckerOK, Resting
<1>6. req \in [Requests -> Request] /\ \A q \in Requests : RequestOK(policy, req[q])
  BY IdleOK DEF Init, RequestOK
<1>7. DInv
  <2>1. backends \in Seq(Refs)
    BY <1>1, <1>2
  <2>2. next \in 0..(NextWrap - 1)
    BY NextWrapAssumption DEF Init
  <2> QED
    BY <1>4, <1>5, <1>6, <2>1, <2>2 DEF DInv, Init
<1>8. ASSUME NEW r \in Refs
      PROVE  states[r].Inflight = Cardinality(Holders(r))
  <2>1. Holders(r) = {}
    BY DEF Init, Idle, Holders
  <2>2. states[r].Inflight = 0
    BY <1>1 DEF Allocate, NewBackendState, Freed
  <2> QED
    BY <2>1, <2>2, FS_EmptySet
<1> QED
  BY <1>7, <1>8 DEF Inv, InflightExact

LEMMA StutterStep ==
  ASSUME Inv, UNCHANGED vars
  PROVE  Inv'
BY DEF vars, Inv, DInv, CheckerOK, InflightExact, Holders

\* Every step of a request, of discovery or of the health checks preserves
\* the invariant.
LEMMA NextInv == Inv /\ [Next]_vars => Inv'
<1> SUFFICES ASSUME Inv, [Next]_vars
             PROVE  Inv'
  OBVIOUS
<1>1. ASSUME NEW q \in Requests, LoadSnapshot(q) \/ Select(q) \/ Release(q)
      PROVE  Inv'
  BY <1>1, LoadSnapshotStep, RejectBodyStep, TakeTurnStep, ScanRoundRobinStep,
     ScanLoadAwareStep, MatchStep, CandidateStep, RejectUnhealthyStep,
     ReserveStep, ReleaseStep DEF Select
<1>2. ASSUME NEW eps \in Listings, UpdateBackends(eps)
      PROVE  Inv'
  BY <1>2, UpdateBackendsStep
<1>3. ASSUME CheckHealth
      PROVE  Inv'
  BY <1>3, StartRoundStep, ProbeStep, ApplyStep DEF CheckHealth
<1> QED
  BY <1>1, <1>2, <1>3, StutterStep DEF Next

\* The conjunction is an invariant of the specification for every value of the
\* constants.
THEOREM InvariantHolds == Spec => []IInv
<1>1. Inv => IInv
  BY Regrouped DEF Inv, IInv
<1> QED
  BY <1>1, InitInv, NextInv, PTL DEF Spec

\* The variables keep the shape the code gives them: in particular every
\* object a list or a request points to stays well formed while others are
\* collected and their addresses used again.
THEOREM TypeCorrect == Spec => []TypeOK
<1>1. IInv => TypeOK
  BY DEF IInv
<1> QED
  BY <1>1, InvariantHolds, PTL

\* Inflight of every object counts the requests that hold it, for any number
\* of requests, however discovery replaces the objects meanwhile.
THEOREM InflightCorrect == Spec => []InflightExact
<1>1. IInv => InflightExact
  BY DEF IInv
<1> QED
  BY <1>1, InvariantHolds, PTL

\* A request chooses from the one snapshot it loaded.
THEOREM SelectionCorrect == Spec => []SelectionFromOwnSnapshot
<1>1. IInv => SelectionFromOwnSnapshot
  BY DEF IInv
<1> QED
  BY <1>1, InvariantHolds, PTL

-----------------------------------------------------------------------------
(* The health of a listed endpoint. The theorem assumes that no listing      *)
(* names an ID twice: run pool_dual_stack shows what happens to the property *)
(* without this.                                                             *)

UniqueIDs ==
  \A eps \in Configured \cup Listings : \A i, j \in DOMAIN eps :
    eps[i].ID = eps[j].ID => i = j

ID(r) == states[r].Endpoint.ID

\* The listed states have distinct IDs, so ByID finds each of them.
UniqueStates ==
  \A i, j \in DOMAIN backends : ID(backends[i]) = ID(backends[j]) => i = j

\* What a step that leaves the snapshot alone does to the listed objects.
LEMMA ListedSurvive ==
  ASSUME Inv, NEW h, Heap(h), UNCHANGED backends
  PROVE  \A r \in Elems(backends) : r \in Refs /\ states'[r] = h[r]
<1>1. Elems(backends) \subseteq Refs
  BY ElemsOfSeq DEF Inv, DInv
<1>2. Elems(backends) \subseteq Live'
  BY <1>1, NoRefAssumption DEF Live, Elems
<1> QED
  BY <1>1, <1>2 DEF Heap

\* The object a listed endpoint keeps is the only listed one with its ID.
LEMMA ExistingIsListed ==
  ASSUME Inv, UniqueStates, NEW e
  PROVE  /\ Existing(e) = StatesOf(e)
         /\ \A r, s \in StatesOf(e) : r = s
<1>1. ASSUME NEW r \in Existing(e)
      PROVE  r \in StatesOf(e)
  BY ByIDInList DEF Existing, StatesOf
<1>2. ASSUME NEW r \in StatesOf(e)
      PROVE  r \in Existing(e)
  <2>1. PICK i \in DOMAIN backends : backends[i] = r
    BY DEF StatesOf, Elems
  <2>2. DOMAIN backends = 1..Len(backends) /\ Len(backends) \in Nat
    BY LenProperties DEF Inv, DInv
  <2>3. \A k \in DOMAIN backends : ID(backends[k]) = e.ID => k <= i
    BY <2>1, <2>2 DEF UniqueStates, ID, StatesOf
  <2>4. r \in ByID(backends, e.ID)
    BY <2>1, <2>3 DEF ByID, ID, StatesOf
  <2> QED
    BY <2>4 DEF Existing, StatesOf
<1>3. \A r, s \in StatesOf(e) : r = s
  BY DEF StatesOf, Elems, UniqueStates, ID
<1> QED
  BY <1>1, <1>2, <1>3

\* After a poll every place of the list holds a state of the endpoint listed
\* there, and the old object wherever there was one.
LEMMA UpdatedList ==
  ASSUME Inv, UniqueStates, NEW eps \in Listings, UpdateBackends(eps)
  PROVE  /\ backends' \in [1..Len(eps) -> Refs] /\ DOMAIN eps = 1..Len(eps)
         /\ \A i \in DOMAIN eps :
              /\ states'[backends'[i]].Endpoint = eps[i]
              /\ StatesOf(eps[i]) # {} =>
                   /\ backends'[i] \in StatesOf(eps[i])
                   /\ states'[backends'[i]] = states[backends'[i]]
<1> DEFINE fresh == {i \in DOMAIN eps : Existing(eps[i]) = {}}
<1>1. DOMAIN eps = 1..Len(eps) /\ Len(eps) \in Nat
  BY ListingsAssumption, LenProperties
<1>2. PICK list \in [1..Len(eps) -> Refs] :
        /\ \A i \in DOMAIN eps \ fresh : list[i] \in Existing(eps[i])
        /\ \A i \in fresh : list[i] \notin Live
        /\ \A i, j \in fresh : i # j => list[i] # list[j]
        /\ backends' = list
        /\ Heap(Allocate(states, eps, list, fresh))
  BY DEF UpdateBackends
<1> DEFINE h == Allocate(states, eps, list, fresh)
<1>3. ASSUME NEW i \in DOMAIN eps
      PROVE  list[i] \in Refs /\ states'[list[i]] = h[list[i]]
  <2>1. list[i] \in Refs
    BY <1>1
  <2>2. list[i] \in Live'
    BY <1>1, <1>2, <2>1, NoRefAssumption DEF Live, Elems
  <2> QED
    BY <1>2, <2>1, <2>2 DEF Heap
<1>4. ASSUME NEW i \in fresh
      PROVE  h[list[i]].Endpoint = eps[i]
  <2>1. \A j \in fresh : list[j] = list[i] => j = i
    BY <1>2
  <2>2. (CHOOSE j \in fresh : list[j] = list[i]) = i
    BY <2>1
  <2>3. list[i] \in Refs
    BY <1>3
  <2> QED
    BY <2>2, <2>3 DEF Allocate, NewBackendState
<1>5. ASSUME NEW i \in DOMAIN eps \ fresh
      PROVE  list[i] \in StatesOf(eps[i]) /\ h[list[i]] = states[list[i]]
  <2>1. list[i] \in StatesOf(eps[i])
    BY <1>2, ExistingIsListed
  <2>2. list[i] \in Live
    BY <1>3, <2>1, NoRefAssumption DEF StatesOf, Live
  <2>3. ~ \E j \in fresh : list[j] = list[i]
    BY <1>2, <2>2
  <2> QED
    BY <1>3, <2>1, <2>3 DEF Allocate
<1> HIDE DEF h
<1>6. ASSUME NEW i \in DOMAIN eps
      PROVE  /\ states'[list[i]].Endpoint = eps[i]
             /\ StatesOf(eps[i]) # {} =>
                  /\ list[i] \in StatesOf(eps[i])
                  /\ states'[list[i]] = states[list[i]]
  <2>1. CASE i \in fresh
    BY <1>3, <1>4, <2>1, ExistingIsListed
  <2>2. CASE i \notin fresh
    BY <1>3, <1>5, <2>2 DEF StatesOf
  <2> QED
    BY <2>1, <2>2
<1> QED
  BY <1>1, <1>2, <1>6

-----------------------------------------------------------------------------
(* What the steps do to the health of an endpoint *)

\* What one step may do to the health of the endpoint e.
LostByFailures(e) ==
  HealthyEndpoint(e) /\ StatesOf(e)' # {} /\ ~HealthyEndpoint(e)'
    => \A r \in StatesOf(e)' : states'[r].Failures = Threshold

\* The health goroutine leaves the endpoints of the objects alone; it clears
\* Healthy only where the failures reached the threshold.
LEMMA ApplyHealth ==
  ASSUME Inv, UniqueStates, Apply
  PROVE  UniqueStates' /\ \A e : LostByFailures(e)
<1>1. PICK r \in Refs : r = Head(checker.todo)
  BY ElemsOfSeq DEF Inv, DInv, CheckerOK, Apply
<1> DEFINE failures == IF checker.ok THEN 0
                       ELSE IF states[r].Failures < Threshold
                            THEN states[r].Failures + 1 ELSE Threshold
           healthy  == IF checker.ok THEN TRUE
                       ELSE states[r].Healthy /\ failures < Threshold
           h == [states EXCEPT ![r].Failures = failures,
                               ![r].Healthy = healthy]
<1>2. Heap(h) /\ UNCHANGED backends
  BY <1>1 DEF Apply
<1>3. /\ states \in [Refs -> BackendState]
      /\ states[r].Failures \in 0..Threshold
      /\ \A s \in Elems(backends) : s \in Refs /\ states'[s] = h[s]
  BY <1>2, ListedSurvive DEF Inv, DInv, BackendState
<1>4. ASSUME NEW s \in Refs
      PROVE  /\ h[s].Endpoint = states[s].Endpoint
             /\ s # r => h[s] = states[s]
             /\ h[r].Healthy = healthy /\ h[r].Failures = failures
  BY <1>3 DEF BackendState
<1>5. states[r].Healthy /\ ~healthy => failures = Threshold
  BY <1>3, ThresholdAssumption
<1> HIDE DEF h, failures, healthy
<1>6. UniqueStates'
  BY <1>2, <1>3, <1>4 DEF UniqueStates, ID, Elems
<1>7. ASSUME NEW e
      PROVE  LostByFailures(e)
  <2>1. StatesOf(e)' = StatesOf(e)
    BY <1>2, <1>3, <1>4 DEF StatesOf, Elems
  <2> SUFFICES ASSUME HealthyEndpoint(e), ~HealthyEndpoint(e)',
                      NEW s \in StatesOf(e)
               PROVE  states'[s].Failures = Threshold
    BY <2>1 DEF LostByFailures
  <2>2. states[s].Healthy /\ ~states'[s].Healthy
    BY <2>1, ExistingIsListed DEF HealthyEndpoint
  <2>3. s \in Refs /\ states'[s] = h[s]
    BY <1>3 DEF StatesOf
  <2>4. s = r
    BY <1>4, <2>2, <2>3
  <2> QED
    BY <1>4, <1>5, <2>2, <2>3, <2>4
<1> QED
  BY <1>6, <1>7

\* An endpoint that is listed again keeps its object; one that had none was
\* not healthy.
LEMMA UpdateHealth ==
  ASSUME Inv, UniqueStates, UniqueIDs, NEW eps \in Listings,
         UpdateBackends(eps)
  PROVE  UniqueStates' /\ \A e : LostByFailures(e)
<1>1. /\ DOMAIN backends' = DOMAIN eps
      /\ \A i \in DOMAIN eps :
           /\ states'[backends'[i]].Endpoint = eps[i]
           /\ StatesOf(eps[i]) # {} =>
                /\ backends'[i] \in StatesOf(eps[i])
                /\ states'[backends'[i]] = states[backends'[i]]
  BY UpdatedList
<1>2. UniqueStates'
  BY <1>1 DEF UniqueStates, UniqueIDs, ID
<1>3. ASSUME NEW e, HealthyEndpoint(e), StatesOf(e)' # {}
      PROVE  HealthyEndpoint(e)'
  <2>1. PICK i \in DOMAIN eps : backends'[i] \in StatesOf(e)'
    BY <1>1, <1>3 DEF StatesOf, Elems
  <2>2. eps[i] = e
    BY <1>1, <2>1 DEF StatesOf
  <2>3. states[backends'[i]].Healthy
    BY <1>1, <1>3, <2>2, ExistingIsListed DEF HealthyEndpoint
  <2> QED
    BY <1>1, <1>3, <2>1, <2>2, <2>3 DEF HealthyEndpoint
<1> QED
  BY <1>2, <1>3 DEF LostByFailures

\* A step that stores no snapshot and writes no listed object's Endpoint or
\* Healthy.
LEMMA QuietHealth ==
  ASSUME Inv, UniqueStates, UNCHANGED backends,
         \A r \in Elems(backends) :
            /\ states'[r].Endpoint = states[r].Endpoint
            /\ states'[r].Healthy = states[r].Healthy
  PROVE  UniqueStates' /\ \A e : LostByFailures(e)
<1>1. UniqueStates'
  BY DEF UniqueStates, ID, Elems
<1>2. ASSUME NEW e
      PROVE  HealthyEndpoint(e) => HealthyEndpoint(e)'
  BY DEF HealthyEndpoint, StatesOf, Elems
<1> QED
  BY <1>1, <1>2 DEF LostByFailures

\* The request steps write nothing but counters.
LEMMA RequestHealth ==
  ASSUME Inv, UniqueStates, NEW q \in Requests,
         LoadSnapshot(q) \/ Select(q) \/ Release(q)
  PROVE  UniqueStates' /\ \A e : LostByFailures(e)
<1>1. UNCHANGED backends
  BY DEF LoadSnapshot, Select, Release, RejectBody, TakeTurn, ScanRoundRobin,
         ScanLoadAware, Match, Candidate, RejectUnhealthy, Reserve
<1>2. \/ UNCHANGED states
      \/ Heap(states)
      \/ Heap([states EXCEPT ![req[q].target].Inflight = @ + 1])
      \/ Heap([states EXCEPT ![req[q].target].Inflight = @ - 1])
  BY DEF LoadSnapshot, Select, Release, RejectBody, TakeTurn, ScanRoundRobin,
         ScanLoadAware, Match, Candidate, RejectUnhealthy, Reserve
<1>3. states \in [Refs -> BackendState]
  BY DEF Inv, DInv
<1>4. ASSUME NEW r \in Elems(backends)
      PROVE  /\ states'[r].Endpoint = states[r].Endpoint
             /\ states'[r].Healthy = states[r].Healthy
  <2>1. CASE UNCHANGED states
    BY <2>1
  <2>2. CASE Heap(states)
    BY <1>1, <2>2, ListedSurvive
  <2>3. CASE Heap([states EXCEPT ![req[q].target].Inflight = @ + 1])
    <3> DEFINE h == [states EXCEPT ![req[q].target].Inflight = @ + 1]
    <3>1. \A s \in Refs : /\ h[s].Endpoint = states[s].Endpoint
                         /\ h[s].Healthy = states[s].Healthy
      BY <1>3 DEF BackendState
    <3> HIDE DEF h
    <3>2. Heap(h)
      BY <2>3 DEF h
    <3> QED
      BY <1>1, <3>1, <3>2, ListedSurvive
  <2>4. CASE Heap([states EXCEPT ![req[q].target].Inflight = @ - 1])
    <3> DEFINE h == [states EXCEPT ![req[q].target].Inflight = @ - 1]
    <3>1. \A s \in Refs : /\ h[s].Endpoint = states[s].Endpoint
                         /\ h[s].Healthy = states[s].Healthy
      BY <1>3 DEF BackendState
    <3> HIDE DEF h
    <3>2. Heap(h)
      BY <2>4 DEF h
    <3> QED
      BY <1>1, <3>1, <3>2, ListedSurvive
  <2> QED
    BY <1>2, <2>1, <2>2, <2>3, <2>4
<1> QED
  BY <1>1, <1>4, QuietHealth

-----------------------------------------------------------------------------
(* The theorem about health *)

LEMMA NextHealth ==
  ASSUME UniqueIDs, Inv, UniqueStates, [Next]_vars
  PROVE  UniqueStates' /\ \A e : LostByFailures(e)
<1>1. CASE UNCHANGED vars
  BY <1>1, QuietHealth DEF vars
<1>2. ASSUME NEW q \in Requests, LoadSnapshot(q) \/ Select(q) \/ Release(q)
      PROVE  UniqueStates' /\ \A e : LostByFailures(e)
  BY <1>2, RequestHealth
<1>3. ASSUME NEW eps \in Listings, UpdateBackends(eps)
      PROVE  UniqueStates' /\ \A e : LostByFailures(e)
  BY <1>3, UpdateHealth
<1>4. CASE StartRound \/ Probe
  BY <1>4, QuietHealth DEF StartRound, Probe
<1>5. CASE Apply
  BY <1>5, ApplyHealth
<1> QED
  BY <1>1, <1>2, <1>3, <1>4, <1>5 DEF Next, CheckHealth

LEMMA InitUnique ==
  ASSUME UniqueIDs, Init
  PROVE  UniqueStates
<1>0. PICK eps \in Configured : \E list \in [1..Len(eps) -> Refs] :
        /\ \A i, j \in DOMAIN eps : i # j => list[i] # list[j]
        /\ backends = list
        /\ states = Allocate([r \in Refs |-> Freed], eps, list, DOMAIN eps)
  BY DEF Init
<1>1. PICK list \in [1..Len(eps) -> Refs] :
        /\ \A i, j \in DOMAIN eps : i # j => list[i] # list[j]
        /\ backends = list
        /\ states = Allocate([r \in Refs |-> Freed], eps, list, DOMAIN eps)
  BY <1>0
<1>2. DOMAIN eps = 1..Len(eps)
  BY ListingsAssumption, LenProperties
<1>3. ASSUME NEW i \in DOMAIN eps
      PROVE  states[list[i]].Endpoint = eps[i]
  <2>1. (CHOOSE j \in DOMAIN eps : list[j] = list[i]) = i
    BY <1>1
  <2>2. list[i] \in Refs
    BY <1>2
  <2> QED
    BY <1>1, <2>1, <2>2 DEF Allocate, NewBackendState
<1> QED
  BY <1>1, <1>2, <1>3 DEF UniqueStates, UniqueIDs, ID

\* If no listing names an ID twice, an endpoint that stays listed turns
\* unhealthy only by failed checks in a row, whatever discovery does.
THEOREM HealthKept ==
  ASSUME UniqueIDs
  PROVE  Spec => HealthLostOnlyByFailures
<1>1. Init => UniqueStates
  BY InitUnique
<1>2. Inv /\ UniqueStates /\ [Next]_vars => UniqueStates'
  BY NextHealth
<1>3. Inv /\ UniqueStates /\ [Next]_vars =>
        [\A e \in Endpoint :
           HealthyEndpoint(e) /\ StatesOf(e)' # {} /\ ~HealthyEndpoint(e)'
             => \A r \in StatesOf(e)' : states'[r].Failures = Threshold]_vars
  BY NextHealth DEF LostByFailures
<1> QED
  BY <1>1, <1>2, <1>3, InitInv, NextInv, PTL
     DEF Spec, HealthLostOnlyByFailures

-----------------------------------------------------------------------------
(* The selection and the backends that were selectable all the time *)

\* A rotation visits every element of the list: the i-th one comes when the
\* turn is i - start modulo the length.
LEMMA RotateVisitsAll ==
  ASSUME NEW S, NEW list \in Seq(S), list # <<>>, NEW start \in Nat
  PROVE  Elems(list) \subseteq Elems(Rotate(list, start))
<1> DEFINE n == Len(list)
<1>1. n \in Nat \ {0} /\ DOMAIN list = 1..n
  BY EmptySeq, LenProperties
<1>2. DOMAIN Rotate(list, start) = 1..n
  BY DEF Rotate
<1> HIDE DEF n
<1>3. ASSUME NEW k \in 1..n
      PROVE  \E i \in 1..n : ((start + i - 1) % n) + 1 = k
  BY <1>1, TurnComes
<1>4. ASSUME NEW k \in 1..n
      PROVE  \E i \in 1..n : Rotate(list, start)[i] = list[k]
  <2>1. PICK i \in 1..n : ((start + i - 1) % n) + 1 = k
    BY <1>3
  <2>2. Rotate(list, start)[i] = list[((start + i - 1) % n) + 1]
    BY DEF Rotate, n
  <2> QED
    BY <2>1, <2>2
<1> QED
  BY <1>1, <1>2, <1>4 DEF Elems

\* Every element of a non-empty list is its head or one of its tail.
LEMMA HeadOrTail ==
  ASSUME NEW S, NEW s \in Seq(S), s # <<>>, NEW r \in Elems(s)
  PROVE  /\ r = Head(s) \/ r \in Elems(Tail(s))
         /\ Len(s) = 1 => r = Head(s)
<1>1. PICK i \in 1..Len(s) : r = s[i]
  BY LenProperties DEF Elems
<1>2. Len(s) \in Nat \ {0} /\ Head(s) = s[1]
  BY EmptySeq, LenProperties
<1>3. CASE i = 1
  BY <1>1, <1>2, <1>3
<1>4. CASE i # 1
  <2>1. PICK j \in 1..(Len(s) - 1) : i = j + 1
    BY <1>1, <1>2, <1>4
  <2>2. /\ Tail(s) \in Seq(S) /\ Len(Tail(s)) = Len(s) - 1
        /\ \A k \in 1..Len(Tail(s)) : Tail(s)[k] = s[k + 1]
    BY HeadTailProperties
  <2>3. DOMAIN Tail(s) = 1..(Len(s) - 1)
    BY <2>2, LenProperties
  <2>4. r = Tail(s)[j] /\ j \in DOMAIN Tail(s)
    BY <1>1, <2>1, <2>2, <2>3
  <2>5. r \in Elems(Tail(s))
    BY <2>4 DEF Elems
  <2>6. Len(s) # 1
    BY <1>1, <1>4
  <2> QED
    BY <2>5, <2>6
<1> QED
  BY <1>3, <1>4

\* What a request l knows of the set w of states that were selectable since
\* it loaded its snapshot: they are all still to be read, unless it has found
\* a target.
Kept(l, w) ==
  /\ w \subseteq Elems(l.snap)
  /\ l.pc = "scan" =>
       w \subseteq Elems(l.todo) \/ (policy = "cache_aware" /\ l.target # NoRef)
  /\ l.pc = "match" => w = {} \/ l.target # NoRef

Attentive ==
  \A q \in Requests : InSelection(q) =>
    /\ \A r \in steady[q] : states[r].Healthy
    /\ Kept(req[q], steady[q])

\* Where the history variable goes when the requests do this.
LEMMA SteadyStep ==
  ASSUME HNext, NEW q \in Requests, InSelection(q)'
  PROVE  /\ \A r \in steady'[q] : states'[r].Healthy
         /\ InSelection(q) => steady'[q] \subseteq steady[q]
         /\ ~InSelection(q) => steady'[q] \subseteq Elems(req'[q].snap)
BY DEF HNext

\* Kept is lost by no state that leaves w.
LEMMA KeptShrinks ==
  ASSUME NEW l, NEW w, Kept(l, w), NEW v, v \subseteq w
  PROVE  Kept(l, v)
BY DEF Kept

\* One step of a request in selection: it stays in the selection with no
\* steady state lost, reserves a target, or ends with none to lose.
LEMMA SelectKeeps ==
  ASSUME Inv, NEW q \in Requests, InSelection(q), Select(q), NEW w,
         Kept(req[q], w), \A r \in w : states[r].Healthy
  PROVE  /\ policy' = policy
         /\ InSelection(q)' => Kept(req'[q], w)
         /\ Refused(q) => w = {}
         /\ \A p \in Requests \ {q} : req'[p] = req[p]
<1>1. /\ req \in [Requests -> Request]
      /\ req[q].snap \in Seq(Refs) /\ req[q].todo \in Seq(Refs)
      /\ RequestOK(policy, req[q])
      /\ req[q].pc \in {"idle", "loaded", "scan", "match", "forward"}
  BY DEF Inv, DInv, Request
<1>2. policy' = policy
  BY DEF Select, RejectBody, TakeTurn, ScanRoundRobin, ScanLoadAware, Match,
         Candidate, RejectUnhealthy, Reserve
<1>3. \A p \in Requests \ {q} : req'[p] = req[p]
  BY <1>1 DEF Select, RejectBody, TakeTurn, ScanRoundRobin, ScanLoadAware,
         Match, Candidate, RejectUnhealthy, Reserve, Goto
<1>4. \A l : Goto(q, l) => req'[q] = l
  BY <1>1 DEF Goto
<1> SUFFICES /\ InSelection(q)' => Kept(req'[q], w)
             /\ Refused(q) => w = {}
  BY <1>2, <1>3
<1>5. CASE RejectBody(q)
  BY <1>4, <1>5 DEF RejectBody, Idle, InSelection, Refused
<1>6. CASE TakeTurn(q)
  <2>1. next \in Nat /\ req[q].snap # <<>>
    BY <1>1, <1>6, NextWrapAssumption DEF Inv, DInv, TakeTurn, RequestOK
  <2>2. Elems(req[q].snap) \subseteq Elems(Rotate(req[q].snap, next))
    BY <1>1, <2>1, RotateVisitsAll
  <2>3. req'[q] = [req[q] EXCEPT !.pc = "scan",
                                 !.todo = Rotate(req[q].snap, next)]
    BY <1>4, <1>6 DEF TakeTurn
  <2>4. /\ req'[q].pc = "scan" /\ req'[q].snap = req[q].snap
        /\ req'[q].todo = Rotate(req[q].snap, next)
    BY <1>1, <2>3 DEF Request
  <2> QED
    BY <1>2, <2>2, <2>4 DEF Kept, Refused
<1>7. CASE ScanRoundRobin(q)
  <2> DEFINE todo == req[q].todo
  <2>1. /\ req[q].pc = "scan" /\ todo # <<>> /\ w \subseteq Elems(todo)
        /\ Head(todo) \in Refs /\ w \subseteq Elems(req[q].snap)
    BY <1>1, <1>7, ElemsOfSeq DEF ScanRoundRobin, RequestOK, Kept
  <2>2. \A r \in w : /\ r = Head(todo) \/ r \in Elems(Tail(todo))
                     /\ Len(todo) = 1 => r = Head(todo)
    BY <1>1, <2>1, HeadOrTail
  <2>3. CASE isSelectable(Head(todo))
    <3>1. req'[q] = [req[q] EXCEPT !.pc = "match", !.todo = <<>>,
                                   !.target = Head(todo)]
      BY <1>4, <1>7, <2>3 DEF ScanRoundRobin
    <3>2. /\ req'[q].pc = "match" /\ req'[q].snap = req[q].snap
          /\ req'[q].target = Head(todo)
      BY <1>1, <3>1 DEF Request
    <3> QED
      BY <2>1, <3>2, NoRefAssumption DEF Kept, Refused
  <2>4. CASE ~isSelectable(Head(todo)) /\ Len(todo) = 1
    <3>1. w = {}
      BY <2>2, <2>4 DEF isSelectable
    <3>2. req'[q] = Idle
      BY <1>4, <1>7, <2>4 DEF ScanRoundRobin
    <3> QED
      BY <3>1, <3>2 DEF Idle, InSelection
  <2>5. CASE ~isSelectable(Head(todo)) /\ Len(todo) # 1
    <3>1. w \subseteq Elems(Tail(todo))
      BY <2>2, <2>5 DEF isSelectable
    <3>2. req'[q] = [req[q] EXCEPT !.todo = Tail(@)]
      BY <1>4, <1>7, <2>5 DEF ScanRoundRobin
    <3>3. /\ req'[q].pc = "scan" /\ req'[q].snap = req[q].snap
          /\ req'[q].todo = Tail(todo)
      BY <1>1, <2>1, <3>2 DEF Request
    <3> QED
      BY <2>1, <3>1, <3>3 DEF Kept, Refused
  <2> QED
    BY <2>3, <2>4, <2>5
<1>8. CASE ScanLoadAware(q)
  <2> DEFINE todo == req[q].todo
  <2>1. PICK keep \in BOOLEAN :
          /\ keep => req[q].target # NoRef
          /\ Goto(q, [req[q] EXCEPT
                        !.todo = Tail(@),
                        !.target = IF isSelectable(Head(todo)) /\ ~keep
                                   THEN Head(todo) ELSE @])
    BY <1>8 DEF ScanLoadAware
  <2>2. req'[q] = [req[q] EXCEPT
                     !.todo = Tail(@),
                     !.target = IF isSelectable(Head(todo)) /\ ~keep
                                THEN Head(todo) ELSE @]
    BY <1>4, <2>1
  <2>3. /\ req'[q].pc = "scan" /\ req'[q].snap = req[q].snap
        /\ req'[q].todo = Tail(todo)
        /\ req'[q].target = IF isSelectable(Head(todo)) /\ ~keep
                            THEN Head(todo) ELSE req[q].target
    BY <1>1, <1>8, <2>2 DEF Request, ScanLoadAware
  <2>4. /\ policy = "cache_aware" /\ todo # <<>> /\ req[q].pc = "scan"
        /\ Head(todo) \in Refs /\ Head(todo) # NoRef
    BY <1>1, <1>8, ElemsOfSeq, NoRefAssumption DEF ScanLoadAware
  <2>5. CASE req'[q].target # NoRef
    BY <1>2, <2>3, <2>4, <2>5 DEF Kept, Refused
  <2>6. CASE req'[q].target = NoRef
    <3>1. req[q].target = NoRef /\ ~isSelectable(Head(todo))
      BY <2>1, <2>3, <2>4, <2>6
    <3>2. w \subseteq Elems(todo)
      BY <2>4, <3>1 DEF Kept
    <3>3. \A r \in w : r \in Elems(Tail(todo))
      BY <1>1, <2>4, <3>1, <3>2, HeadOrTail DEF isSelectable
    <3> QED
      BY <2>3, <3>3 DEF Kept, Refused
  <2> QED
    BY <2>5, <2>6
<1>9. CASE Match(q)
  <2>1. PICK cands \in SUBSET IDs :
          req'[q] = [req[q] EXCEPT !.pc = "match", !.cands = cands]
    BY <1>4, <1>9 DEF Match
  <2>2. /\ req'[q].pc = "match" /\ req'[q].snap = req[q].snap
        /\ req'[q].target = req[q].target
    BY <1>1, <2>1 DEF Request
  <2>3. w = {} \/ req[q].target # NoRef
    BY <1>9 DEF Match, Kept, Elems
  <2> QED
    BY <2>2, <2>3 DEF Kept, Refused
<1>10. CASE Candidate(q)
  <2>1. PICK id \in req[q].cands, keep \in BOOLEAN :
          LET seen == {r \in ByID(req[q].snap, id) : isSelectable(r)}
          IN  /\ keep => seen = {} \/ req[q].target # NoRef
              /\ ~keep => seen # {}
              /\ \E r \in IF keep THEN {req[q].target} ELSE seen :
                   Goto(q, [req[q] EXCEPT !.cands = @ \ {id}, !.target = r])
    BY <1>10 DEF Candidate
  <2>2. PICK r : /\ r = req[q].target \/ r \in Elems(req[q].snap)
                 /\ Goto(q, [req[q] EXCEPT !.cands = @ \ {id}, !.target = r])
    BY <2>1, ByIDInList
  <2>3. req'[q] = [req[q] EXCEPT !.cands = @ \ {id}, !.target = r]
    BY <1>4, <2>2
  <2>4. /\ req'[q].pc = "match" /\ req'[q].snap = req[q].snap
        /\ req'[q].target = r
    BY <1>1, <1>10, <2>3 DEF Request, Candidate
  <2>5. w = {} \/ r # NoRef
    BY <1>1, <1>10, <2>2, ElemsOfSeq, NoRefAssumption DEF Kept, Candidate
  <2> QED
    BY <2>4, <2>5 DEF Kept, Refused
<1>11. CASE RejectUnhealthy(q)
  <2>1. req'[q] = Idle /\ w = {}
    BY <1>4, <1>11 DEF RejectUnhealthy, Kept
  <2> QED
    BY <2>1 DEF Idle, InSelection
<1>12. CASE Reserve(q)
  <2>1. req'[q] = [Idle EXCEPT !.pc = "forward", !.target = req[q].target]
    BY <1>4, <1>12 DEF Reserve
  <2>2. req'[q].pc = "forward"
    BY <2>1 DEF Idle
  <2> QED
    BY <2>2 DEF InSelection, Refused
<1> QED
  BY <1>2, <1>3, <1>5, <1>6, <1>7, <1>8, <1>9, <1>10, <1>11, <1>12 DEF Select

\* What every step does to one request: nothing, a step of the selection, or
\* a step that enters or leaves the selection without a refusal.
LEMMA RequestMoves ==
  ASSUME Inv, Attentive, Next, NEW q \in Requests
  PROVE  /\ policy' = policy
         /\ InSelection(q) =>
              /\ InSelection(q)' => Kept(req'[q], steady[q])
              /\ Refused(q) => steady[q] = {}
         /\ ~InSelection(q) =>
              /\ InSelection(q)' => req'[q].pc = "loaded"
              /\ ~Refused(q)
<1> DEFINE Moves ==
      /\ policy' = policy
      /\ InSelection(q) =>
           /\ InSelection(q)' => Kept(req'[q], steady[q])
           /\ Refused(q) => steady[q] = {}
      /\ ~InSelection(q) =>
           /\ InSelection(q)' => req'[q].pc = "loaded"
           /\ ~Refused(q)
<1>1. ASSUME policy' = policy, req'[q] = req[q]
      PROVE  Moves
  BY <1>1 DEF Attentive, Kept, InSelection, Refused
<1> HIDE DEF Moves
<1>2. ASSUME NEW p \in Requests, LoadSnapshot(p)
      PROVE  Moves
  <2>1. CASE p = q
    <3>1. req'[q] = [Idle EXCEPT !.pc = "loaded", !.snap = backends]
      BY <1>2, <2>1 DEF LoadSnapshot, Goto, Inv, DInv
    <3>2. req'[q].pc = "loaded" /\ req[q].pc = "idle" /\ policy' = policy
      BY <1>2, <2>1, <3>1 DEF LoadSnapshot, Idle
    <3> QED
      BY <3>2 DEF Moves, InSelection, Refused
  <2>2. CASE p # q
    BY <1>1, <1>2, <2>2 DEF LoadSnapshot, Goto, Inv, DInv
  <2> QED
    BY <2>1, <2>2
<1>3. ASSUME NEW p \in Requests, Release(p)
      PROVE  Moves
  <2>1. CASE p = q
    <3>1. req'[q] = Idle /\ req[q].pc = "forward" /\ policy' = policy
      BY <1>3, <2>1 DEF Release, Goto, Inv, DInv
    <3> QED
      BY <3>1 DEF Moves, InSelection, Refused, Idle
  <2>2. CASE p # q
    BY <1>1, <1>3, <2>2 DEF Release, Goto, Inv, DInv
  <2> QED
    BY <2>1, <2>2
<1>4. ASSUME NEW p \in Requests, Select(p)
      PROVE  Moves
  <2>1. InSelection(p)
    BY <1>4 DEF Select, RejectBody, TakeTurn, ScanRoundRobin, ScanLoadAware,
                Match, Candidate, RejectUnhealthy, Reserve, InSelection
  <2>2. Kept(req[p], steady[p]) /\ \A r \in steady[p] : states[r].Healthy
    BY <2>1 DEF Attentive
  <2>3. /\ policy' = policy
        /\ InSelection(p)' => Kept(req'[p], steady[p])
        /\ Refused(p) => steady[p] = {}
        /\ \A o \in Requests \ {p} : req'[o] = req[o]
    BY <1>4, <2>1, <2>2, SelectKeeps
  <2>4. CASE p = q
    BY <2>1, <2>3, <2>4 DEF Moves
  <2>5. CASE p # q
    BY <1>1, <2>3, <2>5
  <2> QED
    BY <2>4, <2>5
<1>5. ASSUME NEW eps \in Listings, UpdateBackends(eps)
      PROVE  Moves
  BY <1>1, <1>5 DEF UpdateBackends
<1>6. ASSUME CheckHealth
      PROVE  Moves
  BY <1>1, <1>6 DEF CheckHealth, StartRound, Probe, Apply
<1>7. Moves
  <2>1. CASE \E p \in Requests : LoadSnapshot(p) \/ Select(p) \/ Release(p)
    BY <1>2, <1>3, <1>4, <2>1
  <2> QED
    BY <1>5, <1>6, <2>1 DEF Next
<1> QED
  BY <1>7 DEF Moves

LEMMA AttentiveStep ==
  ASSUME Inv, Attentive, HNext
  PROVE  Attentive' /\ \A q \in Requests : Refused(q) => steady[q] = {}
<1> SUFFICES ASSUME NEW q \in Requests
             PROVE  /\ InSelection(q)' =>
                         /\ \A r \in steady'[q] : states'[r].Healthy
                         /\ Kept(req[q], steady[q])'
                    /\ Refused(q) => steady[q] = {}
  BY DEF Attentive
<1>1. /\ policy' = policy
      /\ InSelection(q) =>
           /\ InSelection(q)' => Kept(req'[q], steady[q])
           /\ Refused(q) => steady[q] = {}
      /\ ~InSelection(q) =>
           /\ InSelection(q)' => req'[q].pc = "loaded"
           /\ ~Refused(q)
  BY RequestMoves DEF HNext
<1>2. ASSUME InSelection(q)'
      PROVE  Kept(req'[q], steady'[q])
  <2>1. CASE InSelection(q)
    BY <1>1, <1>2, <2>1, SteadyStep, KeptShrinks
  <2>2. CASE ~InSelection(q)
    BY <1>1, <1>2, <2>2, SteadyStep DEF Kept
  <2> QED
    BY <2>1, <2>2
<1>3. Kept(req'[q], steady'[q]) => Kept(req[q], steady[q])'
  BY <1>1 DEF Kept
<1> QED
  BY <1>1, <1>2, <1>3, SteadyStep

\* A request is told that no backend is healthy only if none was during the
\* whole of its selection, for any number of requests and backends, in any
\* turn order, under both policies and whatever discovery and the health
\* goroutine do meanwhile.
THEOREM RefusalJustified == HSpec => RefusedOnlyWithoutSteadyBackend
<1>1. HInit => Inv /\ Attentive
  <2>1. HInit => \A q \in Requests : ~InSelection(q)
    BY DEF HInit, Init, InSelection, Idle
  <2> QED
    BY <2>1, InitInv DEF HInit, Attentive
<1>2. Inv /\ [HNext]_hvars => Inv'
  BY NextInv DEF HNext, hvars
<1>3. Inv /\ Attentive /\ [HNext]_hvars => Attentive'
  <2>1. CASE HNext
    BY <2>1, AttentiveStep
  <2>2. CASE UNCHANGED hvars
    BY <2>2 DEF hvars, vars, Attentive, InSelection, Kept
  <2> QED
    BY <2>1, <2>2
<1>4. Inv /\ Attentive /\ [HNext]_hvars =>
        [\A q \in Requests : Refused(q) => steady[q] = {}]_hvars
  BY AttentiveStep
<1> QED
  BY <1>1, <1>2, <1>3, <1>4, PTL DEF HSpec, RefusedOnlyWithoutSteadyBackend
=============================================================================
