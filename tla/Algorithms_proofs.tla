------------------------- MODULE Algorithms_proofs -------------------------
(***************************************************************************)
(* Proofs about the functions without shared state, for inputs of any      *)
(* length and any values that InputsAssumption allows: what their folds    *)
(* compute, step by step, and from it the properties of Algorithms.        *)
(***************************************************************************)
EXTENDS Algorithms, Induction, SequenceTheorems, FunctionTheorems, TLAPS

-----------------------------------------------------------------------------
(* The inputs *)

Setting == {{}} \cup {{n} : n \in Quantities}

Slice == [Ports : PortLists, Endpoints : Seq(Endpoint)]

InputTyped ==
  /\ probed \in Seq(Behaviour)
  /\ fleet \in Seq(State)
  /\ slices \in Seq(Slice)
  /\ messages \in Seq(Contents)
  /\ raw \in Seq(Tokens)
  /\ settings \in Seq(Setting)
  /\ calls \in Seq(Call)

\* An input of one kind grows by elements of that kind.
LEMMA AddTyped ==
  ASSUME NEW k, NEW S, NEW max, NEW x \in S, Add(k, max, x), Given(k) \in Seq(S)
  PROVE  kind' = k /\ input' \in Seq(S)
<1>1. kind' = k /\ input \in Seq(S) /\ input' = Append(input, x)
  BY DEF Add, Given
<1> QED
  BY <1>1, AppendProperties

\* Inputs stay what the functions are called with.
LEMMA InputCorrect == Spec => []InputTyped
<1> USE DEF probed, fleet, slices, messages, raw, settings, calls
<1>1. Init => InputTyped
  <2>1. \A S : <<>> \in Seq(S)
    BY EmptySeq
  <2> QED
    BY <2>1 DEF Init, InputTyped, Given
<1>2. ASSUME InputTyped, [Next]_vars
      PROVE  InputTyped'
  <2> USE <1>2 DEF InputTyped
  <2>e. \A S : <<>> \in Seq(S)
    BY EmptySeq
  <2>1. CASE UNCHANGED vars
    BY <2>1 DEF vars, Given
  <2>2. CASE \E b \in Behaviour : Add("probed", MaxLength, b)
    BY <2>2, <2>e, AddTyped DEF Given
  <2>3. CASE \E s \in State : Add("fleet", MaxLength, s)
    BY <2>3, <2>e, AddTyped DEF Given
  <2>4. CASE \E ports \in PortLists :
               Add("slices", MaxSlices, [Ports |-> ports, Endpoints |-> <<>>])
    <3>1. PICK ports \in PortLists :
            Add("slices", MaxSlices, [Ports |-> ports, Endpoints |-> <<>>])
      BY <2>4
    <3>2. [Ports |-> ports, Endpoints |-> <<>>] \in Slice
      BY <2>e DEF Slice
    <3> QED
      BY <2>e, <3>1, <3>2, AddTyped DEF Given
  <2>5. CASE \E ep \in Endpoint : AddEndpoint(ep)
    <3>1. PICK ep \in Endpoint : AddEndpoint(ep)
      BY <2>5
    <3>2. slices # <<>> /\ kind = "slices" /\ kind' = "slices" /\ input = slices
      BY <3>1 DEF AddEndpoint, Given
    <3>3. input' = [slices EXCEPT ![Len(slices)].Endpoints = Append(@, ep)]
      BY <3>1 DEF AddEndpoint
    <3>4. input' \in Seq(Slice)
      <4>1. PICK n \in Nat : slices \in [1..n -> Slice] /\ n = Len(slices)
        BY LenProperties
      <4>2. n \in 1..n
        BY <3>2, <4>1, EmptySeq, LenProperties
      <4>3. Append(slices[n].Endpoints, ep) \in Seq(Endpoint)
        BY <4>1, <4>2, AppendProperties DEF Slice
      <4>4. input' \in [1..n -> Slice]
        BY <3>3, <4>1, <4>2, <4>3 DEF Slice
      <4> QED
        BY <4>4, IsASeq
    <3> QED
      BY <2>e, <3>2, <3>4 DEF Given
  <2>6. CASE \E m \in Contents : Add("messages", MaxLength, m)
    BY <2>6, <2>e, AddTyped DEF Given
  <2>7. CASE \E t \in Tokens : Add("raw", MaxTokens, t)
    BY <2>7, <2>e, AddTyped DEF Given
  <2>8. CASE \E v \in {{}} \cup {{n} : n \in Quantities} :
               Add("settings", Len(Names), v)
    <3>1. PICK v \in Setting : Add("settings", Len(Names), v)
      BY <2>8 DEF Setting
    <3> QED
      BY <2>e, <3>1, AddTyped DEF Given
  <2>9. CASE \E c \in Call : Add("calls", MaxLength, c)
    BY <2>9, <2>e, AddTyped DEF Given
  <2> QED
    BY <1>2, <2>1, <2>2, <2>3, <2>4, <2>5, <2>6, <2>7, <2>8, <2>9 DEF Next
<1> QED
  BY <1>1, <1>2, PTL DEF Spec

-----------------------------------------------------------------------------
(* Settings *)

\* Whatever the environment says, a process that serves has usable settings
\* (Algorithms.ServesWithUsableSettings): router.New corrects two of them and
\* NewTicker refuses the others.
LEMMA UsableSettings == InputTyped => ServesWithUsableSettings
<1>1. SUFFICES ASSUME InputTyped,
                      NEW service \in BOOLEAN, NEW inCluster \in BOOLEAN,
                      Outcome(New(FromEnv(env)), service, inCluster) = "serving"
               PROVE  LET cfg == New(FromEnv(env))
                      IN  /\ cfg.HealthCheckInterval > 0 /\ cfg.HealthTimeout > 0
                          /\ cfg.HealthFailureThreshold > 0
                          /\ service => cfg.DiscoveryInterval > 0
  BY DEF ServesWithUsableSettings
<1>2. \A n \in Range(Names) : env[n] \in Setting
  <2>1. \A i \in DOMAIN settings : settings[i] \in Setting
    BY <1>1, ElementOfSeq, LenProperties DEF InputTyped
  <2>2. {} \in Setting
    BY DEF Setting
  <2> QED
    BY <2>1, <2>2 DEF env
<1>3. /\ env.HEALTH_CHECK_INTERVAL \in Setting
      /\ env.BACKEND_HEALTH_TIMEOUT \in Setting
      /\ env.BACKEND_HEALTH_FAILURE_THRESHOLD \in Setting
      /\ env.DISCOVERY_INTERVAL \in Setting
  <2>1. DOMAIN Names = 1..4
    BY DEF Names
  <2>2. {Names[1], Names[2], Names[3], Names[4]} \subseteq Range(Names)
    BY <2>1 DEF Range
  <2> QED
    BY <1>2, <2>2 DEF Names
<1>4. \A v \in Setting :
        getenvDuration(v, Some) \in Int /\ getenvUint64(v, Some) \in Nat
  <2>1. \A n : (CHOOSE m \in {n} : TRUE) = n
    OBVIOUS
  <2>2. getenvDuration({}, Some) = 1 /\ getenvUint64({}, Some) = 1
    BY DEF getenvDuration, getenvUint64, Some
  <2>3. \A n \in Int : getenvDuration({n}, Some) = n
    BY <2>1 DEF getenvDuration
  <2>4. \A n \in Nat : getenvUint64({n}, Some) = n
    BY <2>1 DEF getenvUint64
  <2>5. \A n \in Int : n < 0 => getenvUint64({n}, Some) = 1
    BY DEF getenvUint64, Some
  <2>6. Quantities \subseteq Int
    BY InputsAssumption
  <2>7. ASSUME NEW v \in Setting
        PROVE  getenvDuration(v, Some) \in Int /\ getenvUint64(v, Some) \in Nat
    <3>1. CASE v = {}
      BY <2>2, <3>1
    <3>2. CASE v # {}
      <4>1. PICK n \in Int : v = {n}
        BY <2>6, <3>2 DEF Setting
      <4> QED
        BY <2>3, <2>4, <2>5, <4>1
    <3> QED
      BY <3>1, <3>2
  <2> QED
    BY <2>7
<1>5. PICK cfg : cfg = New(FromEnv(env))
  OBVIOUS
<1>6. /\ cfg.HealthCheckInterval \in Int /\ cfg.DiscoveryInterval \in Int
      /\ cfg.HealthTimeout > 0 /\ cfg.HealthFailureThreshold > 0
  BY <1>3, <1>4, <1>5
  DEF New, FromEnv, normalizedDuration, normalizedUint64, Some
<1>7. ~(service /\ cfg.DiscoveryInterval <= 0) /\ ~(cfg.HealthCheckInterval <= 0)
  BY <1>1, <1>5 DEF Outcome
<1> QED
  BY <1>5, <1>6, <1>7

\* A process that gets as far as serving has positive intervals, timeouts and
\* thresholds, whatever the environment says (ServesWithUsableSettings): what
\* HealthTiming assumes of its constants.
THEOREM SettingsUsable == Spec => []ServesWithUsableSettings
  BY InputCorrect, UsableSettings, PTL

-----------------------------------------------------------------------------
(* Readiness *)

Walk == [ready : BOOLEAN, left : 0..Budget]

Start == [ready |-> FALSE, left |-> Budget]

\* The walk over a list, backend by backend.
LEMMA ReadyWalk ==
  ASSUME NEW list \in Seq(Behaviour),
         NEW n \in Nat, n = Len(list)
  PROVE  \E f \in [0..n -> Walk] :
           /\ f[0] = Start /\ Ready(list) = f[n].ready
           /\ \A k \in 0..(n - 1) : f[k + 1] = Ask(f[k], list[k + 1])
<1> DEFINE g    == [p \in Walk \X (1..n) |-> Ask(p[1], list[p[2]])]
           iter == CHOOSE iter : iter =
                     [s \in SUBSET DOMAIN list |->
                        IF s = {} THEN Start
                        ELSE LET x == Max(s)
                             IN  Ask(iter[s \ {x}], list[x])]
<1>1. DOMAIN list = 1..n /\ \A i \in 1..n : list[i] \in Behaviour
  BY LenProperties, ElementOfSeq
<1>2. Ready(list) = iter[1..n].ready
  BY <1>1 DEF Ready, Start, FoldLeft, MapThenFoldSet
<1>3. Start \in Walk
  BY BudgetAssumption DEF Start, Walk
<1>4. ASSUME NEW v \in Walk, NEW i \in 1..n
      PROVE  Ask(v, list[i]) \in Walk
  BY <1>1, BudgetAssumption DEF Ask, Walk, Behaviour
<1>5. g \in [Walk \X (1..n) -> Walk]
  BY <1>4
<1>6. \A v \in Walk, i \in 1..n : g[<<v, i>>] = Ask(v, list[i])
  OBVIOUS
<1> HIDE DEF g
<1>7. Foldable(Walk, n, Start, g)
  BY <1>3, <1>5 DEF Foldable
<1>8. PICK h : Solution(Walk, n, Start, g, h)
  BY <1>7, SolutionExists
<1>9. h = [s \in SUBSET DOMAIN list |->
             IF s = {} THEN Start
             ELSE LET x == Max(s) IN Ask(h[s \ {x}], list[x])]
  <2>1. \A s \in SUBSET (1..n) : s # {} =>
          g[<<h[s \ {Max(s)}], Max(s)>>] = Ask(h[s \ {Max(s)}], list[Max(s)])
    BY <1>6, <1>8, MaxOfRange DEF Solution
  <2> QED
    BY <1>1, <1>8, <2>1 DEF FoldRound, Solution
<1>10. iter = [s \in SUBSET DOMAIN list |->
                 IF s = {} THEN Start
                 ELSE LET x == Max(s) IN Ask(iter[s \ {x}], list[x])]
  BY <1>9
<1> HIDE DEF iter
<1>11. Satisfies(Walk, n, Start, g, iter)
  <2>1. iter[{}] = Start
    BY <1>10
  <2>2. ASSUME NEW s \in SUBSET (1..n), s # {}, iter[s \ {Max(s)}] \in Walk
        PROVE  iter[s] = g[<<iter[s \ {Max(s)}], Max(s)>>]
    <3>1. Max(s) \in 1..n
      BY <2>2, MaxOfRange
    <3>2. iter[s] = Ask(iter[s \ {Max(s)}], list[Max(s)])
      BY <1>1, <1>10, <2>2
    <3> QED
      BY <1>6, <2>2, <3>1, <3>2
  <2> QED
    BY <2>1, <2>2 DEF Satisfies
<1>12. PICK f : Folded(Walk, n, Start, g, f) /\ f[n] = iter[1..n]
  BY <1>7, <1>11, FoldedExists
<1>13. \A k \in 0..(n - 1) : f[k + 1] = Ask(f[k], list[k + 1])
  <2>1. SUFFICES ASSUME NEW k \in 0..(n - 1)
                 PROVE  f[k + 1] = Ask(f[k], list[k + 1])
    OBVIOUS
  <2>2. f[k] \in Walk /\ k + 1 \in 1..n /\ f[k + 1] = g[<<f[k], k + 1>>]
    BY <1>12, SMTT(30) DEF Folded
  <2> QED
    BY <1>6, <2>2
<1> QED
  BY <1>2, <1>12, <1>13 DEF Folded

\* The sum of the delays of a list.
LEMMA DelaySum ==
  ASSUME NEW list \in Seq(Behaviour),
         NEW n \in Nat, n = Len(list)
  PROVE  \E f \in [0..n -> Nat] :
           /\ f[0] = 0 /\ FoldLeft(LAMBDA t, b : t + b.delay, 0, list) = f[n]
           /\ \A k \in 0..(n - 1) : f[k + 1] = f[k] + list[k + 1].delay
<1> DEFINE g    == [p \in Nat \X (1..n) |-> p[1] + list[p[2]].delay]
           iter == CHOOSE iter : iter =
                     [s \in SUBSET DOMAIN list |->
                        IF s = {} THEN 0
                        ELSE LET x == Max(s)
                             IN  iter[s \ {x}] + list[x].delay]
<1>1. DOMAIN list = 1..n /\ \A i \in 1..n : list[i] \in Behaviour
  BY LenProperties, ElementOfSeq
<1>2. FoldLeft(LAMBDA t, b : t + b.delay, 0, list) = iter[1..n]
  BY <1>1 DEF FoldLeft, MapThenFoldSet
<1>3. 0 \in Nat
  OBVIOUS
<1>4. ASSUME NEW v \in Nat, NEW i \in 1..n
      PROVE  v + list[i].delay \in Nat
  BY <1>1, BudgetAssumption DEF Behaviour
<1>5. g \in [Nat \X (1..n) -> Nat]
  BY <1>4
<1>6. \A v \in Nat, i \in 1..n : g[<<v, i>>] = v + list[i].delay
  OBVIOUS
<1> HIDE DEF g
<1>7. Foldable(Nat, n, 0, g)
  BY <1>3, <1>5 DEF Foldable
<1>8. PICK h : Solution(Nat, n, 0, g, h)
  BY <1>7, SolutionExists
<1>9. h = [s \in SUBSET DOMAIN list |->
             IF s = {} THEN 0
             ELSE LET x == Max(s) IN h[s \ {x}] + list[x].delay]
  <2>1. \A s \in SUBSET (1..n) : s # {} =>
          g[<<h[s \ {Max(s)}], Max(s)>>] = h[s \ {Max(s)}] + list[Max(s)].delay
    BY <1>6, <1>8, MaxOfRange DEF Solution
  <2> QED
    BY <1>1, <1>8, <2>1 DEF FoldRound, Solution
<1>10. iter = [s \in SUBSET DOMAIN list |->
                 IF s = {} THEN 0
                 ELSE LET x == Max(s) IN iter[s \ {x}] + list[x].delay]
  BY <1>9
<1> HIDE DEF iter
<1>11. Satisfies(Nat, n, 0, g, iter)
  <2>1. iter[{}] = 0
    BY <1>10
  <2>2. ASSUME NEW s \in SUBSET (1..n), s # {}, iter[s \ {Max(s)}] \in Nat
        PROVE  iter[s] = g[<<iter[s \ {Max(s)}], Max(s)>>]
    <3>1. Max(s) \in 1..n
      BY <2>2, MaxOfRange
    <3>2. iter[s] = iter[s \ {Max(s)}] + list[Max(s)].delay
      BY <1>1, <1>10, <2>2
    <3> QED
      BY <1>6, <2>2, <3>1, <3>2
  <2> QED
    BY <2>1, <2>2 DEF Satisfies
<1>12. PICK f : Folded(Nat, n, 0, g, f) /\ f[n] = iter[1..n]
  BY <1>7, <1>11, FoldedExists
<1>13. \A k \in 0..(n - 1) : f[k + 1] = f[k] + list[k + 1].delay
  <2>1. SUFFICES ASSUME NEW k \in 0..(n - 1)
                 PROVE  f[k + 1] = f[k] + list[k + 1].delay
    OBVIOUS
  <2>2. f[k] \in Nat /\ k + 1 \in 1..n /\ f[k + 1] = g[<<f[k], k + 1>>]
    BY <1>12, SMTT(30) DEF Folded
  <2> QED
    BY <1>6, <2>2
<1> QED
  BY <1>2, <1>12, <1>13 DEF Folded

\* The times until the backends have been asked are the prefixes of one sum.
LEMMA AskedBySum ==
  ASSUME InputTyped, NEW n \in Nat, n = Len(probed)
  PROVE  \E T \in [0..n -> Nat] :
           /\ T[0] = 0
           /\ \A k \in 0..(n - 1) : T[k + 1] = T[k] + probed[k + 1].delay
           /\ \A i \in 1..n : AskedBy(i) = T[i]
<1>1. probed \in Seq(Behaviour)
  BY DEF InputTyped
<1>2. PICK T \in [0..n -> Nat] :
        /\ T[0] = 0
        /\ \A k \in 0..(n - 1) : T[k + 1] = T[k] + probed[k + 1].delay
  BY <1>1, DelaySum
<1>3. ASSUME NEW i \in 1..n
      PROVE  AskedBy(i) = T[i]
  <2>1. PICK first : first = SubSeq(probed, 1, i)
    OBVIOUS
  <2>2. /\ i \in Nat /\ first \in Seq(Behaviour) /\ Len(first) = i
        /\ \A k \in 1..i : first[k] = probed[k]
    BY <1>1, <2>1, SubSeqProperties
  <2>3. PICK f \in [0..i -> Nat] :
          /\ f[0] = 0 /\ FoldLeft(LAMBDA t, b : t + b.delay, 0, first) = f[i]
          /\ \A k \in 0..(i - 1) : f[k + 1] = f[k] + first[k + 1].delay
    BY <2>2, DelaySum
  <2> DEFINE S == {k \in Nat : k <= i => f[k] = T[k]}
  <2>4. 0 \in S
    BY <1>2, <2>3
  <2>5. ASSUME NEW k \in Nat, k \in S
        PROVE  k + 1 \in S
    <3>1. SUFFICES ASSUME k + 1 <= i
                   PROVE  f[k + 1] = T[k + 1]
      OBVIOUS
    <3>2. k \in 0..(i - 1) /\ k \in 0..(n - 1) /\ k + 1 \in 1..i
      BY <3>1
    <3>3. f[k] = T[k] /\ first[k + 1] = probed[k + 1]
      BY <2>2, <2>5, <3>2
    <3> QED
      BY <1>2, <2>3, <3>2, <3>3
  <2>6. i \in S
    <3> HIDE DEF S
    <3> QED
      BY <2>2, <2>4, <2>5, SetInduction
  <2>7. f[i] = T[i]
    BY <2>6
  <2> QED
    BY <2>1, <2>3, <2>7 DEF AskedBy
<1> QED
  BY <1>2, <1>3

\* The walk has been answered if a backend so far answered in time, and else
\* the time that is left is the budget without the delays so far.
LEMMA ReadyWithinBudget == InputTyped => ReadyExactly
<1> SUFFICES ASSUME InputTyped
             PROVE  ReadyExactly
  OBVIOUS
<1>1. PICK n \in Nat : n = Len(probed)
  BY LenProperties DEF InputTyped
<1>2. DOMAIN probed = 1..n /\ \A i \in 1..n : probed[i] \in Behaviour
  BY <1>1, LenProperties, ElementOfSeq DEF InputTyped
<1>3. PICK T \in [0..n -> Nat] :
        /\ T[0] = 0
        /\ \A k \in 0..(n - 1) : T[k + 1] = T[k] + probed[k + 1].delay
        /\ \A i \in 1..n : AskedBy(i) = T[i]
  BY <1>1, AskedBySum
<1>4. PICK w \in [0..n -> Walk] :
        /\ w[0] = Start /\ Ready(probed) = w[n].ready
        /\ \A k \in 0..(n - 1) : w[k + 1] = Ask(w[k], probed[k + 1])
  BY <1>1, ReadyWalk DEF InputTyped
<1> DEFINE Answered(k) == \E i \in 1..k : probed[i].ok /\ T[i] < Budget
           Left(k)     == IF T[k] < Budget THEN Budget - T[k] ELSE 0
           S == {k \in Nat : k <= n =>
                   /\ w[k].ready <=> Answered(k)
                   /\ ~w[k].ready => w[k].left = Left(k)}
<1>5. 0 \in S
  <2>1. ~Answered(0)
    OBVIOUS
  <2>2. ~w[0].ready /\ w[0].left = Left(0)
    BY <1>3, <1>4, BudgetAssumption DEF Start
  <2> QED
    BY <2>1, <2>2
<1>6. ASSUME NEW k \in Nat, k \in S
      PROVE  k + 1 \in S
  <2>1. SUFFICES ASSUME k + 1 <= n
                 PROVE  /\ w[k + 1].ready <=> Answered(k + 1)
                        /\ ~w[k + 1].ready => w[k + 1].left = Left(k + 1)
    OBVIOUS
  <2>2. k \in 0..(n - 1) /\ k \in 0..n /\ k + 1 \in 0..n /\ k + 1 \in 1..n
    BY <2>1
  <2>3. PICK b \in Behaviour : b = probed[k + 1]
    BY <1>2, <2>2
  <2>4. T[k] \in Nat /\ T[k + 1] = T[k] + b.delay /\ b.delay \in Nat
    BY <1>3, <2>2, <2>3, BudgetAssumption DEF Behaviour
  <2>5. w[k] \in Walk /\ w[k + 1] = Ask(w[k], b)
    BY <1>4, <2>2, <2>3
  <2>6. /\ w[k].ready <=> Answered(k)
        /\ ~w[k].ready => w[k].left = Left(k)
    BY <1>6, <2>1
  <2>7. Answered(k + 1) <=> Answered(k) \/ (b.ok /\ T[k + 1] < Budget)
    <3>1. 1..(k + 1) = (1..k) \cup {k + 1}
      OBVIOUS
    <3> QED
      BY <2>3, <3>1
  <2> HIDE DEF Answered
  <2>8. CASE w[k].ready
    <3>1. w[k + 1] = w[k]
      BY <2>5, <2>8 DEF Ask
    <3> QED
      BY <2>6, <2>7, <2>8, <3>1
  <2>9. CASE ~w[k].ready
    <3>1. /\ w[k + 1].ready <=> b.ok /\ b.delay < w[k].left
          /\ w[k + 1].left = IF b.delay < w[k].left
                             THEN w[k].left - b.delay ELSE 0
      <4>1. PICK r : r = (b.ok /\ b.delay < w[k].left)
        OBVIOUS
      <4>2. PICK l : l = IF b.delay < w[k].left THEN w[k].left - b.delay ELSE 0
        OBVIOUS
      <4>3. w[k + 1] = [ready |-> r, left |-> l]
        BY <2>5, <2>9, <4>1, <4>2 DEF Ask
      <4>4. w[k + 1].ready = r /\ w[k + 1].left = l
        BY <4>3
      <4> QED
        BY <4>1, <4>2, <4>4
    <3>2. w[k].left = Left(k)
      BY <2>6, <2>9
    <3>3. b.delay < w[k].left <=> T[k + 1] < Budget
      BY <2>4, <3>2, BudgetAssumption
    <3>4. w[k + 1].left = Left(k + 1)
      BY <2>4, <3>1, <3>2, <3>3, BudgetAssumption
    <3> QED
      BY <2>6, <2>7, <2>9, <3>1, <3>3, <3>4
  <2> QED
    BY <2>8, <2>9
<1>7. n \in S
  <2> HIDE DEF S
  <2> QED
    BY <1>5, <1>6, SetInduction
<1>8. Ready(probed) <=> Answered(n)
  BY <1>4, <1>7
<1> QED
  BY <1>2, <1>3, <1>8 DEF ReadyExactly

\* GET /readyz says ready exactly if some backend answers below 300 within the
\* budget that it shares with those asked before it (ReadyExactly), for any
\* number of backends and any budget.
THEOREM ReadinessExact == Spec => []ReadyExactly
  BY InputCorrect, ReadyWithinBudget, PTL

-----------------------------------------------------------------------------
(* Selection *)

Best(n) == [at : 0..n, score : Int]

Nil == [at |-> 0, score |-> 0]

LEMMA ScoreType ==
  ASSUME NEW s \in State, NEW w \in Nat
  PROVE  scoreBackend(s, w) \in Int
  BY LoadsAssumption DEF State, scoreBackend, PREFIX_MATCH_WEIGHT,
     INFLIGHT_WEIGHT, LATENCY_WEIGHT, ERROR_WEIGHT

LEMMA ConsiderType ==
  ASSUME NEW list \in Seq(State), NEW n \in Nat, n = Len(list),
         NEW best \in Best(n), NEW i \in 1..n, NEW w \in Nat
  PROVE  Consider(list, best, i, w) \in Best(n)
<1>1. scoreBackend(list[i], w) \in Int
  BY ScoreType, ElementOfSeq
<1> QED
  BY <1>1 DEF Consider, Best

\* A turn is a place of the list.
LEMMA TurnsType ==
  ASSUME NEW list \in Seq(State), NEW start \in Nat, NEW n \in Nat, n = Len(list)
  PROVE  /\ DOMAIN Turns(list, start) = 1..n
         /\ \A k \in 1..n : /\ Turns(list, start)[k] = ((start + k - 1) % n) + 1
                            /\ Turns(list, start)[k] \in 1..n
<1>1. DOMAIN list = 1..n
  BY LenProperties
<1>2. \A k \in 1..n : ((start + k - 1) % n) + 1 \in 1..n
  OBVIOUS
<1> QED
  BY <1>1, <1>2 DEF Turns

\* The state with an ID, if there is one.
LEMMA ByIDType ==
  ASSUME NEW list \in Seq(State), NEW n \in Nat, n = Len(list), NEW id
  PROVE  ByID(list, id) \in 0..n
<1>1. PICK S : S = {i \in DOMAIN list : list[i].ID = id}
  OBVIOUS
<1>2. PICK T : T = {0} \cup S
  OBVIOUS
<1>3. S \in SUBSET (1..n) /\ T \in SUBSET (0..n) /\ ByID(list, id) = Max(T)
  BY <1>1, <1>2, LenProperties DEF ByID
<1>4. \E x \in T : \A y \in T : x >= y
  <2>1. CASE S = {}
    BY <1>2, <2>1
  <2>2. CASE S # {}
    <3>1. PICK m \in S : \A y \in S : m >= y
      BY <1>3, <2>2, MaxOfRange
    <3>2. m \in T /\ m >= 0
      BY <1>2, <1>3
    <3> QED
      BY <1>2, <3>1, <3>2
  <2> QED
    BY <2>1, <2>2
<1>5. Max(T) \in T
  BY <1>4 DEF Max
<1> QED
  BY <1>3, <1>5

\* The scan of the list, turn by turn: f[k] after k turns.
FallbackSteps(list, start, n, f) ==
  /\ f \in [0..n -> Best(n)]
  /\ f[0] = Nil
  /\ loadAwareFallback(list, start) = f[n]
  /\ \A k \in 0..(n - 1) :
       f[k + 1] = Consider(list, f[k], Turns(list, start)[k + 1], 0)

LEMMA FallbackWalk ==
  ASSUME NEW list \in Seq(State), NEW start \in Nat, NEW n \in Nat, n = Len(list)
  PROVE  \E f : FallbackSteps(list, start, n, f)
<1> DEFINE g    == [p \in Best(n) \X (1..n) |->
                     Consider(list, p[1], Turns(list, start)[p[2]], 0)]
           iter == CHOOSE iter : iter =
                     [s \in SUBSET DOMAIN Turns(list, start) |->
                        IF s = {} THEN Nil
                        ELSE LET x == Max(s)
                             IN  Consider(list, iter[s \ {x}], Turns(list, start)[x], 0)]
<1>1. /\ DOMAIN Turns(list, start) = 1..n
      /\ \A k \in 1..n : Turns(list, start)[k] \in 1..n
  BY TurnsType
<1>2. loadAwareFallback(list, start) = iter[1..n]
  BY <1>1 DEF loadAwareFallback, Nil, FoldLeft, MapThenFoldSet
<1>3. Nil \in Best(n)
  BY DEF Nil, Best
<1>4. ASSUME NEW v \in Best(n), NEW i \in 1..n
      PROVE  Consider(list, v, Turns(list, start)[i], 0) \in Best(n)
  BY <1>1, ConsiderType
<1>5. g \in [Best(n) \X (1..n) -> Best(n)]
  BY <1>4
<1>6. \A v \in Best(n), i \in 1..n : g[<<v, i>>]
          = Consider(list, v, Turns(list, start)[i], 0)
  OBVIOUS
<1> HIDE DEF g
<1>7. Foldable(Best(n), n, Nil, g)
  BY <1>3, <1>5 DEF Foldable
<1>8. PICK h : Solution(Best(n), n, Nil, g, h)
  BY <1>7, SolutionExists
<1>9. h = [s \in SUBSET DOMAIN Turns(list, start) |->
             IF s = {} THEN Nil
             ELSE LET x == Max(s) IN Consider(list, h[s \ {x}], Turns(list, start)[x], 0)]
  <2>1. \A s \in SUBSET (1..n) : s # {} =>
          g[<<h[s \ {Max(s)}], Max(s)>>]
              = Consider(list, h[s \ {Max(s)}], Turns(list, start)[Max(s)], 0)
    BY <1>6, <1>8, MaxOfRange DEF Solution
  <2> QED
    BY <1>1, <1>8, <2>1 DEF FoldRound, Solution
<1>10. iter = [s \in SUBSET DOMAIN Turns(list, start) |->
                 IF s = {} THEN Nil
                 ELSE LET x == Max(s) IN Consider(list, iter[s \ {x}], Turns(list, start)[x], 0)]
  BY <1>9
<1> HIDE DEF iter
<1>11. Satisfies(Best(n), n, Nil, g, iter)
  <2>1. iter[{}] = Nil
    BY <1>10
  <2>2. ASSUME NEW s \in SUBSET (1..n), s # {}, iter[s \ {Max(s)}] \in Best(n)
        PROVE  iter[s] = g[<<iter[s \ {Max(s)}], Max(s)>>]
    <3>1. Max(s) \in 1..n
      BY <2>2, MaxOfRange
    <3>2. iter[s] = Consider(list, iter[s \ {Max(s)}], Turns(list, start)[Max(s)], 0)
      BY <1>1, <1>10, <2>2
    <3> QED
      BY <1>6, <2>2, <3>1, <3>2
  <2> QED
    BY <2>1, <2>2 DEF Satisfies
<1>12. PICK f : Folded(Best(n), n, Nil, g, f) /\ f[n] = iter[1..n]
  BY <1>7, <1>11, FoldedExists
<1>13. \A k \in 0..(n - 1) : f[k + 1]
           = Consider(list, f[k], Turns(list, start)[k + 1], 0)
  <2>1. SUFFICES ASSUME NEW k \in 0..(n - 1)
                 PROVE  f[k + 1]
                          = Consider(list, f[k], Turns(list, start)[k + 1], 0)
    OBVIOUS
  <2>2. f[k] \in Best(n) /\ k + 1 \in 1..n /\ f[k + 1] = g[<<f[k], k + 1>>]
    BY <1>12, SMTT(30) DEF Folded
  <2> QED
    BY <1>6, <2>2
<1> QED
  BY <1>2, <1>12, <1>13 DEF Folded, FallbackSteps

\* What the second pass does with a candidate.
Try(list, warmth, best, id) ==
  IF ByID(list, id) = 0 THEN best
  ELSE Consider(list, best, ByID(list, id), warmth[id])

LEMMA TryType ==
  ASSUME NEW list \in Seq(State), NEW n \in Nat, n = Len(list),
         NEW best \in Best(n), NEW warmth, NEW id, warmth[id] \in Nat
  PROVE  Try(list, warmth, best, id) \in Best(n)
<1>1. ByID(list, id) \in 0..n
  BY ByIDType
<1>2. CASE ByID(list, id) = 0
  BY <1>2 DEF Try
<1>3. CASE ByID(list, id) # 0
  <2>1. ByID(list, id) \in 1..n
    BY <1>1, <1>3
  <2>2. Consider(list, best, ByID(list, id), warmth[id]) \in Best(n)
    BY <2>1, ConsiderType
  <2> QED
    BY <1>3, <2>2 DEF Try
<1> QED
  BY <1>2, <1>3

\* The pass over the candidates, one by one: f[k] after k of them.
CandidateSteps(list, start, warmth, order, n, f) ==
  /\ f \in [0..n -> Best(Len(list))]
  /\ f[0] = loadAwareFallback(list, start)
  /\ cacheAwareSelect(list, start, warmth, order) = f[n].at
  /\ \A k \in 0..(n - 1) : f[k + 1] = Try(list, warmth, f[k], order[k + 1])

LEMMA CandidateWalk ==
  ASSUME NEW list \in Seq(State), NEW start \in Nat, NEW warmth, NEW n \in Nat,
         NEW order, DOMAIN order = 1..n, \A k \in 1..n : warmth[order[k]] \in Nat
  PROVE  \E f : CandidateSteps(list, start, warmth, order, n, f)
<1> DEFINE g    == [p \in Best(Len(list)) \X (1..n) |->
                     Try(list, warmth, p[1], order[p[2]])]
           iter == CHOOSE iter : iter =
                     [s \in SUBSET DOMAIN order |->
                        IF s = {} THEN loadAwareFallback(list, start)
                        ELSE LET x == Max(s)
                             IN  Try(list, warmth, iter[s \ {x}], order[x])]
<1>1. DOMAIN order = 1..n /\ \A k \in 1..n : warmth[order[k]] \in Nat
  OBVIOUS
<1>2. cacheAwareSelect(list, start, warmth, order) = iter[1..n].at
  BY <1>1 DEF cacheAwareSelect, Try, FoldLeft, MapThenFoldSet
<1>3. loadAwareFallback(list, start) \in Best(Len(list))
  <2>1. PICK m \in Nat : m = Len(list)
    BY LenProperties
  <2>2. PICK f : FallbackSteps(list, start, m, f)
    BY <2>1, FallbackWalk
  <2> QED
    BY <2>1, <2>2 DEF FallbackSteps
<1>4. ASSUME NEW v \in Best(Len(list)), NEW i \in 1..n
      PROVE  Try(list, warmth, v, order[i]) \in Best(Len(list))
  BY <1>1, TryType, LenProperties
<1>5. g \in [Best(Len(list)) \X (1..n) -> Best(Len(list))]
  BY <1>4
<1>6. \A v \in Best(Len(list)), i \in 1..n : g[<<v, i>>]
          = Try(list, warmth, v, order[i])
  OBVIOUS
<1> HIDE DEF g
<1>7. Foldable(Best(Len(list)), n, loadAwareFallback(list, start), g)
  BY <1>3, <1>5 DEF Foldable
<1>8. PICK h : Solution(Best(Len(list)), n, loadAwareFallback(list, start), g, h)
  BY <1>7, SolutionExists
<1>9. h = [s \in SUBSET DOMAIN order |->
             IF s = {} THEN loadAwareFallback(list, start)
             ELSE LET x == Max(s) IN Try(list, warmth, h[s \ {x}], order[x])]
  <2>1. \A s \in SUBSET (1..n) : s # {} =>
          g[<<h[s \ {Max(s)}], Max(s)>>]
              = Try(list, warmth, h[s \ {Max(s)}], order[Max(s)])
    BY <1>6, <1>8, MaxOfRange DEF Solution
  <2> QED
    BY <1>1, <1>8, <2>1 DEF FoldRound, Solution
<1>10. iter = [s \in SUBSET DOMAIN order |->
                 IF s = {} THEN loadAwareFallback(list, start)
                 ELSE LET x == Max(s) IN Try(list, warmth, iter[s \ {x}], order[x])]
  BY <1>9
<1> HIDE DEF iter
<1>11. Satisfies(Best(Len(list)), n, loadAwareFallback(list, start), g, iter)
  <2>1. iter[{}] = loadAwareFallback(list, start)
    BY <1>10
  <2>2. ASSUME NEW s \in SUBSET (1..n), s # {}, iter[s \ {Max(s)}] \in Best(Len(list))
        PROVE  iter[s] = g[<<iter[s \ {Max(s)}], Max(s)>>]
    <3>1. Max(s) \in 1..n
      BY <2>2, MaxOfRange
    <3>2. iter[s] = Try(list, warmth, iter[s \ {Max(s)}], order[Max(s)])
      BY <1>1, <1>10, <2>2
    <3> QED
      BY <1>6, <2>2, <3>1, <3>2
  <2> QED
    BY <2>1, <2>2 DEF Satisfies
<1>12. PICK f : /\ Folded(Best(Len(list)), n, loadAwareFallback(list, start), g, f)
                /\ f[n] = iter[1..n]
  BY <1>7, <1>11, FoldedExists
<1>13. \A k \in 0..(n - 1) : f[k + 1] = Try(list, warmth, f[k], order[k + 1])
  <2>1. SUFFICES ASSUME NEW k \in 0..(n - 1)
                 PROVE  f[k + 1] = Try(list, warmth, f[k], order[k + 1])
    OBVIOUS
  <2>2. f[k] \in Best(Len(list)) /\ k + 1 \in 1..n /\ f[k + 1] = g[<<f[k], k + 1>>]
    BY <1>12, SMTT(30) DEF Folded
  <2> QED
    BY <1>6, <2>2
<1> QED
  BY <1>2, <1>12, <1>13 DEF Folded, CandidateSteps

\* best is a state of O, a set of places with the warmth they are offered at,
\* with the highest score in O, or nil if O is empty.
BestOf(list, best, O) ==
  /\ best.at = 0 <=> O = {}
  /\ best.at # 0 => \E o \in O :
       o[1] = best.at /\ best.score = scoreBackend(list[o[1]], o[2])
  /\ \A o \in O : best.score >= scoreBackend(list[o[1]], o[2])

\* What a state offers: nothing if it is not selectable.
Offer(list, i, w) == IF list[i].Healthy THEN {<<i, w>>} ELSE {}

LEMMA ConsiderKeepsBest ==
  ASSUME NEW list \in Seq(State), NEW n \in Nat, n = Len(list),
         NEW best \in Best(n), NEW i \in 1..n, NEW w \in Nat,
         NEW O \in SUBSET ((1..n) \X Nat), BestOf(list, best, O)
  PROVE  BestOf(list, Consider(list, best, i, w), O \cup Offer(list, i, w))
<1>1. PICK score \in Int : score = scoreBackend(list[i], w)
  BY ScoreType, ElementOfSeq
<1>2. list[i].Healthy \in BOOLEAN
  <2>1. list[i] \in State
    BY ElementOfSeq
  <2> QED
    BY <2>1 DEF State
<1>3. best.score \in Int /\ best.at \in 0..n
  BY DEF Best
<1>4. CASE ~list[i].Healthy
  BY <1>4 DEF Consider, Offer
<1>5. CASE list[i].Healthy /\ (best.at = 0 \/ score > best.score)
  <2>1. Consider(list, best, i, w) = [at |-> i, score |-> score]
    BY <1>1, <1>5 DEF Consider
  <2>2. \A o \in O : score >= scoreBackend(list[o[1]], o[2])
    <3>1. SUFFICES ASSUME NEW o \in O
                   PROVE  score >= scoreBackend(list[o[1]], o[2])
      OBVIOUS
    <3>2. scoreBackend(list[o[1]], o[2]) \in Int
      BY ScoreType, ElementOfSeq
    <3>3. best.score >= scoreBackend(list[o[1]], o[2]) /\ best.at # 0
      BY DEF BestOf
    <3> QED
      BY <1>3, <1>5, <3>2, <3>3
  <2>3. Offer(list, i, w) = {<<i, w>>}
    BY <1>5 DEF Offer
  <2>4. PICK p : p = <<i, w>>
    OBVIOUS
  <2>5. p[1] = i /\ p[2] = w
    BY <2>4
  <2>6. PICK b : b = [at |-> i, score |-> score]
    OBVIOUS
  <2>7. b.at = i /\ b.score = score /\ i # 0
    BY <2>6
  <2>8. BestOf(list, b, O \cup {p})
    <3>1. \A o \in O \cup {p} : b.score >= scoreBackend(list[o[1]], o[2])
      BY <1>1, <2>2, <2>5, <2>7
    <3> QED
      BY <1>1, <2>5, <2>7, <3>1 DEF BestOf
  <2> QED
    BY <2>1, <2>3, <2>4, <2>6, <2>8
<1>6. CASE list[i].Healthy /\ best.at # 0 /\ ~(score > best.score)
  <2>1. Consider(list, best, i, w) = best
    BY <1>1, <1>6 DEF Consider
  <2>2. Offer(list, i, w) = {<<i, w>>} /\ best.score >= score
    BY <1>1, <1>3, <1>6 DEF Offer
  <2>3. PICK p : p = <<i, w>>
    OBVIOUS
  <2>4. BestOf(list, best, O \cup {p})
    <3>1. p[1] = i /\ p[2] = w
      BY <2>3
    <3>2. \A o \in O \cup {p} : best.score >= scoreBackend(list[o[1]], o[2])
      BY <1>1, <2>2, <3>1 DEF BestOf
    <3> QED
      BY <1>6, <3>2 DEF BestOf
  <2> QED
    BY <2>1, <2>2, <2>3, <2>4
<1> QED
  BY <1>2, <1>4, <1>5, <1>6

\* The places that are offered cold.
Cold(list) == {<<i, 0>> : i \in {j \in DOMAIN list : list[j].Healthy}}

LEMMA FallbackIsBest ==
  ASSUME NEW list \in Seq(State), NEW start \in Nat
  PROVE  BestOf(list, loadAwareFallback(list, start), Cold(list))
<1>1. PICK n \in Nat : n = Len(list)
  BY LenProperties
<1>2. PICK f : FallbackSteps(list, start, n, f)
  BY <1>1, FallbackWalk
<1> DEFINE Seen(k) == UNION {Offer(list, Turns(list, start)[j], 0) : j \in 1..k}
           S       == {k \in Nat : k <= n => BestOf(list, f[k], Seen(k))}
<1>3. 0 \in S
  <2>1. Seen(0) = {}
    OBVIOUS
  <2>2. BestOf(list, f[0], {})
    BY <1>2 DEF FallbackSteps, BestOf, Nil
  <2> QED
    BY <2>1, <2>2
<1>4. ASSUME NEW k \in Nat, k \in S
      PROVE  k + 1 \in S
  <2>1. SUFFICES ASSUME k + 1 <= n
                 PROVE  BestOf(list, f[k + 1], Seen(k + 1))
    OBVIOUS
  <2>2. k \in 0..(n - 1) /\ k \in 0..n /\ k + 1 \in 1..n /\ k <= n
    BY <2>1
  <2>3. PICK i \in 1..n : i = Turns(list, start)[k + 1]
    BY <1>1, <2>2, TurnsType
  <2>4. Seen(k + 1) = Seen(k) \cup Offer(list, i, 0)
    <3>1. 1..(k + 1) = (1..k) \cup {k + 1}
      OBVIOUS
    <3> QED
      BY <2>3, <3>1
  <2>5. Seen(k) \in SUBSET ((1..n) \X Nat)
    <3>1. \A j \in 1..n : Turns(list, start)[j] \in 1..n
      BY <1>1, TurnsType
    <3>2. \A j \in 1..k : j \in 1..n
      BY <2>2
    <3> QED
      BY <3>1, <3>2, SMTT(30) DEF Offer
  <2>6. BestOf(list, f[k], Seen(k))
    BY <1>4, <2>2
  <2>7. f[k] \in Best(n) /\ f[k + 1] = Consider(list, f[k], i, 0)
    BY <1>2, <2>2, <2>3 DEF FallbackSteps
  <2> HIDE DEF Seen
  <2> QED
    BY <1>1, <2>4, <2>5, <2>6, <2>7, ConsiderKeepsBest
<1>5. n \in S
  <2> HIDE DEF S
  <2> QED
    BY <1>3, <1>4, SetInduction
<1>6. Seen(n) = Cold(list)
  <2>1. DOMAIN list = 1..n
    BY <1>1, LenProperties
  <2>2. \A j \in 1..n : /\ Turns(list, start)[j] \in 1..n
                       /\ Turns(list, start)[j] = ((start + j - 1) % n) + 1
    BY <1>1, TurnsType
  <2>3. \A i \in 1..n : \E j \in 1..n : Turns(list, start)[j] = i
    <3>1. SUFFICES ASSUME NEW i \in 1..n
                   PROVE  \E j \in 1..n : Turns(list, start)[j] = i
      OBVIOUS
    <3>2. PICK j \in 1..n : ((start + j - 1) % n) + 1 = i
      <4>1. n \in Nat \ {0}
        OBVIOUS
      <4> QED
        BY <4>1, TurnComes
    <3> QED
      BY <2>2, <3>2
  <2>4. ASSUME NEW o \in Seen(n)
        PROVE  o \in Cold(list)
    <3>1. PICK j \in 1..n : o \in Offer(list, Turns(list, start)[j], 0)
      OBVIOUS
    <3>2. PICK i \in 1..n : i = Turns(list, start)[j]
      BY <2>2
    <3> QED
      BY <2>1, <3>1, <3>2 DEF Cold, Offer
  <2>5. ASSUME NEW o \in Cold(list)
        PROVE  o \in Seen(n)
    <3>1. PICK i \in 1..n : list[i].Healthy /\ o = <<i, 0>>
      BY <2>1 DEF Cold
    <3>2. PICK j \in 1..n : Turns(list, start)[j] = i
      BY <2>3
    <3>3. o \in Offer(list, Turns(list, start)[j], 0)
      BY <3>1, <3>2 DEF Offer
    <3> QED
      BY <3>3
  <2> HIDE DEF Seen
  <2> QED
    BY <2>4, <2>5
<1> QED
  BY <1>2, <1>5, <1>6 DEF FallbackSteps

\* An order of a finite set has each of its elements.
LEMMA OrderOnto ==
  ASSUME NEW S, IsFiniteSet(S), NEW order \in SetToSeqs(S)
  PROVE  \E m \in Nat : /\ order \in [1..m -> S]
                        /\ \A x \in S : \E k \in 1..m : order[k] = x
<1>1. PICK m \in Nat : m = Cardinality(S)
  BY FS_CardinalityType
<1>2. order \in [1..m -> S] /\ \A i, j \in 1..m : i # j => order[i] # order[j]
  BY <1>1 DEF SetToSeqs
<1>3. order \in Injection(1..m, S)
  BY <1>2 DEF Injection, IsInjective
<1>4. Cardinality(1..m) = m
  <2>1. Cardinality(1..m) = IF 1 > m THEN 0 ELSE m - 1 + 1
    BY FS_Interval
  <2>2. (IF 1 > m THEN 0 ELSE m - 1 + 1) = m
    OBVIOUS
  <2> QED
    BY <2>1, <2>2
<1>5. order \in Surjection(1..m, S)
  BY <1>1, <1>3, <1>4, FS_Injection
<1> QED
  BY <1>2, <1>5 DEF Surjection

\* The places that are offered cold or with the warmth of a candidate.
Offered(list, warmth, named) ==
  Cold(list) \cup {<<ByID(list, id), warmth[id]>> :
                    id \in {n \in named : /\ ByID(list, n) # 0
                                          /\ list[ByID(list, n)].Healthy}}

\* Whatever the order of the candidates, the choice is the best of them and
\* of the cold places.
LEMMA ChoiceIsBest ==
  ASSUME NEW list \in Seq(State), NEW start \in Nat, NEW named,
         IsFiniteSet(named), NEW order \in SetToSeqs(named),
         NEW warmth, \A id \in named : warmth[id] \in Nat
  PROVE  \E best : /\ cacheAwareSelect(list, start, warmth, order) = best.at
                   /\ BestOf(list, best, Offered(list, warmth, named))
<1>1. PICK m \in Nat : /\ order \in [1..m -> named]
                       /\ \A x \in named : \E k \in 1..m : order[k] = x
  BY OrderOnto
<1>2. PICK n \in Nat : n = Len(list)
  BY LenProperties
<1>3. PICK f \in [0..m -> Best(n)] :
        /\ f[0] = loadAwareFallback(list, start)
        /\ cacheAwareSelect(list, start, warmth, order) = f[m].at
        /\ \A k \in 0..(m - 1) : f[k + 1] = Try(list, warmth, f[k], order[k + 1])
  <2>1. DOMAIN order = 1..m /\ \A k \in 1..m : warmth[order[k]] \in Nat
    BY <1>1
  <2>2. \E f : CandidateSteps(list, start, warmth, order, m, f)
    BY <2>1, CandidateWalk
  <2> QED
    BY <1>2, <2>2 DEF CandidateSteps
<1> DEFINE Warm(k) == {<<ByID(list, id), warmth[id]>> :
                         id \in {x \in {order[j] : j \in 1..k} :
                                   /\ ByID(list, x) # 0
                                   /\ list[ByID(list, x)].Healthy}}
           S == {k \in Nat : k <= m => BestOf(list, f[k], Cold(list) \cup Warm(k))}
<1>4. 0 \in S
  <2>1. Cold(list) \cup Warm(0) = Cold(list)
    OBVIOUS
  <2>2. BestOf(list, f[0], Cold(list))
    BY <1>3, FallbackIsBest
  <2> QED
    BY <2>1, <2>2
<1>5. ASSUME NEW k \in Nat, k \in S
      PROVE  k + 1 \in S
  <2>1. SUFFICES ASSUME k + 1 <= m
                 PROVE  BestOf(list, f[k + 1], Cold(list) \cup Warm(k + 1))
    OBVIOUS
  <2>2. k \in 0..(m - 1) /\ k \in 0..m /\ k + 1 \in 1..m /\ k <= m
    BY <2>1
  <2>3. PICK id \in named : id = order[k + 1]
    BY <1>1, <2>2
  <2>4. 1..(k + 1) = (1..k) \cup {k + 1}
    OBVIOUS
  <2>5. f[k] \in Best(n) /\ f[k + 1] = Try(list, warmth, f[k], id)
    BY <1>3, <2>2, <2>3
  <2>6. BestOf(list, f[k], Cold(list) \cup Warm(k))
    BY <1>5, <2>2
  <2>7. ByID(list, id) \in 0..n
    BY <1>2, ByIDType
  <2>8. CASE ByID(list, id) = 0
    <3>1. Warm(k + 1) = Warm(k)
      BY <2>3, <2>4, <2>8
    <3>2. f[k + 1] = f[k]
      BY <2>5, <2>8 DEF Try
    <3> QED
      BY <2>6, <3>1, <3>2
  <2>9. CASE ByID(list, id) # 0
    <3>1. PICK i \in 1..n : i = ByID(list, id)
      BY <2>7, <2>9
    <3>2. PICK w \in Nat : w = warmth[id]
      OBVIOUS
    <3>3. Warm(k + 1) = Warm(k) \cup Offer(list, i, w)
      BY <2>3, <2>4, <2>9, <3>1, <3>2 DEF Offer
    <3>4. f[k + 1] = Consider(list, f[k], i, w)
      BY <2>5, <2>9, <3>1, <3>2 DEF Try
    <3>5. Cold(list) \in SUBSET ((1..n) \X Nat)
      BY <1>2, LenProperties DEF Cold
    <3>6. Warm(k) \in SUBSET ((1..n) \X Nat)
      <4>1. SUFFICES ASSUME NEW j \in 1..k, ByID(list, order[j]) # 0
                     PROVE  <<ByID(list, order[j]), warmth[order[j]]>>
                              \in (1..n) \X Nat
        BY SMTT(30)
      <4>2. order[j] \in named
        BY <1>1, <2>2
      <4>3. ByID(list, order[j]) \in 0..n
        BY <1>2, ByIDType
      <4> QED
        BY <4>1, <4>2, <4>3
    <3> HIDE DEF Warm
    <3>7. Cold(list) \cup Warm(k) \in SUBSET ((1..n) \X Nat)
      BY <3>5, <3>6
    <3>8. BestOf(list, f[k + 1], (Cold(list) \cup Warm(k)) \cup Offer(list, i, w))
      BY <1>2, <2>5, <2>6, <3>4, <3>7, ConsiderKeepsBest
    <3> QED
      BY <3>3, <3>8
  <2> QED
    BY <2>8, <2>9
<1>6. m \in S
  <2> HIDE DEF S
  <2> QED
    BY <1>4, <1>5, SetInduction
<1>7. {order[j] : j \in 1..m} = named
  BY <1>1
<1>8. Cold(list) \cup Warm(m) = Offered(list, warmth, named)
  BY <1>7 DEF Offered
<1>9. BestOf(list, f[m], Offered(list, warmth, named))
  BY <1>6, <1>8
<1> QED
  BY <1>3, <1>9

\* The choice is nil only if nothing is selectable, and else has the best
\* score, for every start, warmth and order of the candidates.
LEMMA SelectedBest == IsFiniteSet(IDs) /\ InputTyped => SelectedIsBest
<1>1. SUFFICES ASSUME IsFiniteSet(IDs), InputTyped, NEW start \in Starts,
                      NEW warmth \in [IDs -> Warmths], NEW named \in SUBSET IDs,
                      NEW order \in SetToSeqs(named)
               PROVE  LET offers == Offers(warmth, named)
                          at == cacheAwareSelect(fleet, start, warmth, order)
                          score(o) == scoreBackend(fleet[o[1]], o[2])
                      IN  IF offers = {} THEN at = 0
                          ELSE \E o \in offers :
                                 o[1] = at /\ \A p \in offers : score(o) >= score(p)
  BY DEF SelectedIsBest
<1>2. /\ fleet \in Seq(State) /\ start \in Nat /\ IsFiniteSet(named)
      /\ \A id \in named : warmth[id] \in Nat
  <2>1. fleet \in Seq(State) /\ start \in Nat
    BY <1>1, InputsAssumption DEF InputTyped, Starts
  <2>2. IsFiniteSet(named)
    BY <1>1, FS_Subset
  <2>3. \A id \in named : warmth[id] \in Nat
    BY <1>1, InputsAssumption
  <2> QED
    BY <2>1, <2>2, <2>3
<1>3. PICK offers : offers = Offers(warmth, named)
  OBVIOUS
<1>4. PICK best : /\ cacheAwareSelect(fleet, start, warmth, order) = best.at
                  /\ BestOf(fleet, best, offers)
  <2>1. Offers(warmth, named) = Offered(fleet, warmth, named)
    BY DEF Offers, Offered, Cold
  <2> QED
    BY <1>2, <1>3, <2>1, ChoiceIsBest
<1> QED
  BY <1>3, <1>4 DEF BestOf

\* cacheAwareSelect chooses a state with the best score there is, and nil only
\* if nothing is selectable (SelectedIsBest), for any fleet, loads, warmths
\* and candidates. The map of candidates is finite.
THEOREM SelectionBest ==
  ASSUME IsFiniteSet(IDs)
  PROVE  Spec => []SelectedIsBest
<1>1. InputTyped => SelectedIsBest
  BY SelectedBest
<1> QED
  BY <1>1, InputCorrect, PTL

\* With equal loads the scan keeps the first state it finds selectable.
LEMMA FirstTurnChosen ==
  ASSUME NEW list \in Seq(State), NEW n \in Nat, n = Len(list), NEW start \in Nat,
         \A i, j \in DOMAIN list : list[i].Load = list[j].Load,
         NEW i \in 1..n, list[i].Healthy, Turns(list, start)[1] = i
  PROVE  loadAwareFallback(list, start).at = i
<1>1. PICK f : FallbackSteps(list, start, n, f)
  BY FallbackWalk
<1>2. DOMAIN list = 1..n
  BY LenProperties
<1>3. PICK score \in Int : score = scoreBackend(list[i], 0)
  BY ScoreType, ElementOfSeq
<1>4. \A j \in 1..n : scoreBackend(list[j], 0) = score
  <2>1. \A j \in 1..n : list[j].Load = list[i].Load
    BY <1>2
  <2> QED
    BY <1>3, <2>1 DEF scoreBackend
<1> DEFINE First == [at |-> i, score |-> score]
           S     == {k \in Nat : 1 <= k /\ k <= n => f[k] = First}
<1>5. f[1] = First
  <2>1. 0 \in 0..(n - 1)
    OBVIOUS
  <2>2. f[0 + 1] = Consider(list, Nil, Turns(list, start)[0 + 1], 0)
    BY <1>1, <2>1 DEF FallbackSteps
  <2>3. f[1] = Consider(list, Nil, i, 0)
    BY <2>2
  <2> QED
    BY <1>3, <2>3 DEF Consider, Nil
<1>6. 0 \in S
  OBVIOUS
<1>7. ASSUME NEW k \in Nat, k \in S
      PROVE  k + 1 \in S
  <2>1. SUFFICES ASSUME k + 1 <= n
                 PROVE  f[k + 1] = First
    OBVIOUS
  <2>2. CASE k = 0
    BY <1>5, <2>2
  <2>3. CASE k # 0
    <3>1. k \in 0..(n - 1) /\ k + 1 \in 1..n /\ f[k] = First
      BY <1>7, <2>1, <2>3
    <3>2. PICK j \in 1..n : j = Turns(list, start)[k + 1]
      BY <3>1, TurnsType
    <3>3. f[k + 1] = Consider(list, First, j, 0)
      BY <1>1, <3>1, <3>2 DEF FallbackSteps
    <3>4. First.at = i /\ First.score = score /\ i # 0
      OBVIOUS
    <3>5. ~(score > score)
      OBVIOUS
    <3> HIDE DEF First
    <3> QED
      BY <1>4, <3>3, <3>4, <3>5 DEF Consider
  <2> QED
    BY <2>2, <2>3
<1>8. n \in S
  <2> HIDE DEF S
  <2> QED
    BY <1>6, <1>7, SetInduction
<1>9. f[n] = First
  BY <1>8
<1> QED
  BY <1>1, <1>9 DEF FallbackSteps

\* So the turns choose each selectable state, and nothing else.
LEMMA ColdTurns == InputTyped => ColdSelectionsRotate
<1> SUFFICES ASSUME InputTyped,
                    \A i, j \in DOMAIN fleet : fleet[i].Load = fleet[j].Load,
                    NEW first \in Starts
             PROVE  {loadAwareFallback(fleet, first + k).at :
                       k \in 0..Len(fleet) - 1} \ {0}
                      = {i \in DOMAIN fleet : fleet[i].Healthy}
  BY DEF ColdSelectionsRotate
<1>1. PICK n \in Nat : n = Len(fleet)
  BY LenProperties DEF InputTyped
<1>2. fleet \in Seq(State) /\ DOMAIN fleet = 1..n /\ first \in Nat
  BY <1>1, InputsAssumption, LenProperties DEF InputTyped, Starts
<1>3. ASSUME NEW k \in 0..(n - 1), loadAwareFallback(fleet, first + k).at # 0
      PROVE  /\ loadAwareFallback(fleet, first + k).at \in 1..n
             /\ fleet[loadAwareFallback(fleet, first + k).at].Healthy
  <2>1. first + k \in Nat
    BY <1>2
  <2>2. PICK best : best = loadAwareFallback(fleet, first + k)
    OBVIOUS
  <2>3. BestOf(fleet, best, Cold(fleet))
    BY <1>2, <2>1, <2>2, FallbackIsBest
  <2>4. PICK o \in Cold(fleet) : o[1] = best.at
    BY <1>3, <2>2, <2>3 DEF BestOf
  <2>5. PICK i \in 1..n : fleet[i].Healthy /\ o = <<i, 0>>
    BY <1>2 DEF Cold
  <2> QED
    BY <2>2, <2>4, <2>5
<1>4. ASSUME NEW i \in 1..n, fleet[i].Healthy
      PROVE  \E k \in 0..(n - 1) : loadAwareFallback(fleet, first + k).at = i
  <2>1. n \in Nat \ {0}
    OBVIOUS
  <2>2. PICK j \in 1..n : ((first + j - 1) % n) + 1 = i
    BY <1>2, <2>1, TurnComes
  <2>3. PICK k \in 0..(n - 1) : k = j - 1
    OBVIOUS
  <2>4. first + k \in Nat /\ (first + k) + 1 - 1 = first + j - 1 /\ 1 \in 1..n
    BY <1>2, <2>3
  <2>5. Turns(fleet, first + k)[1] = (((first + k) + 1 - 1) % n) + 1
    BY <1>1, <1>2, <2>4, TurnsType
  <2>6. Turns(fleet, first + k)[1] = i
    BY <2>2, <2>4, <2>5
  <2>7. loadAwareFallback(fleet, first + k).at = i
    BY <1>1, <1>2, <1>4, <2>4, <2>6, FirstTurnChosen
  <2> QED
    BY <2>7
<1>5. 0 \notin 1..n
  OBVIOUS
<1> QED
  BY <1>1, <1>2, <1>3, <1>4, <1>5

\* While no candidates are found and loads are equal, requests in a row take
\* each selectable state in turn (ColdSelectionsRotate), for any fleet.
THEOREM ColdSelectionsTakeTurns == Spec => []ColdSelectionsRotate
  BY InputCorrect, ColdTurns, PTL

-----------------------------------------------------------------------------
(* Words *)

Bytes == Letters \cup {Space}

Sentence == Seq(Seq(Bytes))

Index(text) == [i \in DOMAIN text |-> i]

\* A letter that continues the word before it.
Continues(text, i) == text[i] # Space /\ i > 1 /\ text[i - 1] # Space

LEMMA AddByteType ==
  ASSUME NEW text \in Seq(Bytes), NEW ws \in Sentence, NEW i \in DOMAIN text
  PROVE  /\ AddByte(text, ws, i) \in Sentence
         /\ text[i] = Space => AddByte(text, ws, i) = ws
         /\ Continues(text, i) =>
              /\ Len(AddByte(text, ws, i)) = Len(ws)
              /\ \A j \in 1..(Len(ws) - 1) : AddByte(text, ws, i)[j] = ws[j]
         /\ text[i] # Space /\ ~Continues(text, i) =>
              AddByte(text, ws, i) = Append(ws, <<text[i]>>)
<1>1. text[i] \in Bytes /\ i \in Int
  BY LenProperties, ElementOfSeq
<1>2. PICK n \in Nat : n = Len(ws) /\ ws \in [1..n -> Seq(Bytes)]
  BY LenProperties DEF Sentence
<1>3. CASE text[i] = Space
  BY <1>3 DEF AddByte, Continues
<1>4. CASE Continues(text, i)
  <2>1. AddByte(text, ws, i) = [ws EXCEPT ![n] = Append(@, text[i])]
    BY <1>2, <1>4 DEF AddByte, Continues
  <2>2. n \in 1..n => Append(ws[n], text[i]) \in Seq(Bytes)
    BY <1>1, <1>2, AppendProperties
  <2>3. PICK v : v = Append(ws[n], text[i]) /\ (n \in 1..n => v \in Seq(Bytes))
    BY <2>2
  <2>4. PICK new : new = [ws EXCEPT ![n] = v]
    OBVIOUS
  <2>5. /\ new \in [1..n -> Seq(Bytes)]
        /\ \A j \in 1..(n - 1) : new[j] = ws[j]
    <3>1. ws = [j \in 1..n |-> ws[j]] /\ \A j \in 1..n : ws[j] \in Seq(Bytes)
      BY <1>2
    <3>2. new = [j \in 1..n |-> IF j = n THEN v ELSE ws[j]]
      BY <2>4, <3>1
    <3>3. \A j \in 1..n : (IF j = n THEN v ELSE ws[j]) \in Seq(Bytes)
      BY <2>3, <3>1
    <3>4. new \in [1..n -> Seq(Bytes)]
      BY <3>2, <3>3
    <3>5. \A j \in 1..(n - 1) : j \in 1..n /\ j # n
      OBVIOUS
    <3> QED
      BY <3>2, <3>4, <3>5
  <2>6. new \in Sentence /\ Len(new) = n
    BY <2>5, IsASeq, LenProperties DEF Sentence
  <2>7. text[i] # Space
    BY <1>4 DEF Continues
  <2> QED
    BY <1>2, <1>4, <2>1, <2>3, <2>4, <2>5, <2>6, <2>7
<1>5. CASE text[i] # Space /\ ~Continues(text, i)
  <2>1. AddByte(text, ws, i) = Append(ws, <<text[i]>>)
    BY <1>5 DEF AddByte, Continues
  <2>2. <<text[i]>> \in Seq(Bytes)
    BY <1>1
  <2>3. Append(ws, <<text[i]>>) \in Sentence
    BY <2>2, AppendProperties DEF Sentence
  <2> QED
    BY <1>5, <2>1, <2>3
<1> QED
  BY <1>3, <1>4, <1>5

\* The scan of a text, byte by byte: f[k] after k bytes.
WordSteps(text, n, f) ==
  /\ f \in [0..n -> Sentence]
  /\ f[0] = <<>>
  /\ words(text) = f[n]
  /\ \A k \in 0..(n - 1) : f[k + 1] = AddByte(text, f[k], k + 1)

LEMMA WordWalk ==
  ASSUME NEW text \in Seq(Bytes), NEW n \in Nat, n = Len(text)
  PROVE  \E f : WordSteps(text, n, f)
<1> DEFINE g    == [p \in Sentence \X (1..n) |->
                     AddByte(text, p[1], Index(text)[p[2]])]
           iter == CHOOSE iter : iter =
                     [s \in SUBSET DOMAIN Index(text) |->
                        IF s = {} THEN <<>>
                        ELSE LET x == Max(s)
                             IN  AddByte(text, iter[s \ {x}], Index(text)[x])]
<1>1. DOMAIN Index(text) = 1..n /\ \A k \in 1..n : Index(text)[k] = k
      /\ DOMAIN text = 1..n
  BY LenProperties DEF Index
<1>2. words(text) = iter[1..n]
  BY <1>1 DEF words, FoldLeftDomain, Index, FoldLeft, MapThenFoldSet
<1>3. <<>> \in Sentence
  BY EmptySeq DEF Sentence
<1>4. ASSUME NEW v \in Sentence, NEW i \in 1..n
      PROVE  AddByte(text, v, Index(text)[i]) \in Sentence
  BY <1>1, AddByteType
<1>5. g \in [Sentence \X (1..n) -> Sentence]
  BY <1>4
<1>6. \A v \in Sentence, i \in 1..n : g[<<v, i>>]
          = AddByte(text, v, Index(text)[i])
  OBVIOUS
<1> HIDE DEF g
<1>7. Foldable(Sentence, n, <<>>, g)
  BY <1>3, <1>5 DEF Foldable
<1>8. PICK h : Solution(Sentence, n, <<>>, g, h)
  BY <1>7, SolutionExists
<1>9. h = [s \in SUBSET DOMAIN Index(text) |->
             IF s = {} THEN <<>>
             ELSE LET x == Max(s) IN AddByte(text, h[s \ {x}], Index(text)[x])]
  <2>1. \A s \in SUBSET (1..n) : s # {} =>
          g[<<h[s \ {Max(s)}], Max(s)>>]
              = AddByte(text, h[s \ {Max(s)}], Index(text)[Max(s)])
    BY <1>6, <1>8, MaxOfRange DEF Solution
  <2> QED
    BY <1>1, <1>8, <2>1 DEF FoldRound, Solution
<1>10. iter = [s \in SUBSET DOMAIN Index(text) |->
                 IF s = {} THEN <<>>
                 ELSE LET x == Max(s) IN AddByte(text, iter[s \ {x}], Index(text)[x])]
  BY <1>9
<1> HIDE DEF iter
<1>11. Satisfies(Sentence, n, <<>>, g, iter)
  <2>1. iter[{}] = <<>>
    BY <1>10
  <2>2. ASSUME NEW s \in SUBSET (1..n), s # {}, iter[s \ {Max(s)}] \in Sentence
        PROVE  iter[s] = g[<<iter[s \ {Max(s)}], Max(s)>>]
    <3>1. Max(s) \in 1..n
      BY <2>2, MaxOfRange
    <3>2. iter[s] = AddByte(text, iter[s \ {Max(s)}], Index(text)[Max(s)])
      BY <1>1, <1>10, <2>2
    <3> QED
      BY <1>6, <2>2, <3>1, <3>2
  <2> QED
    BY <2>1, <2>2 DEF Satisfies
<1>12. PICK f : Folded(Sentence, n, <<>>, g, f) /\ f[n] = iter[1..n]
  BY <1>7, <1>11, FoldedExists
<1>13. \A k \in 0..(n - 1) : f[k + 1] = AddByte(text, f[k], k + 1)
  <2>1. SUFFICES ASSUME NEW k \in 0..(n - 1)
                 PROVE  f[k + 1] = AddByte(text, f[k], k + 1)
    OBVIOUS
  <2>2. f[k] \in Sentence /\ k + 1 \in 1..n /\ f[k + 1] = g[<<f[k], k + 1>>]
    BY <1>12, SMTT(30) DEF Folded
  <2> QED
    BY <1>1, <1>6, <2>2
<1> QED
  BY <1>2, <1>12, <1>13 DEF Folded, WordSteps

\* Scanned words never go away, and only the last of them still changes.
LEMMA ScanGrows ==
  ASSUME NEW text \in Seq(Bytes), NEW n \in Nat, n = Len(text),
         NEW f, WordSteps(text, n, f), NEW k \in 0..n
  PROVE  /\ Len(f[k]) \in Nat /\ Len(f[n]) \in Nat /\ Len(f[k]) <= Len(f[n])
         /\ \A j \in 1..(Len(f[k]) - 1) : f[n][j] = f[k][j]
<1>1. /\ f \in [0..n -> Sentence]
      /\ \A i \in 0..(n - 1) : f[i + 1] = AddByte(text, f[i], i + 1)
  BY DEF WordSteps
<1>2. \A i \in 0..n : f[i] \in Sentence /\ Len(f[i]) \in Nat
  BY <1>1, LenProperties DEF Sentence
<1>3. PICK m \in Nat : m = Len(f[k])
  BY <1>2
<1> DEFINE S == {i \in Nat : k <= i /\ i <= n =>
                   /\ m <= Len(f[i])
                   /\ \A j \in 1..(m - 1) : f[i][j] = f[k][j]}
<1>4. 0 \in S
  <2>1. 0 >= k => 0 = k
    OBVIOUS
  <2> QED
    BY <1>3, <2>1
<1>5. ASSUME NEW i \in Nat, i \in S
      PROVE  i + 1 \in S
  <2>1. SUFFICES ASSUME k <= i + 1, i + 1 <= n
                 PROVE  /\ m <= Len(f[i + 1])
                        /\ \A j \in 1..(m - 1) : f[i + 1][j] = f[k][j]
    OBVIOUS
  <2>2. CASE i + 1 = k
    BY <1>3, <2>2
  <2>3. CASE i + 1 # k
    <3>1. k <= i /\ i <= n /\ i \in 0..(n - 1) /\ i \in 0..n
      BY <2>1, <2>3
    <3>2. PICK ws \in Sentence : ws = f[i] /\ f[i + 1] = AddByte(text, ws, i + 1)
      BY <1>1, <1>2, <3>1
    <3>3. PICK l \in Nat : l = Len(ws)
      BY <1>2, <3>1, <3>2
    <3>4. m <= l /\ \A j \in 1..(m - 1) : ws[j] = f[k][j]
      BY <1>5, <3>1, <3>2, <3>3
    <3>5. i + 1 \in DOMAIN text
      BY <3>1, LenProperties
    <3>6. PICK new : new = AddByte(text, ws, i + 1)
      OBVIOUS
    <3>7. l <= Len(new) /\ \A j \in 1..(l - 1) : new[j] = ws[j]
      <4>1. CASE text[i + 1] = Space
        BY <3>2, <3>3, <3>5, <3>6, <4>1, AddByteType
      <4>2. CASE Continues(text, i + 1)
        BY <3>2, <3>3, <3>5, <3>6, <4>2, AddByteType
      <4>3. CASE text[i + 1] # Space /\ ~Continues(text, i + 1)
        <5>1. new = Append(ws, <<text[i + 1]>>)
          BY <3>2, <3>5, <3>6, <4>3, AddByteType
        <5>2. <<text[i + 1]>> \in Seq(Bytes)
          <6>1. text[i + 1] \in Bytes
            BY <3>5, LenProperties, ElementOfSeq
          <6> QED
            BY <6>1
        <5> QED
          BY <3>3, <5>1, <5>2, AppendProperties DEF Sentence
      <4> QED
        BY <4>1, <4>2, <4>3
    <3> QED
      BY <3>2, <3>3, <3>4, <3>6, <3>7
  <2> QED
    BY <2>2, <2>3
<1>6. n \in S
  <2> HIDE DEF S
  <2> QED
    BY <1>4, <1>5, SetInduction
<1>7. k <= n /\ n <= n
  OBVIOUS
<1>8. m <= Len(f[n]) /\ \A j \in 1..(m - 1) : f[n][j] = f[k][j]
  <2>1. k <= n /\ n <= n =>
          m <= Len(f[n]) /\ \A j \in 1..(m - 1) : f[n][j] = f[k][j]
    BY <1>6, Zenon
  <2> QED
    BY <1>7, <2>1
<1> HIDE DEF S
<1> QED
  BY <1>2, <1>3, <1>8

\* The number of words after one more byte.
LEMMA ByteCounts ==
  ASSUME NEW text \in Seq(Bytes), NEW ws \in Sentence, NEW i \in DOMAIN text
  PROVE  /\ text[i] = Space \/ Continues(text, i) =>
              Len(AddByte(text, ws, i)) = Len(ws)
         /\ ~(text[i] = Space \/ Continues(text, i)) =>
              Len(AddByte(text, ws, i)) = Len(ws) + 1
<1>1. CASE text[i] = Space
  BY <1>1, AddByteType
<1>2. CASE Continues(text, i)
  BY <1>2, AddByteType DEF Continues
<1>3. CASE text[i] # Space /\ ~Continues(text, i)
  <2>1. <<text[i]>> \in Seq(Bytes)
    <3>1. text[i] \in Bytes
      BY LenProperties, ElementOfSeq
    <3> QED
      BY <3>1
  <2>2. AddByte(text, ws, i) = Append(ws, <<text[i]>>)
    BY <1>3, AddByteType
  <2> QED
    BY <1>3, <2>1, <2>2, AppendProperties DEF Sentence
<1> QED
  BY <1>1, <1>2, <1>3

\* Two words have a separator between them.
LEMMA WordsBounded ==
  ASSUME NEW text \in Seq(Bytes), NEW n \in Nat, n = Len(text)
  PROVE  /\ words(text) \in Sentence
         /\ Len(words(text)) \in Nat
         /\ 2 * Len(words(text)) <= n + 1
<1>1. PICK f : WordSteps(text, n, f)
  BY WordWalk
<1>2. /\ f \in [0..n -> Sentence] /\ f[0] = <<>> /\ words(text) = f[n]
      /\ \A i \in 0..(n - 1) : f[i + 1] = AddByte(text, f[i], i + 1)
  BY <1>1 DEF WordSteps
<1>3. \A i \in 0..n : f[i] \in Sentence /\ Len(f[i]) \in Nat
  BY <1>2, LenProperties DEF Sentence
<1> DEFINE S == {k \in Nat : k <= n =>
                   /\ 2 * Len(f[k]) <= k + 1
                   /\ k = 0 \/ text[k] = Space => 2 * Len(f[k]) <= k}
<1>4. 0 \in S
  <2>1. Len(f[0]) = 0
    BY <1>2, EmptySeq
  <2> QED
    BY <2>1
<1>5. ASSUME NEW k \in Nat, k \in S
      PROVE  k + 1 \in S
  <2>1. SUFFICES ASSUME k + 1 <= n
                 PROVE  /\ 2 * Len(f[k + 1]) <= (k + 1) + 1
                        /\ k + 1 = 0 \/ text[k + 1] = Space =>
                             2 * Len(f[k + 1]) <= k + 1
    OBVIOUS
  <2>2. k \in 0..(n - 1) /\ k \in 0..n
    BY <2>1
  <2>3. PICK ws \in Sentence : ws = f[k] /\ f[k + 1] = AddByte(text, ws, k + 1)
    BY <1>2, <1>3, <2>2
  <2>4. PICK l \in Nat : l = Len(ws)
    BY <1>3, <2>2, <2>3
  <2>5. k + 1 \in DOMAIN text
    BY <2>2, LenProperties
  <2>6. 2 * l <= k + 1 /\ (k = 0 \/ text[k] = Space => 2 * l <= k)
    BY <1>5, <2>1, <2>3, <2>4
  <2>7. CASE text[k + 1] = Space \/ Continues(text, k + 1)
    <3>1. Len(f[k + 1]) = l
      BY <2>3, <2>4, <2>5, <2>7, ByteCounts
    <3> QED
      BY <2>6, <3>1
  <2>8. CASE ~(text[k + 1] = Space \/ Continues(text, k + 1))
    <3>1. Len(f[k + 1]) = l + 1
      BY <2>3, <2>4, <2>5, <2>8, ByteCounts
    <3>2. k = 0 \/ text[k] = Space
      <4>1. ~(k + 1 > 1 /\ text[(k + 1) - 1] # Space)
        BY <2>8 DEF Continues
      <4>2. (k + 1) - 1 = k
        OBVIOUS
      <4> QED
        BY <4>1, <4>2
    <3> QED
      BY <2>6, <2>8, <3>1, <3>2
  <2> QED
    BY <2>7, <2>8
<1>6. n \in S
  <2> HIDE DEF S
  <2> QED
    BY <1>4, <1>5, SetInduction
<1> QED
  BY <1>2, <1>3, <1>6

\* The contents one after the other: f[k] is the text of the first k.
FlattenSteps(Elem, ms, n, f) ==
  /\ f \in [0..n -> Seq(Elem)]
  /\ f[0] = <<>>
  /\ FlattenSeq(ms) = f[n]
  /\ \A k \in 0..(n - 1) : f[k + 1] = f[k] \o ms[k + 1]

LEMMA FlattenWalk ==
  ASSUME NEW Elem, NEW ms \in Seq(Seq(Elem)), NEW n \in Nat, n = Len(ms)
  PROVE  \E f : FlattenSteps(Elem, ms, n, f)
<1>1. ms \in [1..n -> Seq(Elem)]
  BY LenProperties
<1>v. PICK V : V = Seq(Elem)
  OBVIOUS
<1>2. PICK g : g = [p \in V \X (1..n) |-> p[1] \o ms[p[2]]]
  OBVIOUS
<1>3. \A v \in V, i \in 1..n : g[<<v, i>>] = v \o ms[i]
  BY <1>2
<1>4. Foldable(V, n, <<>>, g)
  <2>1. <<>> \in V
    BY <1>v, EmptySeq
  <2>2. \A v \in V, i \in 1..n : v \o ms[i] \in V
    BY <1>1, <1>v, ConcatProperties
  <2>3. g \in [V \X (1..n) -> V]
    BY <1>2, <2>2
  <2> QED
    BY <2>1, <2>3 DEF Foldable
<1>5. PICK h : Solution(V, n, <<>>, g, h)
  BY <1>4, SolutionExists
<1>6. Satisfies(V, n, <<>>, g, h)
  BY <1>5 DEF Solution, FoldRound, Satisfies
<1>7. PICK f : Folded(V, n, <<>>, g, f)
  BY <1>4, <1>6, FoldedExists
<1>8. /\ f \in [0..n -> V] /\ f[0] = <<>>
      /\ \A k \in 0..(n - 1) : f[k + 1] = f[k] \o ms[k + 1]
  <2>1. \A k \in 0..(n - 1) : f[k] \in V /\ k + 1 \in 1..n
                              /\ f[k + 1] = g[<<f[k], k + 1>>]
    <3>1. \A k \in 0..(n - 1) : k \in 0..n /\ k + 1 \in 1..n
      OBVIOUS
    <3>2. \A k \in 0..n : f[k] \in V
      BY <1>7 DEF Folded
    <3>3. \A k \in 0..(n - 1) : f[k + 1] = g[<<f[k], k + 1>>]
      BY <1>7 DEF Folded
    <3> QED
      BY <3>1, <3>2, <3>3
  <2>2. ASSUME NEW k \in 0..(n - 1)
        PROVE  f[k + 1] = f[k] \o ms[k + 1]
    <3>1. PICK v \in V : v = f[k]
      BY <2>1
    <3>2. PICK i \in 1..n : i = k + 1
      OBVIOUS
    <3>3. f[k + 1] = g[<<v, i>>] /\ g[<<v, i>>] = v \o ms[i]
      BY <1>3, <2>1, <3>1, <3>2
    <3> QED
      BY <3>1, <3>2, <3>3
  <2> QED
    BY <1>7, <2>2 DEF Folded
<1>9. FlattenSeq(ms) = f[n]
  <2>1. CASE n = 0
    <3>1. FlattenSeq(ms) = ms
      BY <2>1 DEF FlattenSeq
    <3>2. ms = <<>>
      BY <2>1, EmptySeq
    <3> QED
      BY <1>8, <2>1, <3>1, <3>2
  <2>2. CASE n # 0
    <3> DEFINE flat == CHOOSE flat : flat =
                  [i \in 1..Len(ms) |->
                     IF i = 1 THEN ms[i] ELSE flat[i - 1] \o ms[i]]
    <3>1. FlattenSeq(ms) = flat[n]
      BY <2>2 DEF FlattenSeq
    <3>2. PICK e : e = [i \in 1..n |-> f[i]]
      OBVIOUS
    <3>3. e = [i \in 1..n |-> IF i = 1 THEN ms[i] ELSE e[i - 1] \o ms[i]]
      <4>1. SUFFICES ASSUME NEW i \in 1..n
                     PROVE  f[i] = IF i = 1 THEN ms[i] ELSE e[i - 1] \o ms[i]
        BY <3>2
      <4>2. i - 1 \in 0..(n - 1) /\ (i - 1) + 1 = i
        OBVIOUS
      <4>3. f[i] = f[i - 1] \o ms[i]
        BY <1>8, <4>2
      <4>4. CASE i = 1
        <5>1. ms[1] \in Seq(Elem)
          BY <1>1, <4>4
        <5>2. <<>> \o ms[1] = ms[1]
          BY <5>1, ConcatEmptySeq
        <5>3. f[i - 1] = <<>>
          BY <1>8, <4>4
        <5> QED
          BY <4>3, <4>4, <5>2, <5>3
      <4>5. CASE i # 1
        <5>1. i - 1 \in 1..n
          BY <4>5
        <5> QED
          BY <3>2, <4>3, <4>5, <5>1
      <4> QED
        BY <4>4, <4>5
    <3>4. flat = [i \in 1..n |-> IF i = 1 THEN ms[i] ELSE flat[i - 1] \o ms[i]]
      BY <3>3
    <3> HIDE DEF flat
    <3> DEFINE S == {i \in Nat : i \in 1..n => flat[i] = f[i]}
    <3>5. 0 \in S
      OBVIOUS
    <3>6. ASSUME NEW i \in Nat, i \in S
          PROVE  i + 1 \in S
      <4>1. SUFFICES ASSUME i + 1 \in 1..n
                     PROVE  flat[i + 1] = f[i + 1]
        OBVIOUS
      <4>2. flat[i + 1] = IF i + 1 = 1 THEN ms[i + 1]
                          ELSE flat[(i + 1) - 1] \o ms[i + 1]
        BY <3>4, <4>1
      <4>3. e[i + 1] = IF i + 1 = 1 THEN ms[i + 1]
                       ELSE e[(i + 1) - 1] \o ms[i + 1]
        BY <3>3, <4>1
      <4>4. CASE i = 0
        BY <3>2, <4>1, <4>2, <4>3, <4>4
      <4>5. CASE i # 0
        <5>1. i \in 1..n /\ (i + 1) - 1 = i /\ i + 1 # 1
          BY <4>1, <4>5
        <5>2. flat[i] = f[i] /\ e[i] = f[i] /\ e[i + 1] = f[i + 1]
          BY <3>2, <3>6, <4>1, <5>1
        <5> QED
          BY <4>2, <4>3, <5>1, <5>2
      <4> QED
        BY <4>4, <4>5
    <3>7. n \in S
      <4> HIDE DEF S
      <4> QED
        BY <3>5, <3>6, SetInduction
    <3> QED
      BY <2>2, <3>1, <3>7
  <2> QED
    BY <2>1, <2>2
<1> QED
  BY <1>v, <1>8, <1>9 DEF FlattenSteps

LEMMA FlattenType ==
  ASSUME NEW ms \in Sentence
  PROVE  FlattenSeq(ms) \in Seq(Bytes)
<1>1. PICK n \in Nat : n = Len(ms)
  BY LenProperties DEF Sentence
<1>2. PICK f : FlattenSteps(Bytes, ms, n, f)
  BY <1>1, FlattenWalk DEF Sentence
<1> QED
  BY <1>1, <1>2 DEF FlattenSteps

\* One more message comes after all the others.
LEMMA FlattenAppend ==
  ASSUME NEW ms \in Sentence, NEW m \in Seq(Bytes)
  PROVE  FlattenSeq(Append(ms, m)) = FlattenSeq(ms) \o m
<1>1. PICK n \in Nat : n = Len(ms)
  BY LenProperties DEF Sentence
<1>2. PICK more \in Sentence : more = Append(ms, m)
  BY AppendProperties DEF Sentence
<1>3. Len(more) = n + 1 /\ more[n + 1] = m /\ \A i \in 1..n : more[i] = ms[i]
  BY <1>1, <1>2, AppendProperties DEF Sentence
<1>4. PICK f : FlattenSteps(Bytes, ms, n, f)
  BY <1>1, FlattenWalk DEF Sentence
<1>5. PICK g : FlattenSteps(Bytes, more, n + 1, g)
  BY <1>3, FlattenWalk DEF Sentence
<1>6. /\ f[0] = <<>> /\ g[0] = <<>>
      /\ \A k \in 0..(n - 1) : f[k + 1] = f[k] \o ms[k + 1]
      /\ \A k \in 0..n : g[k + 1] = g[k] \o more[k + 1]
  <2>1. (n + 1) - 1 = n
    OBVIOUS
  <2> QED
    BY <1>4, <1>5, <2>1 DEF FlattenSteps
<1> DEFINE S == {k \in Nat : k <= n => g[k] = f[k]}
<1>7. 0 \in S
  BY <1>6
<1>8. ASSUME NEW k \in Nat, k \in S
      PROVE  k + 1 \in S
  <2>1. SUFFICES ASSUME k + 1 <= n
                 PROVE  g[k + 1] = f[k + 1]
    OBVIOUS
  <2>2. k \in 0..(n - 1) /\ k \in 0..n /\ k + 1 \in 1..n /\ g[k] = f[k]
    BY <1>8, <2>1
  <2> QED
    BY <1>3, <1>6, <2>2
<1>9. n \in S
  <2> HIDE DEF S
  <2> QED
    BY <1>7, <1>8, SetInduction
<1>10. g[n + 1] = f[n] \o m
  <2>1. n \in 0..n /\ g[n] = f[n]
    BY <1>9
  <2> QED
    BY <1>3, <1>6, <2>1
<1> QED
  BY <1>2, <1>4, <1>5, <1>10 DEF FlattenSteps

\* The scan of a text that goes on is the scan of the shorter one as far as
\* that goes.
GoesOn(text, long) ==
  /\ text \in Seq(Bytes) /\ long \in Seq(Bytes) /\ Len(text) <= Len(long)
  /\ \A i \in 1..Len(text) : long[i] = text[i]

LEMMA PrefixScan ==
  ASSUME NEW text, NEW long, GoesOn(text, long),
         NEW g, WordSteps(long, Len(long), g)
  PROVE  g[Len(text)] = words(text)
<1>0. PICK n \in Nat, m \in Nat :
        /\ text \in Seq(Bytes) /\ long \in Seq(Bytes)
        /\ n = Len(text) /\ m = Len(long) /\ n <= m
        /\ \A i \in 1..n : long[i] = text[i]
  BY LenProperties DEF GoesOn
<1>1. PICK f : WordSteps(text, n, f)
  BY <1>0, WordWalk
<1>2. /\ f[0] = <<>> /\ g[0] = <<>>
      /\ \A k \in 0..(n - 1) : f[k + 1] = AddByte(text, f[k], k + 1)
      /\ \A k \in 0..(m - 1) : g[k + 1] = AddByte(long, g[k], k + 1)
  BY <1>0, <1>1 DEF WordSteps
<1> DEFINE S == {k \in Nat : k <= n => g[k] = f[k]}
<1>3. 0 \in S
  BY <1>2
<1>4. ASSUME NEW k \in Nat, k \in S
      PROVE  k + 1 \in S
  <2>1. SUFFICES ASSUME k + 1 <= n
                 PROVE  g[k + 1] = f[k + 1]
    OBVIOUS
  <2>2. /\ k \in 0..(n - 1) /\ k \in 0..(m - 1) /\ g[k] = f[k]
        /\ long[k + 1] = text[k + 1]
        /\ k + 1 > 1 => long[(k + 1) - 1] = text[(k + 1) - 1]
    BY <1>0, <1>4, <2>1
  <2>3. AddByte(long, f[k], k + 1) = AddByte(text, f[k], k + 1)
    BY <2>2 DEF AddByte
  <2> QED
    BY <1>2, <2>2, <2>3
<1>5. n \in S
  <2> HIDE DEF S
  <2> QED
    BY <1>3, <1>4, SetInduction
<1> QED
  BY <1>0, <1>1, <1>5 DEF WordSteps

\* A text that goes on agrees with the shorter one on all words but the last.
LEMMA PrefixKeepsWords ==
  ASSUME NEW text \in Seq(Bytes), NEW long \in Seq(Bytes),
         Len(text) <= Len(long),
         \A i \in 1..Len(text) : long[i] = text[i]
  PROVE  /\ Len(words(text)) <= Len(words(long))
         /\ \A j \in 1..(Len(words(text)) - 1) : words(long)[j] = words(text)[j]
<1>1. PICK n \in Nat, m \in Nat : n = Len(text) /\ m = Len(long)
  BY LenProperties
<1>2. PICK g : WordSteps(long, m, g)
  BY <1>1, WordWalk
<1>3. g[n] = words(text) /\ n \in 0..m
  <2>1. GoesOn(text, long)
    BY DEF GoesOn
  <2> QED
    BY <1>1, <1>2, <2>1, PrefixScan
<1>4. g[m] = words(long)
  BY <1>2 DEF WordSteps
<1> QED
  BY <1>1, <1>2, <1>3, <1>4, ScanGrows

\* The text of some messages is a beginning of all they hold.
LEMMA TextType ==
  ASSUME NEW ms \in Sentence
  PROVE  LET all  == FlattenSeq(ms)
             text == PrefixText(ms)
         IN  /\ text \in Seq(Bytes) /\ Len(text) \in Nat /\ Len(all) \in Nat
             /\ Len(text) <= MAX_PREFIX_LENGTH
             /\ Len(text) <= Len(all)
             /\ Len(text) = MAX_PREFIX_LENGTH \/ Len(text) = Len(all)
             /\ \A i \in 1..Len(text) : text[i] = all[i]
<1>1. PICK all \in Seq(Bytes) : all = FlattenSeq(ms)
  BY FlattenType
<1>2. PICK n \in Nat : n = Len(all)
  BY LenProperties
<1>3. PICK cut \in Nat : cut = Min({MAX_PREFIX_LENGTH, n})
  <2>1. MAX_PREFIX_LENGTH \in Nat
    BY LengthsAssumption
  <2> QED
    BY <2>1 DEF Min
<1>4. /\ cut <= MAX_PREFIX_LENGTH /\ cut <= n
      /\ cut = MAX_PREFIX_LENGTH \/ cut = n
  <2>1. MAX_PREFIX_LENGTH \in Nat
    BY LengthsAssumption
  <2> QED
    BY <1>3, <2>1, SMTT(30) DEF Min
<1>5. PICK text : text = SubSeq(all, 1, cut)
  OBVIOUS
<1>6. PrefixText(ms) = text
  BY <1>1, <1>2, <1>3, <1>5 DEF PrefixText
<1>7. \A i \in 1..cut : all[i] \in Bytes
  BY <1>2, <1>4, LenProperties, ElementOfSeq
<1>8. /\ text \in Seq(Bytes) /\ Len(text) = cut
      /\ \A i \in 1..cut : text[i] = all[i]
  <2>1. /\ SubSeq(all, 1, cut) \in Seq(Bytes)
        /\ Len(SubSeq(all, 1, cut)) = IF 1 <= cut THEN cut - 1 + 1 ELSE 0
        /\ \A i \in 1..(cut - 1 + 1) : SubSeq(all, 1, cut)[i] = all[1 + i - 1]
    BY <1>7, SubSeqProperties
  <2>2. \A i \in 1..cut : 1 + i - 1 = i /\ i \in 1..(cut - 1 + 1)
    OBVIOUS
  <2> QED
    BY <1>5, <2>1, <2>2
<1> QED
  BY <1>1, <1>2, <1>4, <1>6, <1>8

LEMMA MessagesTyped == InputTyped => messages \in Sentence
<1> SUFFICES ASSUME InputTyped
             PROVE  messages \in Sentence
  OBVIOUS
<1>1. Contents \subseteq Seq(Bytes)
  BY InputsAssumption DEF Bytes
<1> QED
  BY <1>1, SeqMonotonic DEF InputTyped, Sentence

\* A print and what it stands for.
LEMMA PrintOf ==
  ASSUME NEW text, NEW lengths, NEW p \in Fingerprints(text, lengths)
  PROVE  /\ p.Length \in lengths /\ p.Length <= Len(words(text))
         /\ p = [Length |-> p.Length, Hash |-> SubSeq(words(text), 1, p.Length)]
<1>1. PICK l \in lengths : /\ l <= Len(words(text))
                           /\ p = [Length |-> l, Hash |-> SubSeq(words(text), 1, l)]
  BY DEF Fingerprints
<1>2. p.Length = l
  BY <1>1
<1> QED
  BY <1>1, <1>2

LEMMA IsPrint ==
  ASSUME NEW text, NEW lengths, NEW l \in lengths, l <= Len(words(text))
  PROVE  [Length |-> l, Hash |-> SubSeq(words(text), 1, l)]
           \in Fingerprints(text, lengths)
  BY DEF Fingerprints

\* Two lists of words that agree on the first l have the same hash of them.
LEMMA SameHash ==
  ASSUME NEW v \in Sentence, NEW w \in Sentence, NEW l \in Nat,
         l <= Len(v), l <= Len(w), \A j \in 1..l : v[j] = w[j]
  PROVE  SubSeq(v, 1, l) = SubSeq(w, 1, l)
<1>1. \A s \in {v, w} : /\ SubSeq(s, 1, l) \in Sentence
                        /\ Len(SubSeq(s, 1, l)) = l
                        /\ \A j \in 1..l : SubSeq(s, 1, l)[j] = s[j]
  <2>1. SUFFICES ASSUME NEW s \in {v, w}
                 PROVE  /\ SubSeq(s, 1, l) \in Sentence
                        /\ Len(SubSeq(s, 1, l)) = l
                        /\ \A j \in 1..l : SubSeq(s, 1, l)[j] = s[j]
    OBVIOUS
  <2>2. \A i \in 1..l : s[i] \in Seq(Bytes)
    <3>1. s \in Seq(Seq(Bytes)) /\ l <= Len(s)
      BY <2>1 DEF Sentence
    <3>2. \A i \in 1..l : i \in 1..Len(s)
      BY <3>1, LenProperties
    <3> QED
      BY <3>1, <3>2, ElementOfSeq
  <2>3. /\ SubSeq(s, 1, l) \in Sentence
        /\ Len(SubSeq(s, 1, l)) = IF 1 <= l THEN l - 1 + 1 ELSE 0
        /\ \A i \in 1..(l - 1 + 1) : SubSeq(s, 1, l)[i] = s[1 + i - 1]
    BY <2>2, SubSeqProperties DEF Sentence
  <2>4. \A i \in 1..l : 1 + i - 1 = i /\ i \in 1..(l - 1 + 1)
    OBVIOUS
  <2> QED
    BY <2>3, <2>4
<1> QED
  BY <1>1, SeqEqual DEF Sentence

LEMMA BoundedPrints == InputTyped => PrintsBounded
<1> SUFFICES ASSUME InputTyped, NEW p \in Prints(messages)
             PROVE  2 * p.Length - 1 <= MAX_PREFIX_LENGTH
  BY DEF PrintsBounded
<1>1. PICK text : text = PrefixText(messages)
  OBVIOUS
<1>2. text \in Seq(Bytes) /\ Len(text) \in Nat /\ Len(text) <= MAX_PREFIX_LENGTH
  BY <1>1, MessagesTyped, TextType
<1>3. Len(words(text)) \in Nat /\ 2 * Len(words(text)) <= Len(text) + 1
  BY <1>2, WordsBounded
<1>4. p.Length \in PrefixLengths /\ p.Length <= Len(words(text))
  BY <1>1, PrintOf DEF Prints
<1>5. p.Length \in Nat /\ MAX_PREFIX_LENGTH \in Nat
  BY <1>4, LengthsAssumption
<1> QED
  BY <1>2, <1>3, <1>4, <1>5

\* No print stands for more words than half the limit has room for
\* (PrintsBounded), for any messages, lengths and limit.
THEOREM PrintsWithinLimit == Spec => []PrintsBounded
  BY InputCorrect, BoundedPrints, PTL

LEMMA TurnsAgree == InputTyped => TurnsSharePrefix
<1> SUFFICES ASSUME InputTyped, NEW m \in Contents, NEW p \in Prints(messages),
                    p.Length < Len(words(PrefixText(messages)))
             PROVE  p \in Prints(Append(messages, m))
  BY DEF TurnsSharePrefix
<1>1. messages \in Sentence /\ m \in Seq(Bytes)
  <2>1. Contents \subseteq Seq(Bytes)
    BY InputsAssumption DEF Bytes
  <2> QED
    BY <2>1, MessagesTyped
<1>2. PICK turn \in Sentence : turn = Append(messages, m)
  BY <1>1, AppendProperties DEF Sentence
<1>3. PICK all \in Seq(Bytes), more \in Seq(Bytes) :
        all = FlattenSeq(messages) /\ more = FlattenSeq(turn)
  BY <1>1, FlattenType
<1>4. more = all \o m
  BY <1>1, <1>2, <1>3, FlattenAppend
<1>5. PICK text, long : text = PrefixText(messages) /\ long = PrefixText(turn)
  OBVIOUS
<1>6. /\ text \in Seq(Bytes) /\ Len(text) \in Nat /\ Len(all) \in Nat
      /\ Len(text) <= MAX_PREFIX_LENGTH /\ Len(text) <= Len(all)
      /\ \A i \in 1..Len(text) : text[i] = all[i]
  BY <1>1, <1>3, <1>5, TextType
<1>7. /\ long \in Seq(Bytes) /\ Len(long) \in Nat /\ Len(more) \in Nat
      /\ Len(long) = MAX_PREFIX_LENGTH \/ Len(long) = Len(more)
      /\ \A i \in 1..Len(long) : long[i] = more[i]
  BY <1>3, <1>5, TextType
<1>8. Len(all) <= Len(more) /\ \A i \in 1..Len(all) : more[i] = all[i]
  <2>1. /\ Len(more) = Len(all) + Len(m) /\ Len(m) \in Nat
        /\ \A i \in 1..(Len(all) + Len(m)) :
             more[i] = IF i <= Len(all) THEN all[i] ELSE m[i - Len(all)]
    BY <1>1, <1>4, ConcatProperties, LenProperties
  <2> QED
    BY <1>6, <2>1
<1>9. Len(text) <= Len(long) /\ \A i \in 1..Len(text) : long[i] = text[i]
  <2>1. MAX_PREFIX_LENGTH \in Nat
    BY LengthsAssumption
  <2>2. Len(text) <= Len(long)
    BY <1>6, <1>7, <1>8, <2>1
  <2>3. \A i \in 1..Len(text) : i \in 1..Len(long) /\ i \in 1..Len(all)
    BY <1>6, <1>7, <2>2
  <2> QED
    BY <1>6, <1>7, <1>8, <2>2, <2>3
<1>10. PICK v, w : v = words(text) /\ w = words(long)
  OBVIOUS
<1>11. /\ v \in Sentence /\ Len(v) \in Nat /\ w \in Sentence /\ Len(w) \in Nat
       /\ Len(v) <= Len(w) /\ \A j \in 1..(Len(v) - 1) : w[j] = v[j]
  BY <1>6, <1>7, <1>9, <1>10, WordsBounded, PrefixKeepsWords
<1>12. PICK l \in PrefixLengths :
         l = p.Length /\ p = [Length |-> l, Hash |-> SubSeq(v, 1, l)]
  BY <1>5, <1>10, PrintOf DEF Prints
<1>13. l \in Nat /\ l <= Len(v) /\ l <= Len(w) /\ \A j \in 1..l : v[j] = w[j]
  <2>1. l \in Nat
    BY LengthsAssumption
  <2>2. l <= Len(v) - 1
    BY <1>5, <1>10, <1>11, <1>12, <2>1
  <2> QED
    BY <1>11, <2>1, <2>2
<1>14. p = [Length |-> l, Hash |-> SubSeq(w, 1, l)]
  BY <1>11, <1>12, <1>13, SameHash
<1>15. p \in Fingerprints(long, PrefixLengths)
  BY <1>10, <1>13, <1>14, IsPrint
<1> QED
  BY <1>2, <1>5, <1>15 DEF Prints

\* The next turn of a conversation has all fingerprints of the last one but
\* perhaps one that takes in its last word (TurnsSharePrefix).
THEOREM TurnsKeepPrints == Spec => []TurnsSharePrefix
  BY InputCorrect, TurnsAgree, PTL

-----------------------------------------------------------------------------
(* Words that the mock backend sees *)

Padded(ms) == [i \in DOMAIN ms |-> Append(ms[i], Space)]

\* Nothing that a word could be continued from.
Closed(text) == text = <<>> \/ text[Len(text)] = Space

\* If a text is closed, one that goes on agrees with it on all its words.
LEMMA ClosedKeepsWords ==
  ASSUME NEW text \in Seq(Bytes), NEW long \in Seq(Bytes),
         Len(text) <= Len(long), Closed(text),
         \A i \in 1..Len(text) : long[i] = text[i]
  PROVE  \A j \in 1..Len(words(text)) : words(long)[j] = words(text)[j]
<1>1. PICK n \in Nat, m \in Nat : n = Len(text) /\ m = Len(long) /\ n <= m
  BY LenProperties
<1>2. PICK g : WordSteps(long, m, g)
  BY <1>1, WordWalk
<1>3. g[n] = words(text)
  <2>1. GoesOn(text, long)
    BY DEF GoesOn
  <2> QED
    BY <1>1, <1>2, <2>1, PrefixScan
<1>4. PICK l \in Nat : l = Len(words(text))
  BY <1>1, WordsBounded
<1>5. /\ g \in [0..m -> Sentence] /\ words(long) = g[m]
      /\ \A k \in 0..(m - 1) : g[k + 1] = AddByte(long, g[k], k + 1)
  BY <1>2 DEF WordSteps
<1>6. \A k \in 0..m : g[k] \in Sentence /\ Len(g[k]) \in Nat
  BY <1>5, LenProperties DEF Sentence
<1>7. n = 0 \/ long[n] = Space
  <2>1. CASE text = <<>>
    BY <1>1, <2>1, EmptySeq
  <2>2. CASE text[n] = Space /\ n # 0
    BY <1>1, <2>2
  <2> QED
    BY <1>1, <2>1, <2>2 DEF Closed
<1> DEFINE S == {k \in Nat : n <= k /\ k <= m =>
                   /\ Len(g[k]) >= l
                   /\ Len(g[k]) > l \/ k = 0 \/ long[k] = Space
                   /\ \A j \in 1..l : g[k][j] = words(text)[j]}
<1>8. 0 \in S
  <2>1. 0 >= n => n = 0
    OBVIOUS
  <2> QED
    BY <1>3, <1>4, <2>1
<1>9. ASSUME NEW k \in Nat, k \in S
      PROVE  k + 1 \in S
  <2>1. SUFFICES ASSUME n <= k + 1, k + 1 <= m
                 PROVE  /\ Len(g[k + 1]) >= l
                        /\ Len(g[k + 1]) > l \/ k + 1 = 0 \/ long[k + 1] = Space
                        /\ \A j \in 1..l : g[k + 1][j] = words(text)[j]
    OBVIOUS
  <2>2. CASE n = k + 1
    BY <1>3, <1>4, <1>7, <2>2
  <2>3. CASE n # k + 1
    <3>1. n <= k /\ k \in 0..(m - 1) /\ k \in 0..m
      BY <2>1, <2>3
    <3>2. PICK ws \in Sentence : ws = g[k] /\ g[k + 1] = AddByte(long, ws, k + 1)
      BY <1>5, <1>6, <3>1
    <3>3. PICK c \in Nat : c = Len(ws)
      BY <1>6, <3>1, <3>2
    <3>4. /\ c >= l /\ (c > l \/ k = 0 \/ long[k] = Space)
          /\ \A j \in 1..l : ws[j] = words(text)[j]
      BY <1>9, <3>1, <3>2, <3>3
    <3>5. k + 1 \in DOMAIN long
      BY <1>1, <3>1, LenProperties
    <3>6. PICK new : new = AddByte(long, ws, k + 1)
      OBVIOUS
    <3>7. CASE long[k + 1] = Space
      <4>1. new = ws
        BY <3>5, <3>6, <3>7, AddByteType
      <4> QED
        BY <3>2, <3>3, <3>4, <3>6, <3>7, <4>1
    <3>8. CASE Continues(long, k + 1)
      <4>1. Len(new) = c /\ \A j \in 1..(c - 1) : new[j] = ws[j]
        BY <3>3, <3>5, <3>6, <3>8, AddByteType
      <4>2. c > l
        <5>1. k + 1 > 1 /\ long[(k + 1) - 1] # Space /\ (k + 1) - 1 = k
          BY <3>8 DEF Continues
        <5> QED
          BY <3>4, <5>1
      <4>3. \A j \in 1..l : j \in 1..(c - 1)
        BY <4>2
      <4> QED
        BY <3>2, <3>4, <3>6, <4>1, <4>2, <4>3
    <3>9. CASE long[k + 1] # Space /\ ~Continues(long, k + 1)
      <4>1. new = Append(ws, <<long[k + 1]>>)
        BY <3>5, <3>6, <3>9, AddByteType
      <4>2. <<long[k + 1]>> \in Seq(Bytes)
        <5>1. long[k + 1] \in Bytes
          BY <3>5, LenProperties, ElementOfSeq
        <5> QED
          BY <5>1
      <4>3. Len(new) = c + 1 /\ \A j \in 1..c : new[j] = ws[j]
        BY <3>3, <4>1, <4>2, AppendProperties DEF Sentence
      <4>4. \A j \in 1..l : j \in 1..c
        BY <3>4
      <4> QED
        BY <3>2, <3>4, <3>6, <4>3, <4>4
    <3> QED
      BY <3>7, <3>8, <3>9
  <2> QED
    BY <2>2, <2>3
<1>10. m \in S
  <2> HIDE DEF S
  <2> QED
    BY <1>8, <1>9, SetInduction
<1> QED
  BY <1>1, <1>4, <1>5, <1>10

\* What follows a closed text has at least as many words as after another.
LEMMA ClosedCountsMore ==
  ASSUME NEW a \in Seq(Bytes), NEW b \in Seq(Bytes), NEW s \in Seq(Bytes),
         Closed(b), Len(words(a)) <= Len(words(b))
  PROVE  Len(words(a \o s)) <= Len(words(b \o s))
<1>1. PICK p \in Nat, q \in Nat, r \in Nat :
        p = Len(a) /\ q = Len(s) /\ r = Len(b)
  BY LenProperties
<1>2. PICK u \in Seq(Bytes), v \in Seq(Bytes) : u = a \o s /\ v = b \o s
  BY ConcatProperties
<1>3. PICK x \in Nat, y \in Nat : x = p + q /\ y = r + q
  OBVIOUS
<1>4. /\ Len(u) = x /\ Len(v) = y
      /\ \A i \in 1..x : u[i] = IF i <= p THEN a[i] ELSE s[i - p]
      /\ \A i \in 1..y : v[i] = IF i <= r THEN b[i] ELSE s[i - r]
  BY <1>1, <1>2, <1>3, ConcatProperties
<1>5. PICK f : WordSteps(u, x, f)
  BY <1>3, <1>4, WordWalk
<1>6. PICK g : WordSteps(v, y, g)
  BY <1>3, <1>4, WordWalk
<1>7. f[p] = words(a) /\ g[r] = words(b)
  <2>1. \A i \in 1..p : u[i] = a[i]
    <3>1. \A i \in 1..p : i \in 1..x /\ i <= p
      BY <1>3
    <3> QED
      BY <1>4, <3>1
  <2>2. \A i \in 1..r : v[i] = b[i]
    <3>1. \A i \in 1..r : i \in 1..y /\ i <= r
      BY <1>3
    <3> QED
      BY <1>4, <3>1
  <2>3. p <= x /\ r <= y
    BY <1>3
  <2>4. GoesOn(a, u) /\ GoesOn(b, v)
    BY <1>1, <1>4, <2>1, <2>2, <2>3 DEF GoesOn
  <2>5. f[p] = words(a) /\ g[r] = words(b)
    BY <1>1, <1>4, <1>5, <1>6, <2>4, PrefixScan
  <2> QED
    BY <2>5
<1>8. /\ f \in [0..x -> Sentence] /\ g \in [0..y -> Sentence]
      /\ words(u) = f[x] /\ words(v) = g[y]
      /\ \A k \in 0..(x - 1) : f[k + 1] = AddByte(u, f[k], k + 1)
      /\ \A k \in 0..(y - 1) : g[k + 1] = AddByte(v, g[k], k + 1)
  BY <1>5, <1>6 DEF WordSteps
<1> DEFINE S == {j \in Nat : j <= q => Len(f[p + j]) <= Len(g[r + j])}
<1>9. 0 \in S
  BY <1>7
<1>10. ASSUME NEW j \in Nat, j \in S
       PROVE  j + 1 \in S
  <2>1. SUFFICES ASSUME j + 1 <= q
                 PROVE  Len(f[p + (j + 1)]) <= Len(g[r + (j + 1)])
    OBVIOUS
  <2>2. PICK k \in 0..(x - 1), i \in 0..(y - 1) : k = p + j /\ i = r + j
    BY <1>3, <2>1
  <2>3. p + (j + 1) = k + 1 /\ r + (j + 1) = i + 1
    BY <2>2
  <2>4. /\ f[k] \in Sentence /\ f[k + 1] = AddByte(u, f[k], k + 1)
        /\ g[i] \in Sentence /\ g[i + 1] = AddByte(v, g[i], i + 1)
    BY <1>8, <2>2
  <2>5. PICK c \in Nat, d \in Nat : c = Len(f[k]) /\ d = Len(g[i])
    BY <2>4, LenProperties DEF Sentence
  <2>6. c <= d
    BY <1>10, <2>1, <2>2, <2>5
  <2>7. k + 1 \in DOMAIN u /\ i + 1 \in DOMAIN v
    <3>1. DOMAIN u = 1..x /\ DOMAIN v = 1..y
      BY <1>4, LenProperties
    <3>2. k + 1 \in 1..x /\ i + 1 \in 1..y
      BY <1>3, <2>2
    <3> QED
      BY <3>1, <3>2
  <2>8. u[k + 1] = s[j + 1] /\ v[i + 1] = s[j + 1]
    <3>1. /\ k + 1 \in 1..x /\ ~(k + 1 <= p) /\ (k + 1) - p = j + 1
          /\ i + 1 \in 1..y /\ ~(i + 1 <= r) /\ (i + 1) - r = j + 1
      BY <1>3, <2>1, <2>2
    <3>2. PICK m \in 1..x, n \in 1..y : m = k + 1 /\ n = i + 1
      BY <3>1
    <3>3. u[m] = s[m - p]
      BY <1>4, <3>1, <3>2
    <3>4. v[n] = s[n - r]
      BY <1>4, <3>1, <3>2
    <3> QED
      BY <3>1, <3>2, <3>3, <3>4
  <2>9. j # 0 => u[k] = v[i]
    <3>1. SUFFICES ASSUME j # 0
                   PROVE  u[k] = v[i]
      OBVIOUS
    <3>2. /\ k \in 1..x /\ ~(k <= p) /\ k - p = j
          /\ i \in 1..y /\ ~(i <= r) /\ i - r = j
      BY <1>3, <2>1, <2>2, <3>1
    <3>3. u[k] = s[j] /\ v[i] = s[j]
      BY <1>4, <3>2
    <3> QED
      BY <3>3
  <2>10. j = 0 => i = 0 \/ v[i] = Space
    <3>1. SUFFICES ASSUME j = 0, i # 0
                   PROVE  v[i] = Space
      OBVIOUS
    <3>2. i = r /\ r # 0 /\ v[i] = b[r]
      BY <1>3, <1>4, <2>2, <3>1
    <3>3. b # <<>>
      BY <1>1, <3>2, EmptySeq
    <3> QED
      BY <1>1, <3>2, <3>3 DEF Closed
  <2>11. Continues(v, i + 1) => Continues(u, k + 1)
    <3>1. SUFFICES ASSUME Continues(v, i + 1)
                   PROVE  Continues(u, k + 1)
      OBVIOUS
    <3>2. i + 1 > 1 /\ v[i] # Space /\ v[i + 1] # Space
      <4>1. (i + 1) - 1 = i
        OBVIOUS
      <4> QED
        BY <3>1, <4>1 DEF Continues
    <3>3. j # 0
      BY <2>10, <3>2
    <3>4. k + 1 > 1 /\ (k + 1) - 1 = k
      BY <2>2, <3>3
    <3> QED
      BY <2>8, <2>9, <3>2, <3>3, <3>4 DEF Continues
  <2>12. /\ u[k + 1] = Space \/ Continues(u, k + 1) => Len(f[k + 1]) = c
         /\ ~(u[k + 1] = Space \/ Continues(u, k + 1)) => Len(f[k + 1]) = c + 1
    <3>1. PICK vs \in Sentence, at \in DOMAIN u : vs = f[k] /\ at = k + 1
      BY <2>4, <2>7
    <3>2. /\ u[at] = Space \/ Continues(u, at) =>
               Len(AddByte(u, vs, at)) = Len(vs)
          /\ ~(u[at] = Space \/ Continues(u, at)) =>
               Len(AddByte(u, vs, at)) = Len(vs) + 1
      BY ByteCounts
    <3> QED
      BY <2>4, <2>5, <3>1, <3>2
  <2>13. /\ v[i + 1] = Space \/ Continues(v, i + 1) => Len(g[i + 1]) = d
         /\ ~(v[i + 1] = Space \/ Continues(v, i + 1)) => Len(g[i + 1]) = d + 1
    <3>1. PICK vs \in Sentence, at \in DOMAIN v : vs = g[i] /\ at = i + 1
      BY <2>4, <2>7
    <3>2. /\ v[at] = Space \/ Continues(v, at) =>
               Len(AddByte(v, vs, at)) = Len(vs)
          /\ ~(v[at] = Space \/ Continues(v, at)) =>
               Len(AddByte(v, vs, at)) = Len(vs) + 1
      BY ByteCounts
    <3> QED
      BY <2>4, <2>5, <3>1, <3>2
  <2>14. Len(f[k + 1]) <= Len(g[i + 1])
    BY <2>6, <2>8, <2>11, <2>12, <2>13, SMTT(30)
  <2> QED
    BY <2>3, <2>14
<1>11. q \in S
  <2> HIDE DEF S
  <2> QED
    BY <1>9, <1>10, SetInduction
<1> QED
  BY <1>2, <1>3, <1>8, <1>11

LEMMA PaddedType ==
  ASSUME NEW ms \in Sentence
  PROVE  /\ Padded(ms) \in Sentence /\ Len(Padded(ms)) = Len(ms)
         /\ \A i \in 1..Len(ms) : Padded(ms)[i] = Append(ms[i], Space)
<1>1. PICK n \in Nat : n = Len(ms) /\ DOMAIN ms = 1..n
  BY LenProperties DEF Sentence
<1>2. \A i \in 1..n : Append(ms[i], Space) \in Seq(Bytes)
  <2>1. \A i \in 1..n : ms[i] \in Seq(Bytes)
    BY <1>1, ElementOfSeq DEF Sentence
  <2>2. Space \in Bytes
    BY DEF Bytes
  <2> QED
    BY <2>1, <2>2, AppendProperties
<1>3. PICK padded : padded = [i \in 1..n |-> Append(ms[i], Space)]
  OBVIOUS
<1>4. padded \in [1..n -> Seq(Bytes)]
  BY <1>2, <1>3
<1>5. padded \in Sentence /\ Len(padded) = n
  BY <1>4 DEF Sentence
<1> QED
  BY <1>1, <1>3, <1>5 DEF Padded

\* The text of the mock backend is the padded contents, one after the other.
LEMMA MockTextType ==
  ASSUME NEW ms \in Sentence
  PROVE  /\ mockPrefixText(ms) = FlattenSeq(Padded(ms))
         /\ mockPrefixText(ms) \in Seq(Bytes)
         /\ Closed(mockPrefixText(ms))
<1>1. mockPrefixText(ms) = FlattenSeq(Padded(ms))
  BY DEF mockPrefixText, Padded
<1>2. PICK n \in Nat : n = Len(ms)
  BY LenProperties DEF Sentence
<1>3. Padded(ms) \in Sentence /\ Len(Padded(ms)) = n
  BY <1>2, PaddedType
<1>4. PICK f : FlattenSteps(Bytes, Padded(ms), n, f)
  BY <1>3, FlattenWalk DEF Sentence
<1>5. /\ f \in [0..n -> Seq(Bytes)] /\ f[0] = <<>> /\ FlattenSeq(Padded(ms)) = f[n]
      /\ \A k \in 0..(n - 1) : f[k + 1] = f[k] \o Padded(ms)[k + 1]
  BY <1>4 DEF FlattenSteps
<1>6. Closed(f[n])
  <2>1. CASE n = 0
    BY <1>5, <2>1 DEF Closed
  <2>2. CASE n # 0
    <3>1. PICK k \in 0..(n - 1) : n = k + 1 /\ k \in 0..n /\ n \in 1..n
      BY <2>2
    <3>2. PICK a \in Seq(Bytes), b \in Seq(Bytes) : a = f[k] /\ b = ms[n]
      BY <1>2, <1>5, <3>1, ElementOfSeq DEF Sentence
    <3>3. Space \in Bytes
      BY DEF Bytes
    <3>4. PICK c \in Seq(Bytes) : c = Append(b, Space)
      BY <3>3, AppendProperties
    <3>5. PICK l \in Nat : l = Len(b)
      BY LenProperties
    <3>6. Len(c) = l + 1 /\ c[l + 1] = Space
      BY <3>3, <3>4, <3>5, AppendProperties
    <3>7. f[n] = a \o c
      BY <1>2, <1>5, <3>1, <3>2, <3>4, PaddedType
    <3>8. PICK d \in Nat : d = Len(a)
      BY LenProperties
    <3>9. Len(a \o c) = d + (l + 1)
      <4>1. Len(a \o c) = Len(a) + Len(c)
        BY ConcatProperties
      <4> QED
        BY <3>6, <3>8, <4>1
    <3>10. (a \o c)[d + (l + 1)] = c[l + 1]
      <4>1. \A i \in 1..(Len(a) + Len(c)) :
              (a \o c)[i] = IF i <= Len(a) THEN a[i] ELSE c[i - Len(a)]
        BY ConcatProperties
      <4>2. /\ d + (l + 1) \in 1..(d + (l + 1)) /\ ~(d + (l + 1) <= d)
            /\ (d + (l + 1)) - d = l + 1
        OBVIOUS
      <4> QED
        BY <3>6, <3>8, <4>1, <4>2
    <3> QED
      BY <3>6, <3>7, <3>9, <3>10 DEF Closed
  <2> QED
    BY <2>1, <2>2
<1>7. f[n] \in Seq(Bytes)
  BY <1>5
<1> QED
  BY <1>1, <1>5, <1>6, <1>7

LEMMA MockTextAppend ==
  ASSUME NEW ms \in Sentence, NEW m \in Seq(Bytes)
  PROVE  mockPrefixText(Append(ms, m)) = mockPrefixText(ms) \o Append(m, Space)
<1>1. PICK n \in Nat : n = Len(ms)
  BY LenProperties DEF Sentence
<1>2. PICK turn \in Sentence : turn = Append(ms, m)
  BY AppendProperties DEF Sentence
<1>3. Len(turn) = n + 1 /\ turn[n + 1] = m /\ \A i \in 1..n : turn[i] = ms[i]
  BY <1>1, <1>2, AppendProperties DEF Sentence
<1>4. PICK long \in Seq(Bytes) : long = Append(m, Space)
  <2>1. Space \in Bytes
    BY DEF Bytes
  <2> QED
    BY <2>1, AppendProperties
<1>5. PICK v \in Sentence, w \in Sentence : v = Padded(ms) /\ w = Padded(turn)
  BY PaddedType
<1>6. /\ Len(v) = n /\ Len(w) = n + 1
      /\ \A i \in 1..n : v[i] = Append(ms[i], Space)
      /\ \A i \in 1..(n + 1) : w[i] = Append(turn[i], Space)
  BY <1>1, <1>3, <1>5, PaddedType
<1>7. PICK e \in Sentence : e = Append(v, long)
  BY AppendProperties DEF Sentence
<1>8. Len(e) = n + 1 /\ e[n + 1] = long /\ \A i \in 1..n : e[i] = v[i]
  BY <1>6, <1>7, AppendProperties DEF Sentence
<1>9. \A i \in 1..(n + 1) : w[i] = e[i]
  <2>1. \A i \in 1..n : i \in 1..(n + 1)
    OBVIOUS
  <2>2. \A i \in 1..n : w[i] = e[i]
    BY <1>3, <1>6, <1>8, <2>1
  <2>3. w[n + 1] = e[n + 1]
    BY <1>3, <1>4, <1>6, <1>8
  <2>4. \A i \in 1..(n + 1) : i \in 1..n \/ i = n + 1
    OBVIOUS
  <2> QED
    BY <2>2, <2>3, <2>4
<1>10. w = Append(v, long)
  BY <1>6, <1>7, <1>8, <1>9, SeqEqual DEF Sentence
<1>11. FlattenSeq(w) = FlattenSeq(v) \o long
  BY <1>10, FlattenAppend
<1> QED
  BY <1>2, <1>4, <1>5, <1>11, MockTextType

\* Messages are some messages and a last one.
LEMMA LastMessage ==
  ASSUME NEW ms \in Sentence, NEW n \in Nat, Len(ms) = n + 1
  PROVE  \E front \in Sentence, m \in Seq(Bytes) :
           Len(front) = n /\ ms = Append(front, m)
<1>1. \A i \in 1..(n + 1) : ms[i] \in Seq(Bytes)
  BY ElementOfSeq DEF Sentence
<1>2. PICK front : front = [i \in 1..n |-> ms[i]]
  OBVIOUS
<1>3. front \in [1..n -> Seq(Bytes)]
  BY <1>1, <1>2
<1>4. front \in Sentence /\ Len(front) = n
  BY <1>3 DEF Sentence
<1>5. PICK m \in Seq(Bytes) : m = ms[n + 1]
  BY <1>1
<1>6. PICK e \in Sentence : e = Append(front, m)
  BY <1>4, AppendProperties DEF Sentence
<1>7. Len(e) = n + 1 /\ e[n + 1] = m /\ \A i \in 1..n : e[i] = front[i]
  BY <1>4, <1>6, AppendProperties DEF Sentence
<1>8. \A i \in 1..(n + 1) : ms[i] = e[i]
  <2>1. \A i \in 1..(n + 1) : i \in 1..n \/ i = n + 1
    OBVIOUS
  <2> QED
    BY <1>2, <1>5, <1>7, <2>1
<1>9. ms = e
  BY <1>7, <1>8, SeqEqual DEF Sentence
<1> QED
  BY <1>4, <1>6, <1>9

\* An end of line after every content does not make words fewer.
LEMMA MockHasMoreWords ==
  ASSUME NEW ms \in Sentence
  PROVE  Len(words(FlattenSeq(ms))) <= Len(words(mockPrefixText(ms)))
<1> DEFINE S == {n \in Nat : \A s \in Sentence : Len(s) = n =>
                   Len(words(FlattenSeq(s))) <= Len(words(mockPrefixText(s)))}
<1>1. 0 \in S
  <2>1. SUFFICES ASSUME NEW s \in Sentence, Len(s) = 0
                 PROVE  Len(words(FlattenSeq(s))) <= Len(words(mockPrefixText(s)))
    OBVIOUS
  <2>z. PICK n \in Nat : n = 0
    OBVIOUS
  <2>a. s \in Seq(Seq(Bytes)) /\ n = Len(s)
    BY <2>1, <2>z DEF Sentence
  <2>2. PICK f : FlattenSteps(Bytes, s, n, f)
    BY <2>a, FlattenWalk
  <2>3. Len(Padded(s)) = 0 /\ Padded(s) \in Sentence
    BY <2>1, PaddedType
  <2>b. Padded(s) \in Seq(Seq(Bytes)) /\ n = Len(Padded(s))
    BY <2>3, <2>z DEF Sentence
  <2>4. PICK g : FlattenSteps(Bytes, Padded(s), n, g)
    BY <2>b, FlattenWalk
  <2>5. FlattenSeq(s) = mockPrefixText(s)
    BY <2>z, <2>2, <2>4, MockTextType DEF FlattenSteps
  <2>6. Len(words(mockPrefixText(s))) \in Nat
    BY LenProperties, MockTextType, WordsBounded
  <2> QED
    BY <2>5, <2>6
<1>2. ASSUME NEW n \in Nat, n \in S
      PROVE  n + 1 \in S
  <2>1. SUFFICES ASSUME NEW s \in Sentence, Len(s) = n + 1
                 PROVE  Len(words(FlattenSeq(s))) <= Len(words(mockPrefixText(s)))
    OBVIOUS
  <2>2. PICK front \in Sentence, m \in Seq(Bytes) :
          Len(front) = n /\ s = Append(front, m)
    BY <2>1, LastMessage
  <2>3. PICK a \in Seq(Bytes), b \in Seq(Bytes) :
          a = FlattenSeq(front) /\ b = mockPrefixText(front) /\ Closed(b)
    BY FlattenType, MockTextType
  <2>4. Len(words(a)) <= Len(words(b))
    BY <1>2, <2>2, <2>3
  <2>5. Len(words(a \o m)) <= Len(words(b \o m))
    BY <2>3, <2>4, ClosedCountsMore
  <2>6. PICK long \in Seq(Bytes) : long = Append(m, Space)
    <3>1. Space \in Bytes
      BY DEF Bytes
    <3> QED
      BY <3>1, AppendProperties
  <2>7. /\ FlattenSeq(s) = a \o m
        /\ mockPrefixText(s) = b \o long
    BY <2>2, <2>3, <2>6, FlattenAppend, MockTextAppend
  <2>8. PICK v \in Seq(Bytes), w \in Seq(Bytes) : v = b \o m /\ w = b \o long
    BY ConcatProperties
  <2>9. Len(v) <= Len(w) /\ \A i \in 1..Len(v) : w[i] = v[i]
    <3>1. PICK x \in Nat, y \in Nat : x = Len(b) /\ y = Len(m)
      BY LenProperties
    <3>2. Len(long) = y + 1 /\ \A i \in 1..y : long[i] = m[i]
      <4>1. Space \in Bytes
        BY DEF Bytes
      <4> QED
        BY <2>6, <3>1, <4>1, AppendProperties
    <3>3. /\ Len(v) = x + y
          /\ \A i \in 1..(x + y) : v[i] = IF i <= x THEN b[i] ELSE m[i - x]
      BY <2>8, <3>1, ConcatProperties
    <3>4. /\ Len(w) = x + (y + 1)
          /\ \A i \in 1..(x + (y + 1)) : w[i] = IF i <= x THEN b[i] ELSE long[i - x]
      BY <2>8, <3>1, <3>2, ConcatProperties
    <3>5. ASSUME NEW i \in 1..(x + y)
          PROVE  w[i] = v[i]
      <4>1. i \in 1..(x + (y + 1)) /\ (~(i <= x) => i - x \in 1..y)
        OBVIOUS
      <4> QED
        BY <3>2, <3>3, <3>4, <4>1
    <3> QED
      BY <3>3, <3>4, <3>5
  <2>10. Len(words(v)) <= Len(words(w))
    BY <2>9, PrefixKeepsWords
  <2>11. Len(words(a \o m)) \in Nat /\ Len(words(v)) \in Nat /\ Len(words(w)) \in Nat
    <3>1. a \o m \in Seq(Bytes)
      BY ConcatProperties
    <3> QED
      BY <3>1, LenProperties, WordsBounded
  <2> QED
    BY <2>5, <2>7, <2>8, <2>10, <2>11
<1>3. PICK n \in Nat : n = Len(ms)
  BY LenProperties DEF Sentence
<1>4. n \in S
  <2> HIDE DEF S
  <2> QED
    BY <1>1, <1>2, SetInduction
<1> QED
  BY <1>3, <1>4

\* The longest of some lengths, or 0 without any.
LEMMA LongestOf ==
  ASSUME NEW n \in Nat, NEW s \in SUBSET (1..n)
  PROVE  /\ Max({0} \cup s) \in {0} \cup s
         /\ \A l \in s : l <= Max({0} \cup s)
<1>1. \E x \in {0} \cup s : \A y \in {0} \cup s : x >= y
  <2>1. CASE s = {}
    BY <2>1
  <2>2. CASE s # {}
    <3>1. PICK m : m = Max(s)
      OBVIOUS
    <3>2. m \in s /\ \A y \in s : m >= y
      BY <2>2, <3>1, MaxOfRange
    <3>3. m >= 0
      BY <3>2
    <3> QED
      BY <3>2, <3>3
  <2> QED
    BY <2>1, <2>2
<1>2. PICK m : m = Max({0} \cup s)
  OBVIOUS
<1>3. m \in {0} \cup s /\ \A y \in {0} \cup s : m >= y
  BY <1>1, <1>2 DEF Max
<1>4. \A l \in s : l \in Nat /\ m \in Nat /\ m >= l
  BY <1>3
<1> QED
  BY <1>2, <1>3, <1>4

LEMMA CacheLengths ==
  ASSUME NEW n \in Nat
  PROVE  \A l \in cachePrefixLengths : l <= n => l \in 1..n
<1>1. SUFFICES ASSUME NEW l \in cachePrefixLengths, l <= n
               PROVE  l \in 1..n
  OBVIOUS
<1>2. l \in Nat \ {0}
  BY CacheLengthsAssumption
<1> QED
  BY <1>1, <1>2

\* A lookup at the time of the record, or without a time to live, returns the
\* longest print whose hash is there.
LEMMA UnexpiredFound ==
  ASSUME NEW cache, NEW text \in Seq(Bytes), NEW p \in mockPrints(text),
         p.Hash \in DOMAIN cache
  PROVE  p.Length <= Lookup(cache, mockPrints(text), 0, 0).length
<1>1. PICK n \in Nat : n = Len(words(text))
  BY LenProperties, WordsBounded
<1>2. PICK known : known = {q \in mockPrints(text) : q.Hash \in DOMAIN cache}
  OBVIOUS
<1>3. PICK old : old = {q \in known : Expired(cache, q.Hash, 0, 0)}
  OBVIOUS
<1>4. old = {}
  BY <1>3 DEF Expired
<1>5. PICK s : s = {q.Length : q \in known \ old}
  OBVIOUS
<1>6. Lookup(cache, mockPrints(text), 0, 0).length = Max({0} \cup s)
  BY <1>2, <1>3, <1>5 DEF Lookup
<1>7. s \in SUBSET (1..n)
  <2>1. \A q \in mockPrints(text) : q.Length \in cachePrefixLengths /\ q.Length <= n
    BY <1>1, PrintOf DEF mockPrints
  <2>2. \A l \in cachePrefixLengths : l <= n => l \in 1..n
    BY CacheLengths
  <2>3. \A q \in mockPrints(text) : q.Length \in 1..n
    BY <2>1, <2>2
  <2> QED
    BY <1>2, <1>5, <2>3
<1>8. p.Length \in s
  BY <1>2, <1>4, <1>5
<1> QED
  BY <1>6, <1>7, <1>8, LongestOf

LEMMA TurnHits ==
  InputTyped /\ PrefixLengths \subseteq cachePrefixLengths => ContinuationHits
<1> SUFFICES ASSUME InputTyped, PrefixLengths \subseteq cachePrefixLengths,
                    NEW m \in Contents,
                    NEW p \in Prints(messages) \cap Prints(Append(messages, m))
             PROVE  p.Length <=
                      Lookup(Remember(<<>>, mockPrints(mockPrefixText(messages)), 0),
                             mockPrints(mockPrefixText(Append(messages, m))),
                             0, 0).length
  BY DEF ContinuationHits
<1>1. messages \in Sentence /\ m \in Seq(Bytes)
  <2>1. Contents \subseteq Seq(Bytes)
    BY InputsAssumption DEF Bytes
  <2> QED
    BY <2>1, MessagesTyped
<1>2. PICK turn \in Sentence : turn = Append(messages, m)
  BY <1>1, AppendProperties DEF Sentence
<1>3. PICK a \in Seq(Bytes), b \in Seq(Bytes) :
        a = mockPrefixText(messages) /\ b = mockPrefixText(turn) /\ Closed(a)
  BY <1>1, MockTextType
<1>4. PICK v \in Sentence, w \in Sentence : v = words(a) /\ w = words(b)
  BY LenProperties, WordsBounded
<1>5. GoesOn(a, b)
  <2>1. PICK long \in Seq(Bytes) : long = Append(m, Space)
    <3>1. Space \in Bytes
      BY DEF Bytes
    <3> QED
      BY <1>1, <3>1, AppendProperties
  <2>2. b = a \o long
    BY <1>1, <1>2, <1>3, <2>1, MockTextAppend
  <2>3. /\ Len(b) = Len(a) + Len(long)
        /\ \A i \in 1..(Len(a) + Len(long)) :
             b[i] = IF i <= Len(a) THEN a[i] ELSE long[i - Len(a)]
    BY <2>2, ConcatProperties
  <2>4. PICK x \in Nat, y \in Nat : x = Len(a) /\ y = Len(long)
    BY LenProperties
  <2>5. \A i \in 1..x : i \in 1..(x + y) /\ i <= x
    OBVIOUS
  <2>6. \A i \in 1..x : b[i] = a[i]
    BY <2>3, <2>4, <2>5
  <2>7. x <= x + y
    OBVIOUS
  <2> QED
    BY <2>3, <2>4, <2>6, <2>7 DEF GoesOn
<1>6. /\ Len(v) \in Nat /\ Len(w) \in Nat /\ Len(v) <= Len(w)
      /\ \A j \in 1..Len(v) : w[j] = v[j]
  BY <1>3, <1>4, <1>5, LenProperties, PrefixKeepsWords, ClosedKeepsWords
     DEF GoesOn, Sentence
<1>7. PICK l \in PrefixLengths :
        l = p.Length /\ l <= Len(words(PrefixText(messages)))
  BY PrintOf DEF Prints
<1>8. l \in Nat /\ l \in cachePrefixLengths
  BY LengthsAssumption
<1>9. l <= Len(v)
  <2>1. PICK text \in Seq(Bytes), all \in Seq(Bytes) :
          text = PrefixText(messages) /\ all = FlattenSeq(messages)
    BY <1>1, TextType, FlattenType
  <2>2. Len(text) <= Len(all) /\ \A i \in 1..Len(text) : text[i] = all[i]
    BY <1>1, <2>1, TextType
  <2>3. Len(words(text)) <= Len(words(all))
    BY <2>2, PrefixKeepsWords
  <2>4. Len(words(all)) <= Len(v)
    BY <1>1, <1>3, <1>4, <2>1, MockHasMoreWords
  <2>5. Len(words(text)) \in Nat /\ Len(words(all)) \in Nat
    BY LenProperties, WordsBounded
  <2> QED
    BY <1>6, <1>7, <1>8, <2>1, <2>3, <2>4, <2>5
<1>10. PICK hash : hash = SubSeq(v, 1, l)
  OBVIOUS
<1>11. hash = SubSeq(w, 1, l)
  <2>1. l <= Len(w) /\ \A j \in 1..l : v[j] = w[j]
    BY <1>6, <1>8, <1>9
  <2> QED
    BY <1>8, <1>9, <1>10, <2>1, SameHash
<1>12. PICK q : q = [Length |-> l, Hash |-> hash]
  OBVIOUS
<1>13. q.Length = l /\ q.Hash = hash
  BY <1>12
<1>14. q \in mockPrints(a) /\ q \in mockPrints(b)
  <2>1. l <= Len(w)
    BY <1>6, <1>8, <1>9
  <2> QED
    BY <1>4, <1>8, <1>9, <1>10, <1>11, <1>12, <2>1, IsPrint DEF mockPrints
<1>15. PICK cache : cache = Remember(<<>>, mockPrints(a), 0)
  OBVIOUS
<1>16. q.Hash \in DOMAIN cache
  BY <1>14, <1>15 DEF Remember
<1>17. q.Length <= Lookup(cache, mockPrints(b), 0, 0).length
  BY <1>14, <1>16, UnexpiredFound
<1> QED
  BY <1>2, <1>3, <1>7, <1>13, <1>15, <1>17

\* What the router expects the backend of the last turn to know, it knows
\* (ContinuationHits), for any conversation, if the backend keeps prints of all
\* the lengths that the router asks for, as the two lists in the code do.
THEOREM RouterNotTooHopeful ==
  ASSUME PrefixLengths \subseteq cachePrefixLengths
  PROVE  Spec => []ContinuationHits
<1>1. InputTyped => ContinuationHits
  BY TurnHits
<1> QED
  BY <1>1, InputCorrect, PTL

-----------------------------------------------------------------------------
(* The time of a completion *)

\* A completion that waits t for its first token and then d, but sleeps no
\* longer than a in all.
Slept(latency, n, rate, tokens, d, t, a, sim) ==
  /\ d \in Nat /\ t \in Nat /\ a \in Nat
  /\ d = AtLeastZero((IF tokens <= 0 THEN 16 ELSE tokens) * latency.decode)
  /\ t = IF latency.base + n * rate > 0 THEN latency.base + n * rate ELSE 0
  /\ a = IF t + d <= latency.maxSleep THEN t + d
         ELSE IF latency.maxSleep > 0 THEN latency.maxSleep ELSE 0
  /\ sim = [TTFT        |-> IF t <= a THEN t ELSE a,
            DecodeDelay |-> IF a < t THEN 0 ELSE d,
            TotalSleep  |-> a]

LEMMA Sleeps ==
  ASSUME NEW latency \in Latency, NEW n \in Nat, NEW tokens \in Int,
         NEW hit \in BOOLEAN
  PROVE  \E d, t, a :
           Slept(latency, n, IF hit THEN latency.warm ELSE latency.cold, tokens,
                 d, t, a, simulate(latency, n, tokens, hit))
<1>1. /\ latency.base \in Int /\ latency.cold \in Int /\ latency.warm \in Int
      /\ latency.decode \in Int /\ latency.maxSleep \in Int
  BY DEF Latency
<1>2. \A x \in Int : AtLeastZero(x) = IF x > 0 THEN x ELSE 0
  BY DEF AtLeastZero, Max
<1>3. \A x, y \in Int : Min({x, y}) = IF x <= y THEN x ELSE y
  BY DEF Min
<1>4. PICK rate \in Int : rate = IF hit THEN latency.warm ELSE latency.cold
  BY <1>1
<1>5. PICK product \in Int : product = n * rate
  OBVIOUS
<1>6. PICK some \in Nat : some = IF tokens <= 0 THEN 16 ELSE tokens
  OBVIOUS
<1>7. PICK decode \in Int : decode = some * latency.decode
  BY <1>1
<1>8. PICK d \in Nat : d = AtLeastZero(decode) /\ d = IF decode > 0 THEN decode ELSE 0
  BY <1>2
<1>9. PICK ttft \in Nat :
        /\ ttft = AtLeastZero(latency.base + product)
        /\ ttft = IF latency.base + product > 0 THEN latency.base + product ELSE 0
  BY <1>1, <1>2
<1>10. PICK total \in Nat :
         /\ total = AtLeastZero(Min({ttft + d, latency.maxSleep}))
         /\ total = IF ttft + d <= latency.maxSleep THEN ttft + d
                    ELSE IF latency.maxSleep > 0 THEN latency.maxSleep ELSE 0
  <2>1. PICK least \in Int : /\ least = Min({ttft + d, latency.maxSleep})
                             /\ least = IF ttft + d <= latency.maxSleep
                                        THEN ttft + d ELSE latency.maxSleep
    BY <1>1, <1>3
  <2> QED
    BY <1>2, <2>1
<1>11. Min({ttft, total}) = IF ttft <= total THEN ttft ELSE total
  BY <1>3
<1>12. simulate(latency, n, tokens, hit) =
         [TTFT        |-> Min({ttft, total}),
          DecodeDelay |-> DecodeDelay(total, ttft, d),
          TotalSleep  |-> total]
  BY <1>4, <1>5, <1>6, <1>7, <1>8, <1>9, <1>10 DEF simulate
<1> QED
  BY <1>4, <1>5, <1>6, <1>7, <1>8, <1>9, <1>10, <1>11, <1>12
     DEF DecodeDelay, Slept

\* The wait for the first token (t), and the sleep in all (a) with the cap.
Cut(base, cap, wait, d, t, a) ==
  /\ base \in Int /\ cap \in Int /\ wait \in Int
  /\ d \in Nat /\ t \in Nat /\ a \in Nat
  /\ t = IF base + wait > 0 THEN base + wait ELSE 0
  /\ a = IF t + d <= cap THEN t + d ELSE IF cap > 0 THEN cap ELSE 0

\* What is left of a stream.
Streamed(d, t, a) == (IF t <= a THEN t ELSE a) + (IF a < t THEN 0 ELSE d)

\* With the sooner first token (u) the sleep in all (b) is not longer, and
\* neither is that of a stream if the later first token (t) is before the cap.
LEMMA SoonerIsShorter ==
  ASSUME NEW base, NEW cap, NEW c, NEW w, NEW d, NEW t, NEW u, NEW a, NEW b,
         Cut(base, cap, c, d, t, a), Cut(base, cap, w, d, u, b), w <= c
  PROVE  /\ b <= a
         /\ base + c <= cap => Streamed(d, u, b) <= Streamed(d, t, a)
<1>0. /\ base \in Int /\ cap \in Int /\ c \in Int /\ w \in Int
      /\ d \in Nat /\ t \in Nat /\ u \in Nat /\ a \in Nat /\ b \in Nat
      /\ t = IF base + c > 0 THEN base + c ELSE 0
      /\ u = IF base + w > 0 THEN base + w ELSE 0
      /\ a = IF t + d <= cap THEN t + d ELSE IF cap > 0 THEN cap ELSE 0
      /\ b = IF u + d <= cap THEN u + d ELSE IF cap > 0 THEN cap ELSE 0
  BY DEF Cut
<1>1. u <= t
  BY <1>0
<1>2. b <= a
  BY <1>0, <1>1
<1>3. ASSUME base + c <= cap
      PROVE  Streamed(d, u, b) <= Streamed(d, t, a)
  <2>1. t <= a /\ u <= b
    BY <1>0, <1>1, <1>3
  <2> QED
    BY <1>0, <1>1, <2>1 DEF Streamed
<1> QED
  BY <1>2, <1>3

LEMMA WarmIsFaster == InputTyped => WarmSlowerOnlyAtCap
<1> SUFFICES ASSUME InputTyped, kind = "messages",
                    NEW latency \in Latencies, NEW tokens \in TokenLimits,
                    NEW stream \in BOOLEAN,
                    latency.warm <= latency.cold,
                    completion(simulate(latency, Len(words(mockPrefixText(messages))),
                                        tokens, TRUE), stream) >
                    completion(simulate(latency, Len(words(mockPrefixText(messages))),
                                        tokens, FALSE), stream)
             PROVE  stream /\ latency.base + Len(words(mockPrefixText(messages)))
                                * latency.cold > latency.maxSleep
  BY DEF WarmSlowerOnlyAtCap
<1>1. PICK n \in Nat : n = Len(words(mockPrefixText(messages)))
  BY MessagesTyped, MockTextType, LenProperties, WordsBounded
<1>2. latency \in Latency /\ tokens \in Int
  BY InputsAssumption
<1>3. /\ latency.base \in Int /\ latency.cold \in Int /\ latency.warm \in Int
      /\ latency.decode \in Int /\ latency.maxSleep \in Int
  BY <1>2 DEF Latency
<1>4. PICK d, t, a : Slept(latency, n, latency.cold, tokens, d, t, a,
                           simulate(latency, n, tokens, FALSE))
  BY <1>2, Sleeps
<1>5. PICK e, u, b : Slept(latency, n, latency.warm, tokens, e, u, b,
                           simulate(latency, n, tokens, TRUE))
  BY <1>2, Sleeps
<1>6. PICK base \in Int, cap \in Int, c \in Int, w \in Int :
        /\ base = latency.base /\ cap = latency.maxSleep
        /\ c = n * latency.cold /\ w = n * latency.warm /\ w <= c
  <2>1. n * latency.warm <= n * latency.cold
    BY <1>3
  <2> QED
    BY <1>3, <2>1
<1>7. PICK cold, warm : /\ cold = simulate(latency, n, tokens, FALSE)
                        /\ warm = simulate(latency, n, tokens, TRUE)
  OBVIOUS
<1>8. /\ d \in Nat /\ t \in Nat /\ a \in Nat
      /\ t = IF base + c > 0 THEN base + c ELSE 0
      /\ a = IF t + d <= cap THEN t + d ELSE IF cap > 0 THEN cap ELSE 0
      /\ cold = [TTFT        |-> IF t <= a THEN t ELSE a,
                 DecodeDelay |-> IF a < t THEN 0 ELSE d,
                 TotalSleep  |-> a]
  BY <1>4, <1>6, <1>7 DEF Slept
<1>9. /\ e = d /\ u \in Nat /\ b \in Nat
      /\ u = IF base + w > 0 THEN base + w ELSE 0
      /\ b = IF u + d <= cap THEN u + d ELSE IF cap > 0 THEN cap ELSE 0
      /\ warm = [TTFT        |-> IF u <= b THEN u ELSE b,
                 DecodeDelay |-> IF b < u THEN 0 ELSE d,
                 TotalSleep  |-> b]
  <2>1. e = d
    BY <1>4, <1>5 DEF Slept
  <2> QED
    BY <1>5, <1>6, <1>7, <2>1 DEF Slept
<1>10. /\ b <= a
       /\ base + c <= cap => Streamed(d, u, b) <= Streamed(d, t, a)
  <2>1. Cut(base, cap, c, d, t, a) /\ Cut(base, cap, w, d, u, b)
    BY <1>8, <1>9 DEF Cut
  <2> QED
    BY <1>6, <2>1, SoonerIsShorter
<1>11. completion(warm, stream) > completion(cold, stream)
  BY <1>1, <1>7
<1>12. stream
  <2>1. SUFFICES ASSUME ~stream
                 PROVE  FALSE
    OBVIOUS
  <2>2. b > a
    BY <1>8, <1>9, <1>11, <2>1 DEF completion
  <2> QED
    BY <1>8, <1>9, <1>10, <2>2
<1>13. Streamed(d, u, b) > Streamed(d, t, a)
  BY <1>8, <1>9, <1>11, <1>12
  DEF completion, streamCompletion, BetweenChunks, Streamed
<1>14. base + c > cap
  <2>1. Streamed(d, u, b) \in Int /\ Streamed(d, t, a) \in Int
    BY <1>8, <1>9 DEF Streamed
  <2>2. ~(base + c <= cap)
    BY <1>10, <1>13, <2>1
  <2> QED
    BY <1>6, <2>2
<1> QED
  BY <1>1, <1>6, <1>12, <1>14

\* A completion with a hit takes longer than one without only if it is a stream
\* whose cold run is cut before its first token (WarmSlowerOnlyAtCap), for any
\* durations and any prompt.
THEOREM HitsPayOff == Spec => []WarmSlowerOnlyAtCap
  BY InputCorrect, WarmIsFaster, PTL

-----------------------------------------------------------------------------
(* The cache of the mock backend *)

HashesOf(prompt) == {p.Hash : p \in mockPrints(prompt)}

\* What a cache can be: a time for each of some hashes.
Caches == UNION {[D -> Int] : D \in SUBSET UNION {HashesOf(q) : q \in Prompts}}

\* The effect of a call on the cache.
CallStep(ttl, cache, i) ==
  LET prints == mockPrints(calls[i].prompt)
  IN  IF calls[i].op = "Lookup"
      THEN Lookup(cache, prints, TimeOf(i), ttl).cache
      ELSE Remember(cache, prints, TimeOf(i))

CacheSteps(ttl, n, f) ==
  /\ f \in [0..n -> Caches]
  /\ f[0] = <<>>
  /\ CacheAfter(ttl) = f[n]
  /\ \A k \in 0..(n - 1) : f[k + 1] = CallStep(ttl, f[k], k + 1)

\* The sum of the times between some calls.
LEMMA LaterSum ==
  ASSUME NEW list \in Seq(Call),
         NEW n \in Nat, n = Len(list)
  PROVE  \E f \in [0..n -> Int] :
           /\ f[0] = 0 /\ FoldLeft(LAMBDA t, c : t + c.later, 0, list) = f[n]
           /\ \A k \in 0..(n - 1) : f[k + 1] = f[k] + list[k + 1].later
<1> DEFINE g    == [p \in Int \X (1..n) |-> p[1] + list[p[2]].later]
           iter == CHOOSE iter : iter =
                     [s \in SUBSET DOMAIN list |->
                        IF s = {} THEN 0
                        ELSE LET x == Max(s)
                             IN  iter[s \ {x}] + list[x].later]
<1>1. DOMAIN list = 1..n /\ \A i \in 1..n : list[i] \in Call
  BY LenProperties, ElementOfSeq
<1>2. FoldLeft(LAMBDA t, c : t + c.later, 0, list) = iter[1..n]
  BY <1>1 DEF FoldLeft, MapThenFoldSet
<1>3. 0 \in Int
  OBVIOUS
<1>4. ASSUME NEW v \in Int, NEW i \in 1..n
      PROVE  v + list[i].later \in Int
  <2>1. Delays \subseteq Int
    BY InputsAssumption
  <2>2. list[i].later \in Delays
    BY <1>1 DEF Call
  <2>3. PICK d \in Int : d = list[i].later
    BY <2>1, <2>2
  <2>4. v + d \in Int
    OBVIOUS
  <2> QED
    BY <2>3, <2>4
<1>5. g \in [Int \X (1..n) -> Int]
  BY <1>4
<1>6. \A v \in Int, i \in 1..n : g[<<v, i>>] = v + list[i].later
  OBVIOUS
<1> HIDE DEF g
<1>7. Foldable(Int, n, 0, g)
  BY <1>3, <1>5 DEF Foldable
<1>8. PICK h : Solution(Int, n, 0, g, h)
  BY <1>7, SolutionExists
<1>9. h = [s \in SUBSET DOMAIN list |->
             IF s = {} THEN 0
             ELSE LET x == Max(s) IN h[s \ {x}] + list[x].later]
  <2>1. \A s \in SUBSET (1..n) : s # {} =>
          g[<<h[s \ {Max(s)}], Max(s)>>] = h[s \ {Max(s)}] + list[Max(s)].later
    BY <1>6, <1>8, MaxOfRange DEF Solution
  <2> QED
    BY <1>1, <1>8, <2>1 DEF FoldRound, Solution
<1>10. iter = [s \in SUBSET DOMAIN list |->
                 IF s = {} THEN 0
                 ELSE LET x == Max(s) IN iter[s \ {x}] + list[x].later]
  BY <1>9
<1> HIDE DEF iter
<1>11. Satisfies(Int, n, 0, g, iter)
  <2>1. iter[{}] = 0
    BY <1>10
  <2>2. ASSUME NEW s \in SUBSET (1..n), s # {}, iter[s \ {Max(s)}] \in Int
        PROVE  iter[s] = g[<<iter[s \ {Max(s)}], Max(s)>>]
    <3>1. Max(s) \in 1..n
      BY <2>2, MaxOfRange
    <3>2. iter[s] = iter[s \ {Max(s)}] + list[Max(s)].later
      BY <1>1, <1>10, <2>2
    <3> QED
      BY <1>6, <2>2, <3>1, <3>2
  <2> QED
    BY <2>1, <2>2 DEF Satisfies
<1>12. PICK f : Folded(Int, n, 0, g, f) /\ f[n] = iter[1..n]
  BY <1>7, <1>11, FoldedExists
<1>13. \A k \in 0..(n - 1) : f[k + 1] = f[k] + list[k + 1].later
  <2>1. SUFFICES ASSUME NEW k \in 0..(n - 1)
                 PROVE  f[k + 1] = f[k] + list[k + 1].later
    OBVIOUS
  <2>2. f \in [0..n -> Int] /\ f[k + 1] = g[<<f[k], k + 1>>]
    BY <1>12, SMTT(30) DEF Folded
  <2>3. f[k] \in Int /\ k + 1 \in 1..n
    BY <2>2
  <2> QED
    BY <1>6, <2>2, <2>3
<1> QED
  BY <1>2, <1>12, <1>13 DEF Folded

LEMMA TimeType ==
  ASSUME InputTyped, NEW i \in 0..Len(calls)
  PROVE  TimeOf(i) \in Int
<1>1. PICK n \in Nat : n = Len(calls) /\ calls \in Seq(Call)
  BY LenProperties DEF InputTyped
<1>2. PICK first : first = SubSeq(calls, 1, i)
  OBVIOUS
<1>3. i \in Nat /\ \A k \in 1..i : calls[k] \in Call
  BY <1>1, ElementOfSeq
<1>4. first \in Seq(Call) /\ Len(first) \in Nat
  BY <1>2, <1>3, SubSeqProperties, LenProperties
<1>5. PICK m \in Nat : m = Len(first)
  BY <1>4
<1>6. PICK f \in [0..m -> Int] :
        FoldLeft(LAMBDA t, c : t + c.later, 0, first) = f[m]
  BY <1>4, <1>5, LaterSum
<1>7. f[m] \in Int
  OBVIOUS
<1> QED
  BY <1>2, <1>6, <1>7 DEF TimeOf

\* The times of the calls, one after the other.
LEMMA TimesSum ==
  ASSUME InputTyped, NEW n \in Nat, n = Len(calls)
  PROVE  \A k \in 0..(n - 1) : TimeOf(k + 1) = TimeOf(k) + calls[k + 1].later
<1>1. calls \in Seq(Call) /\ \A i \in 1..n : calls[i] \in Call
  BY ElementOfSeq DEF InputTyped
<1>2. PICK f \in [0..n -> Int] :
        /\ f[0] = 0
        /\ \A k \in 0..(n - 1) : f[k + 1] = f[k] + calls[k + 1].later
  BY <1>1, LaterSum
<1>3. ASSUME NEW i \in 0..n
      PROVE  TimeOf(i) = f[i]
  <2>1. PICK first : first = SubSeq(calls, 1, i)
    OBVIOUS
  <2>2. first \in Seq(Call) /\ Len(first) = i
        /\ \A k \in 1..i : first[k] = calls[k]
    BY <1>1, <2>1, SubSeqProperties
  <2>0. PICK l \in Nat : l = i
    OBVIOUS
  <2>3. PICK g \in [0..l -> Int] :
          /\ g[0] = 0 /\ FoldLeft(LAMBDA t, c : t + c.later, 0, first) = g[l]
          /\ \A k \in 0..(l - 1) : g[k + 1] = g[k] + first[k + 1].later
    BY <2>0, <2>2, LaterSum
  <2> DEFINE S == {k \in Nat : k \in 0..i => g[k] = f[k]}
  <2>4. 0 \in S
    BY <1>2, <2>3
  <2>5. ASSUME NEW k \in Nat, k \in S
        PROVE  k + 1 \in S
    <3>1. SUFFICES ASSUME k + 1 \in 0..i
                   PROVE  g[k + 1] = f[k + 1]
      OBVIOUS
    <3>2. k \in 0..i /\ k \in 0..(i - 1) /\ k \in 0..(n - 1) /\ k + 1 \in 1..i
      BY <3>1
    <3>3. g[k] = f[k] /\ first[k + 1] = calls[k + 1]
      BY <2>2, <2>5, <3>2
    <3>4. g[k + 1] = g[k] + first[k + 1].later
      BY <2>0, <2>3, <3>2
    <3>5. f[k + 1] = f[k] + calls[k + 1].later
      BY <1>2, <3>2
    <3> QED
      BY <3>3, <3>4, <3>5
  <2>6. Nat \subseteq S
    <3> HIDE DEF S
    <3> QED
      BY <2>4, <2>5, SetInduction
  <2>7. g[i] = f[i]
    BY <2>6
  <2> QED
    BY <2>0, <2>1, <2>3, <2>7 DEF TimeOf
<1>4. \A k \in 0..(n - 1) : k \in 0..n /\ k + 1 \in 0..n
  OBVIOUS
<1> QED
  BY <1>2, <1>3, <1>4

\* While no call overtakes another, time does not go back.
LEMMA TimeGoesOn ==
  ASSUME InputTyped, \A i \in DOMAIN calls : calls[i].later >= 0,
         NEW n \in Nat, n = Len(calls), NEW i \in 0..n, NEW j \in i..n
  PROVE  TimeOf(i) <= TimeOf(j)
<1>1. DOMAIN calls = 1..n /\ \A k \in 0..n : TimeOf(k) \in Int
  BY LenProperties, TimeType DEF InputTyped
<1>2. \A k \in 1..n : calls[k].later \in Int
  <2>1. \A k \in 1..n : calls[k] \in Call
    BY ElementOfSeq DEF InputTyped
  <2> QED
    BY <2>1, InputsAssumption DEF Call
<1> DEFINE S == {k \in Nat : i + k \in 0..n => TimeOf(i) <= TimeOf(i + k)}
<1>3. 0 \in S
  <2>1. i + 0 = i /\ TimeOf(i) \in Int
    BY <1>1
  <2>2. PICK t \in Int : t = TimeOf(i)
    BY <2>1
  <2>3. t <= t
    OBVIOUS
  <2> QED
    BY <2>1, <2>2, <2>3
<1>4. ASSUME NEW k \in Nat, k \in S
      PROVE  k + 1 \in S
  <2>1. SUFFICES ASSUME i + (k + 1) \in 0..n
                 PROVE  TimeOf(i) <= TimeOf(i + (k + 1))
    OBVIOUS
  <2>2. PICK m \in Nat : m = i + k
    OBVIOUS
  <2>3. m \in 0..n /\ m \in 0..(n - 1) /\ m + 1 \in 1..n /\ i + (k + 1) = m + 1
    BY <2>1, <2>2
  <2>4. TimeOf(i) <= TimeOf(m)
    BY <1>4, <2>2, <2>3
  <2>5. TimeOf(m + 1) = TimeOf(m) + calls[m + 1].later
    BY <2>3, TimesSum
  <2>6. calls[m + 1].later >= 0 /\ calls[m + 1].later \in Int
    BY <1>1, <1>2, <2>3
  <2>7. TimeOf(i) \in Int /\ TimeOf(m) \in Int
    BY <1>1, <2>3
  <2>8. PICK t \in Int, u \in Int, d \in Int :
          t = TimeOf(i) /\ u = TimeOf(m) /\ d = calls[m + 1].later
    BY <2>6, <2>7
  <2>9. t <= u + d
    BY <2>4, <2>6, <2>8
  <2> QED
    BY <2>3, <2>5, <2>8, <2>9
<1>5. Nat \subseteq S
  <2> HIDE DEF S
  <2> QED
    BY <1>3, <1>4, SetInduction
<1>6. PICK k \in Nat : k = j - i /\ i + k = j
  OBVIOUS
<1> QED
  BY <1>5, <1>6

LEMMA CallTyped ==
  ASSUME InputTyped, NEW i \in DOMAIN calls
  PROVE  calls[i].op \in {"Lookup", "Remember"} /\ calls[i].prompt \in Prompts
<1>1. calls \in Seq(Call)
  BY DEF InputTyped
<1>2. calls[i] \in Call
  BY <1>1, ElementOfSeq, LenProperties
<1> QED
  BY <1>2 DEF Call

Recorded(h, i) == calls[i].op = "Remember" /\ h \in HashesOf(calls[i].prompt)

\* A call records the hashes of a prompt, or drops some that are too old by its
\* clock.
LEMMA CallStepEffect ==
  ASSUME InputTyped, NEW ttl, NEW cache, NEW i \in DOMAIN calls,
         NEW next, next = CallStep(ttl, cache, i)
  PROVE  /\ next = [h \in DOMAIN next |-> next[h]]
         /\ \A h : Recorded(h, i) => h \in DOMAIN next /\ next[h] = TimeOf(i)
         /\ \A h \in DOMAIN next : ~Recorded(h, i) =>
              h \in DOMAIN cache /\ next[h] = cache[h]
         /\ \A h \in DOMAIN cache :
              ~Recorded(h, i) /\ ~(ttl > 0 /\ TimeOf(i) - cache[h] > ttl) =>
                h \in DOMAIN next /\ next[h] = cache[h]
<1>1. calls[i].op \in {"Lookup", "Remember"}
  BY CallTyped
<1>2. CASE calls[i].op = "Lookup"
  <2>1. PICK known : known = {p \in mockPrints(calls[i].prompt) :
                                p.Hash \in DOMAIN cache}
    OBVIOUS
  <2>2. PICK old : old = {p \in known : Expired(cache, p.Hash, TimeOf(i), ttl)}
    OBVIOUS
  <2>3. PICK kept : kept = DOMAIN cache \ {p.Hash : p \in old}
    OBVIOUS
  <2>4. next = Restrict(cache, kept)
    BY <1>2, <2>1, <2>2, <2>3 DEF CallStep, Lookup
  <2>5. next = [h \in kept |-> cache[h]]
    BY <2>4 DEF Restrict
  <2>6. \A h \in DOMAIN cache :
          ~(ttl > 0 /\ TimeOf(i) - cache[h] > ttl) => h \in kept
    BY <2>2, <2>3 DEF Expired
  <2> QED
    BY <1>2, <2>3, <2>5, <2>6 DEF Recorded
<1>3. CASE calls[i].op = "Remember"
  <2>1. PICK seen : seen = HashesOf(calls[i].prompt)
    OBVIOUS
  <2>2. next = [h \in DOMAIN cache \cup seen |->
                  IF h \in seen THEN TimeOf(i) ELSE cache[h]]
    BY <1>3, <2>1 DEF CallStep, Remember, HashesOf
  <2>3. \A h : Recorded(h, i) <=> h \in seen
    BY <1>3, <2>1 DEF Recorded
  <2> QED
    BY <2>2, <2>3
<1> QED
  BY <1>1, <1>2, <1>3

LEMMA NoCache == <<>> \in Caches
<1>1. <<>> \in Seq({}) /\ Len(<<>>) = 0
  BY EmptySeq
<1>2. <<>> \in [1..0 -> {}]
  BY <1>1, LenProperties
<1>3. 1..0 = {}
  OBVIOUS
<1>4. <<>> \in [{} -> Int]
  BY <1>2, <1>3
<1> QED
  BY <1>4 DEF Caches

LEMMA CallStepType ==
  ASSUME InputTyped, NEW ttl, NEW cache \in Caches, NEW i \in DOMAIN calls
  PROVE  CallStep(ttl, cache, i) \in Caches
<1>1. PICK next : next = CallStep(ttl, cache, i)
  OBVIOUS
<1>2. calls[i].prompt \in Prompts
  BY CallTyped
<1>3. PICK H : H = UNION {HashesOf(q) : q \in Prompts}
  OBVIOUS
<1>4. PICK D \in SUBSET H : cache \in [D -> Int]
  BY <1>3 DEF Caches
<1>5. TimeOf(i) \in Int
  <2>1. i \in 0..Len(calls)
    BY LenProperties DEF InputTyped
  <2> QED
    BY <2>1, TimeType
<1>6. \A h : Recorded(h, i) => h \in H
  BY <1>2, <1>3 DEF Recorded
<1>7. next = [h \in DOMAIN next |-> next[h]]
      /\ \A h \in DOMAIN next : h \in H /\ next[h] \in Int
  BY <1>1, <1>4, <1>5, <1>6, CallStepEffect
<1>8. next \in [DOMAIN next -> Int] /\ DOMAIN next \in SUBSET H
  BY <1>7
<1> QED
  BY <1>1, <1>3, <1>8 DEF Caches

\* The cache after some calls: f[k] after k of them.
LEMMA CacheWalk ==
  ASSUME InputTyped, NEW ttl, NEW n \in Nat, n = Len(calls)
  PROVE  \E f : CacheSteps(ttl, n, f)
<1> DEFINE g    == [p \in Caches \X (1..n) |->
                     CallStep(ttl, p[1], Index(calls)[p[2]])]
           iter == CHOOSE iter : iter =
                     [s \in SUBSET DOMAIN Index(calls) |->
                        IF s = {} THEN <<>>
                        ELSE LET x == Max(s)
                             IN  CallStep(ttl, iter[s \ {x}], Index(calls)[x])]
<1>1. DOMAIN Index(calls) = 1..n /\ \A k \in 1..n : Index(calls)[k] = k
      /\ DOMAIN calls = 1..n
  BY LenProperties DEF Index, InputTyped
<1>2. CacheAfter(ttl) = iter[1..n]
  BY <1>1 DEF CacheAfter, CallStep, Index, FoldLeft, MapThenFoldSet
<1>3. <<>> \in Caches
  BY NoCache
<1>4. ASSUME NEW v \in Caches, NEW i \in 1..n
      PROVE  CallStep(ttl, v, Index(calls)[i]) \in Caches
  BY <1>1, CallStepType
<1>5. g \in [Caches \X (1..n) -> Caches]
  BY <1>4
<1>6. \A v \in Caches, i \in 1..n : g[<<v, i>>]
          = CallStep(ttl, v, Index(calls)[i])
  OBVIOUS
<1> HIDE DEF g
<1>7. Foldable(Caches, n, <<>>, g)
  BY <1>3, <1>5 DEF Foldable
<1>8. PICK h : Solution(Caches, n, <<>>, g, h)
  BY <1>7, SolutionExists
<1>9. h = [s \in SUBSET DOMAIN Index(calls) |->
             IF s = {} THEN <<>>
             ELSE LET x == Max(s) IN CallStep(ttl, h[s \ {x}], Index(calls)[x])]
  <2>1. \A s \in SUBSET (1..n) : s # {} =>
          g[<<h[s \ {Max(s)}], Max(s)>>]
            = CallStep(ttl, h[s \ {Max(s)}], Index(calls)[Max(s)])
    BY <1>6, <1>8, MaxOfRange DEF Solution
  <2> QED
    BY <1>1, <1>8, <2>1 DEF FoldRound, Solution
<1>10. iter = [s \in SUBSET DOMAIN Index(calls) |->
                 IF s = {} THEN <<>>
                 ELSE LET x == Max(s) IN CallStep(ttl, iter[s \ {x}], Index(calls)[x])]
  BY <1>9
<1> HIDE DEF iter
<1>11. Satisfies(Caches, n, <<>>, g, iter)
  <2>1. iter[{}] = <<>>
    BY <1>10
  <2>2. ASSUME NEW s \in SUBSET (1..n), s # {}, iter[s \ {Max(s)}] \in Caches
        PROVE  iter[s] = g[<<iter[s \ {Max(s)}], Max(s)>>]
    <3>1. Max(s) \in 1..n
      BY <2>2, MaxOfRange
    <3>2. iter[s] = CallStep(ttl, iter[s \ {Max(s)}], Index(calls)[Max(s)])
      BY <1>1, <1>10, <2>2
    <3> QED
      BY <1>6, <2>2, <3>1, <3>2
  <2> QED
    BY <2>1, <2>2 DEF Satisfies
<1>12. PICK f : Folded(Caches, n, <<>>, g, f) /\ f[n] = iter[1..n]
  BY <1>7, <1>11, FoldedExists
<1>13. \A k \in 0..(n - 1) : f[k + 1] = CallStep(ttl, f[k], k + 1)
  <2>1. SUFFICES ASSUME NEW k \in 0..(n - 1)
                 PROVE  f[k + 1] = CallStep(ttl, f[k], k + 1)
    OBVIOUS
  <2>2. f[k] \in Caches /\ k + 1 \in 1..n /\ f[k + 1] = g[<<f[k], k + 1>>]
    BY <1>12, SMTT(30) DEF Folded
  <2> QED
    BY <1>1, <1>6, <2>2
<1> QED
  BY <1>2, <1>12, <1>13 DEF Folded, CacheSteps

\* Every time in the cache is that of a record of its hash. The last record of
\* a hash is there unless somebody's clock has left it behind.
Known(cache, k) ==
  \A h \in DOMAIN cache : \E i \in 1..k : Recorded(h, i) /\ cache[h] = TimeOf(i)

Kept(cache, k, ttl, latest) ==
  \A h, r : /\ r \in 1..k /\ Recorded(h, r)
            /\ \A i \in (r + 1)..k : ~Recorded(h, i)
            /\ (ttl > 0 => latest - TimeOf(r) <= ttl)
            => h \in DOMAIN cache /\ cache[h] = TimeOf(r)

Latest(n, t) == t \in Int /\ \A i \in 0..n : TimeOf(i) <= t

LEMMA CacheHolds ==
  ASSUME InputTyped, NEW ttl, ttl \in Int, NEW n, n \in Nat, n = Len(calls),
         NEW latest, Latest(n, latest), NEW f, CacheSteps(ttl, n, f)
  PROVE  Known(f[n], n) /\ Kept(f[n], n, ttl, latest)
<1>1. /\ f[0] = <<>>
      /\ \A k \in 0..(n - 1) : f[k + 1] = CallStep(ttl, f[k], k + 1)
  BY DEF CacheSteps
<1>2. DOMAIN calls = 1..n /\ \A i \in 0..n : TimeOf(i) \in Int
  BY LenProperties, TimeType DEF InputTyped
<1> DEFINE S == {k \in Nat : k <= n => Known(f[k], k) /\ Kept(f[k], k, ttl, latest)}
<1>3. 0 \in S
  <2>1. DOMAIN f[0] = {}
    <3>1. <<>> \in Seq({}) /\ Len(<<>>) = 0 /\ 1..0 = {}
      BY EmptySeq
    <3> QED
      BY <1>1, <3>1, LenProperties
  <2>2. Known(f[0], 0)
    BY <2>1 DEF Known
  <2>3. Kept(f[0], 0, ttl, latest)
    BY DEF Kept
  <2> QED
    BY <2>2, <2>3
<1>4. ASSUME NEW k \in Nat, k \in S
      PROVE  k + 1 \in S
  <2>1. SUFFICES ASSUME k + 1 <= n
                 PROVE  Known(f[k + 1], k + 1) /\ Kept(f[k + 1], k + 1, ttl, latest)
    OBVIOUS
  <2>2. /\ k \in 0..(n - 1) /\ k + 1 \in DOMAIN calls /\ k + 1 \in 0..n
        /\ k + 1 \in Nat
    BY <1>2, <2>1
  <2>3. Known(f[k], k) /\ Kept(f[k], k, ttl, latest)
    BY <1>4, <2>1
  <2>4. PICK cache, next : cache = f[k] /\ next = f[k + 1]
    OBVIOUS
  <2>5. next = CallStep(ttl, cache, k + 1)
    BY <1>1, <2>2, <2>4
  <2>6. /\ \A h : Recorded(h, k + 1) => h \in DOMAIN next /\ next[h] = TimeOf(k + 1)
        /\ \A h \in DOMAIN next : ~Recorded(h, k + 1) =>
             h \in DOMAIN cache /\ next[h] = cache[h]
        /\ \A h \in DOMAIN cache :
             ~Recorded(h, k + 1)
             /\ ~(ttl > 0 /\ TimeOf(k + 1) - cache[h] > ttl) =>
               h \in DOMAIN next /\ next[h] = cache[h]
    BY <2>2, <2>5, CallStepEffect
  <2>7. Known(f[k + 1], k + 1)
    <3>1. SUFFICES ASSUME NEW h \in DOMAIN next
                   PROVE  \E i \in 1..(k + 1) :
                            Recorded(h, i) /\ next[h] = TimeOf(i)
      BY <2>4 DEF Known
    <3>2. CASE Recorded(h, k + 1)
      <4>1. k + 1 \in 1..(k + 1)
        OBVIOUS
      <4> QED
        BY <2>6, <3>2, <4>1
    <3>3. CASE ~Recorded(h, k + 1)
      <4>1. h \in DOMAIN cache /\ next[h] = cache[h]
        BY <2>6, <3>1, <3>3
      <4>2. PICK i \in 1..k : Recorded(h, i) /\ cache[h] = TimeOf(i)
        BY <2>3, <2>4, <4>1 DEF Known
      <4>3. i \in 1..(k + 1)
        OBVIOUS
      <4> QED
        BY <4>1, <4>2, <4>3
    <3> QED
      BY <3>2, <3>3
  <2>8. Kept(f[k + 1], k + 1, ttl, latest)
    <3>1. SUFFICES ASSUME NEW h, NEW r \in 1..(k + 1), Recorded(h, r),
                          \A i \in (r + 1)..(k + 1) : ~Recorded(h, i),
                          ttl > 0 => latest - TimeOf(r) <= ttl
                   PROVE  h \in DOMAIN next /\ next[h] = TimeOf(r)
      BY <2>4 DEF Kept
    <3>2. CASE r = k + 1
      BY <2>6, <3>1, <3>2
    <3>3. CASE r # k + 1
      <4>1. /\ r \in 1..k /\ k + 1 \in (r + 1)..(k + 1)
            /\ \A i \in (r + 1)..k : i \in (r + 1)..(k + 1)
        BY <3>3
      <4>2. h \in DOMAIN cache /\ cache[h] = TimeOf(r)
        BY <2>3, <2>4, <3>1, <4>1 DEF Kept
      <4>3. ~(ttl > 0 /\ TimeOf(k + 1) - TimeOf(r) > ttl)
        <5>1. PICK t \in Int, u \in Int : t = TimeOf(k + 1) /\ u = TimeOf(r)
          <6>1. r \in 0..n
            BY <2>1, <4>1
          <6> QED
            BY <1>2, <2>2, <6>1
        <5>2. t <= latest /\ latest \in Int
          BY <2>2, <5>1 DEF Latest
        <5> QED
          BY <3>1, <5>1, <5>2
      <4> QED
        BY <2>6, <3>1, <4>1, <4>2, <4>3
    <3> QED
      BY <3>2, <3>3
  <2> QED
    BY <2>7, <2>8
<1>5. n \in S
  <2> HIDE DEF S
  <2> QED
    BY <1>3, <1>4, SetInduction
<1> QED
  BY <1>5

\* Some time is the latest.
LEMMA LatestOf ==
  ASSUME NEW n \in Nat, NEW T \in [0..n -> Int]
  PROVE  \E i \in 0..n : \A j \in 0..n : T[j] <= T[i]
<1> DEFINE S == {k \in Nat : k <= n =>
                   \E i \in 0..k : \A j \in 0..k : T[j] <= T[i]}
<1>1. 0 \in S
  OBVIOUS
<1>2. ASSUME NEW k \in Nat, k \in S
      PROVE  k + 1 \in S
  <2>1. SUFFICES ASSUME k + 1 <= n
                 PROVE  \E i \in 0..(k + 1) : \A j \in 0..(k + 1) : T[j] <= T[i]
    OBVIOUS
  <2>2. PICK i \in 0..k : \A j \in 0..k : T[j] <= T[i]
    BY <1>2, <2>1
  <2>3. \A j \in 0..(k + 1) : j \in 0..k \/ j = k + 1
    OBVIOUS
  <2>4. T[i] \in Int /\ T[k + 1] \in Int /\ \A j \in 0..k : T[j] \in Int
    BY <2>1
  <2>5. CASE T[k + 1] <= T[i]
    <3>1. i \in 0..(k + 1) /\ \A j \in 0..(k + 1) : T[j] <= T[i]
      BY <2>2, <2>3, <2>5
    <3> QED
      BY <3>1
  <2>6. CASE T[i] <= T[k + 1]
    <3>1. \A j \in 0..(k + 1) : T[j] <= T[k + 1]
      BY <2>2, <2>3, <2>4, <2>6
    <3> QED
      BY <3>1
  <2> QED
    BY <2>4, <2>5, <2>6
<1>3. n \in S
  <2> HIDE DEF S
  <2> QED
    BY <1>1, <1>2, SetInduction
<1> QED
  BY <1>3

\* A hash determines its print.
LEMMA SamePrint ==
  ASSUME NEW a \in Seq(Bytes), NEW b \in Seq(Bytes), NEW p \in mockPrints(a),
         p.Hash \in HashesOf(b)
  PROVE  p \in mockPrints(b)
<1>1. PICK q \in mockPrints(b) : q.Hash = p.Hash
  BY DEF HashesOf
<1>2. ASSUME NEW text \in Seq(Bytes), NEW r \in mockPrints(text)
      PROVE  /\ Len(r.Hash) = r.Length
             /\ r = [Length |-> r.Length, Hash |-> r.Hash]
  <2>1. PICK w \in Sentence : w = words(text) /\ Len(w) \in Nat
    BY LenProperties, WordsBounded
  <2>2. PICK l \in cachePrefixLengths :
          /\ l = r.Length /\ l <= Len(w)
          /\ r = [Length |-> l, Hash |-> SubSeq(w, 1, l)]
    BY <2>1, PrintOf DEF mockPrints
  <2>3. l \in Nat /\ \A i \in 1..l : w[i] \in Seq(Bytes)
    <3>1. l \in Nat
      BY CacheLengthsAssumption
    <3>2. \A i \in 1..l : i \in 1..Len(w)
      BY <2>1, <2>2, <3>1
    <3> QED
      BY <3>1, <3>2, ElementOfSeq DEF Sentence
  <2>4. Len(SubSeq(w, 1, l)) = IF 1 <= l THEN l - 1 + 1 ELSE 0
    BY <2>3, SubSeqProperties
  <2>5. Len(SubSeq(w, 1, l)) = l
    BY <2>3, <2>4
  <2>6. PICK hash : hash = SubSeq(w, 1, l)
    OBVIOUS
  <2>7. r = [Length |-> l, Hash |-> hash]
    BY <2>2, <2>6
  <2>8. r.Hash = hash
    BY <2>7
  <2> QED
    BY <2>2, <2>5, <2>6, <2>7, <2>8
<1>3. p.Length = q.Length
  BY <1>1, <1>2
<1>4. p = q
  BY <1>1, <1>2, <1>3
<1> QED
  BY <1>4

\* The prints that a lookup should and may find.
Records(p) ==
  {i \in DOMAIN calls : /\ calls[i].op = "Remember"
                        /\ p \in mockPrints(calls[i].prompt)}

Fresh(ttl, prompt) ==
  {p \in mockPrints(prompt) :
     /\ Records(p) # {}
     /\ ttl > 0 => Max({TimeOf(i) : i \in 0..Len(calls)})
                     - TimeOf(Max(Records(p))) <= ttl}

NotStale(ttl, prompt) ==
  {p \in mockPrints(prompt) : \E i \in Records(p) :
     ttl > 0 => TimeOf(Len(calls)) - TimeOf(i) <= ttl}

Longest(ps) == Max({0} \cup {p.Length : p \in ps})

\* The prints that a lookup does find.
Alive(cache, prompt, now, ttl) ==
  {p \in mockPrints(prompt) :
     p.Hash \in DOMAIN cache /\ ~Expired(cache, p.Hash, now, ttl)}

LEMMA LookupIsLongest ==
  ASSUME NEW cache, NEW prompt, NEW now, NEW ttl
  PROVE  Lookup(cache, mockPrints(prompt), now, ttl).length
           = Longest(Alive(cache, prompt, now, ttl))
<1>1. PICK known : known = {p \in mockPrints(prompt) : p.Hash \in DOMAIN cache}
  OBVIOUS
<1>2. PICK old : old = {p \in known : Expired(cache, p.Hash, now, ttl)}
  OBVIOUS
<1>3. known \ old = Alive(cache, prompt, now, ttl)
  BY <1>1, <1>2 DEF Alive
<1>4. Lookup(cache, mockPrints(prompt), now, ttl).length
        = Max({0} \cup {p.Length : p \in known \ old})
  BY <1>1, <1>2 DEF Lookup
<1> QED
  BY <1>3, <1>4 DEF Longest

LEMMA LongestOfMore ==
  ASSUME NEW text \in Seq(Bytes), NEW some \in SUBSET mockPrints(text),
         NEW more \in SUBSET mockPrints(text), some \subseteq more
  PROVE  Longest(some) <= Longest(more)
<1>1. PICK n \in Nat : n = Len(words(text))
  BY LenProperties, WordsBounded
<1>2. \A q \in mockPrints(text) : q.Length \in 1..n
  <2>1. \A q \in mockPrints(text) : q.Length \in cachePrefixLengths /\ q.Length <= n
    BY <1>1, PrintOf DEF mockPrints
  <2>2. \A l \in cachePrefixLengths : l <= n => l \in 1..n
    BY CacheLengths
  <2> QED
    BY <2>1, <2>2
<1>3. PICK s, t : s = {p.Length : p \in some} /\ t = {p.Length : p \in more}
  OBVIOUS
<1>s. s \subseteq t /\ s \in SUBSET (1..n) /\ t \in SUBSET (1..n)
  BY <1>2, <1>3
<1>4. PICK x : x = Max({0} \cup s)
  OBVIOUS
<1>5. PICK y : y = Max({0} \cup t)
  OBVIOUS
<1>6. x \in {0} \cup s
  BY <1>s, <1>4, LongestOf
<1>7. y \in {0} \cup t /\ \A l \in t : l <= y
  BY <1>s, <1>5, LongestOf
<1>8. x <= y
  BY <1>s, <1>6, <1>7
<1> QED
  BY <1>3, <1>4, <1>5, <1>8 DEF Longest

LEMMA LookupsExact == InputTyped => MockLookupExact
<1> SUFFICES ASSUME InputTyped, NEW ttl \in TTLs, NEW prompt \in Prompts
             PROVE  /\ Longest(Fresh(ttl, prompt)) <=
                         Lookup(CacheAfter(ttl), mockPrints(prompt),
                                TimeOf(Len(calls)), ttl).length
                    /\ Lookup(CacheAfter(ttl), mockPrints(prompt),
                              TimeOf(Len(calls)), ttl).length <=
                         Longest(NotStale(ttl, prompt))
                    /\ (\A i \in DOMAIN calls : calls[i].later >= 0) =>
                         Lookup(CacheAfter(ttl), mockPrints(prompt),
                                TimeOf(Len(calls)), ttl).length =
                           Longest(NotStale(ttl, prompt))
  BY DEF MockLookupExact, Longest, Fresh, NotStale, Records
<1>1. ttl \in Int /\ prompt \in Seq(Bytes) /\ Prompts \subseteq Seq(Bytes)
  BY InputsAssumption DEF Bytes
<1>2. PICK n \in Nat : n = Len(calls) /\ DOMAIN calls = 1..n
  BY LenProperties DEF InputTyped
<1>3. \A i \in 0..n : TimeOf(i) \in Int
  BY <1>2, TimeType
<1>4. PICK latest \in Int : /\ latest = Max({TimeOf(i) : i \in 0..n})
                            /\ latest \in {TimeOf(i) : i \in 0..n}
                            /\ \A i \in 0..n : TimeOf(i) <= latest
  <2>1. PICK T \in [0..n -> Int] : T = [i \in 0..n |-> TimeOf(i)]
    BY <1>3
  <2>2. PICK i \in 0..n : \A j \in 0..n : T[j] <= T[i]
    BY <2>1, LatestOf
  <2>3. PICK times : times = {TimeOf(j) : j \in 0..n}
    OBVIOUS
  <2>4. T[i] \in times /\ \A x \in times : x \in Int /\ T[i] >= x
    BY <1>3, <2>1, <2>2, <2>3
  <2>5. PICK x : x = Max(times)
    OBVIOUS
  <2>6. x \in times /\ \A y \in times : x >= y
    BY <2>4, <2>5 DEF Max
  <2>7. x \in Int /\ \A j \in 0..n : TimeOf(j) <= x
    <3>1. \A j \in 0..n : TimeOf(j) \in times
      BY <2>3
    <3> QED
      BY <2>4, <2>6, <3>1
  <2> QED
    BY <2>3, <2>5, <2>6, <2>7
<1>5. PICK f : CacheSteps(ttl, n, f)
  BY <1>2, CacheWalk
<1>6. PICK cache : cache = f[n] /\ CacheAfter(ttl) = cache
  BY <1>5 DEF CacheSteps
<1>7. Known(cache, n) /\ Kept(cache, n, ttl, latest)
  <2>1. Latest(n, latest)
    BY <1>4 DEF Latest
  <2> QED
    BY <1>1, <1>2, <1>5, <1>6, <2>1, CacheHolds
<1>8. PICK now \in Int : now = TimeOf(Len(calls)) /\ now <= latest
  <2>1. n \in 0..n
    OBVIOUS
  <2> QED
    BY <1>2, <1>3, <1>4, <2>1
<1>9. PICK alive : alive = Alive(cache, prompt, now, ttl)
  OBVIOUS
<1>10. \A p \in mockPrints(prompt), i \in 1..n :
         i \in Records(p) <=> Recorded(p.Hash, i)
  <2>1. SUFFICES ASSUME NEW p \in mockPrints(prompt), NEW i \in 1..n
                 PROVE  i \in Records(p) <=> Recorded(p.Hash, i)
    OBVIOUS
  <2>2. calls[i].prompt \in Seq(Bytes)
    BY <1>1, <1>2, CallTyped
  <2>3. p.Hash \in HashesOf(calls[i].prompt) <=> p \in mockPrints(calls[i].prompt)
    <3>1. p \in mockPrints(calls[i].prompt) => p.Hash \in HashesOf(calls[i].prompt)
      BY DEF HashesOf
    <3>2. p.Hash \in HashesOf(calls[i].prompt) => p \in mockPrints(calls[i].prompt)
      BY <1>1, <2>2, SamePrint
    <3> QED
      BY <3>1, <3>2
  <2> QED
    BY <1>2, <2>3 DEF Records, Recorded
<1>11. alive \subseteq NotStale(ttl, prompt)
  <2>1. SUFFICES ASSUME NEW p \in alive
                 PROVE  p \in NotStale(ttl, prompt)
    OBVIOUS
  <2>2. /\ p \in mockPrints(prompt) /\ p.Hash \in DOMAIN cache
        /\ ~(ttl > 0 /\ now - cache[p.Hash] > ttl)
    BY <1>9, <2>1 DEF Alive, Expired
  <2>3. PICK i \in 1..n : Recorded(p.Hash, i) /\ cache[p.Hash] = TimeOf(i)
    BY <1>7, <2>2 DEF Known
  <2>4. i \in Records(p)
    BY <1>10, <2>2, <2>3
  <2>5. PICK t \in Int : t = TimeOf(i)
    <3>1. i \in 0..n
      OBVIOUS
    <3> QED
      BY <1>3, <3>1
  <2>6. ttl > 0 => now - TimeOf(i) <= ttl
    BY <1>1, <2>2, <2>3, <2>5
  <2> QED
    BY <1>8, <2>2, <2>4, <2>6 DEF NotStale
<1>12. Fresh(ttl, prompt) \subseteq alive
  <2>1. SUFFICES ASSUME NEW p \in Fresh(ttl, prompt)
                 PROVE  p \in alive
    OBVIOUS
  <2>2. PICK rs : rs = Records(p)
    OBVIOUS
  <2>3. PICK r : r = Max(rs)
    OBVIOUS
  <2>4. /\ p \in mockPrints(prompt) /\ rs # {}
        /\ ttl > 0 => latest - TimeOf(r) <= ttl
    BY <1>2, <1>4, <2>1, <2>2, <2>3 DEF Fresh
  <2>5. rs \in SUBSET (1..n)
    BY <1>2, <2>2 DEF Records
  <2>6. r \in rs /\ \A i \in rs : r >= i
    BY <2>3, <2>4, <2>5, MaxOfRange
  <2>7. r \in 1..n /\ Recorded(p.Hash, r)
    BY <1>10, <2>2, <2>4, <2>5, <2>6
  <2>8. \A i \in (r + 1)..n : ~Recorded(p.Hash, i)
    <3>1. SUFFICES ASSUME NEW i \in (r + 1)..n, Recorded(p.Hash, i)
                   PROVE  FALSE
      OBVIOUS
    <3>2. i \in 1..n /\ ~(r >= i)
      BY <2>7
    <3> QED
      BY <1>10, <2>2, <2>4, <2>6, <3>1, <3>2
  <2>9. p.Hash \in DOMAIN cache /\ cache[p.Hash] = TimeOf(r)
    BY <1>7, <2>4, <2>7, <2>8 DEF Kept
  <2>10. PICK t \in Int : t = TimeOf(r)
    <3>1. r \in 0..n
      BY <2>7
    <3> QED
      BY <1>3, <3>1
  <2>11. ~(ttl > 0 /\ now - t > ttl)
    BY <1>1, <1>8, <2>4, <2>10
  <2> QED
    BY <1>9, <2>4, <2>9, <2>10, <2>11 DEF Alive, Expired
<1>13. Lookup(CacheAfter(ttl), mockPrints(prompt), TimeOf(Len(calls)), ttl).length
         = Longest(alive)
  BY <1>6, <1>8, <1>9, LookupIsLongest
<1>14. /\ alive \in SUBSET mockPrints(prompt)
       /\ Fresh(ttl, prompt) \in SUBSET mockPrints(prompt)
       /\ NotStale(ttl, prompt) \in SUBSET mockPrints(prompt)
  BY <1>9 DEF Alive, Fresh, NotStale
<1>15. /\ Longest(Fresh(ttl, prompt)) <= Longest(alive)
       /\ Longest(alive) <= Longest(NotStale(ttl, prompt))
  BY <1>1, <1>11, <1>12, <1>14, LongestOfMore
<1>16. ASSUME \A i \in DOMAIN calls : calls[i].later >= 0
       PROVE  alive = NotStale(ttl, prompt)
  <2>1. latest <= now
    <3>1. PICK i \in 0..n : latest = TimeOf(i)
      BY <1>4
    <3>2. n \in i..n
      OBVIOUS
    <3> QED
      BY <1>2, <1>8, <1>16, <3>1, <3>2, TimeGoesOn
  <2>2. SUFFICES ASSUME NEW p \in NotStale(ttl, prompt)
                 PROVE  p \in Fresh(ttl, prompt)
    BY <1>11, <1>12
  <2>3. PICK rs : rs = Records(p)
    OBVIOUS
  <2>4. PICK i \in rs : /\ p \in mockPrints(prompt)
                        /\ ttl > 0 => now - TimeOf(i) <= ttl
    BY <1>8, <2>2, <2>3 DEF NotStale
  <2>5. rs \in SUBSET (1..n) /\ rs # {}
    BY <1>2, <2>3, <2>4 DEF Records
  <2>6. PICK r \in 1..n : r = Max(rs) /\ r >= i
    BY <2>4, <2>5, MaxOfRange
  <2>7. PICK k \in 1..n : k = i
    BY <2>4, <2>5
  <2>8. TimeOf(k) <= TimeOf(r) /\ TimeOf(k) \in Int /\ TimeOf(r) \in Int
    <3>1. k \in 0..n /\ r \in k..n /\ r \in 0..n
      BY <2>6, <2>7
    <3> QED
      BY <1>2, <1>3, <1>16, <3>1, TimeGoesOn
  <2>9. PICK t \in Int, u \in Int : t = TimeOf(k) /\ u = TimeOf(r) /\ t <= u
    BY <2>8
  <2>10. ttl > 0 => latest - u <= ttl
    BY <1>1, <1>8, <2>1, <2>4, <2>7, <2>9
  <2> QED
    BY <1>2, <1>4, <2>3, <2>4, <2>5, <2>6, <2>9, <2>10 DEF Fresh
<1> QED
  BY <1>13, <1>15, <1>16

\* The cache of the mock backend keeps what is young and finds nothing that is
\* too old (MockLookupExact), after any number of calls whose clocks overtake
\* each other by any amount; while none overtakes another, it is exact.
THEOREM MockCacheExact == Spec => []MockLookupExact
  BY InputCorrect, LookupsExact, PTL

-----------------------------------------------------------------------------
(* Discovery *)

\* f numbers the elements of P by the places of a list, each once.
Numbers(f, P, list) ==
  /\ f \in [P -> DOMAIN list]
  /\ \A p, q \in P : f[p] = f[q] => p = q
  /\ \A x \in DOMAIN list : \E p \in P : f[p] = x

Cells(ss) == UNION {{<<i, k>> : k \in DOMAIN ss[i]} : i \in DOMAIN ss}

\* How the list grows by the parts, one after the other.
Grows(Elem, ss, n, w) ==
  /\ \A k \in 0..n : Len(w[k]) \in Nat /\ w[k] \in [1..Len(w[k]) -> Elem]
  /\ Len(w[0]) = 0
  /\ \A k \in 1..n : Len(ss[k]) \in Nat
  /\ \A k \in 0..(n - 1) :
       /\ Len(w[k + 1]) = Len(w[k]) + Len(ss[k + 1])
       /\ \A x \in 1..Len(w[k]) : w[k + 1][x] = w[k][x]
       /\ \A j \in 1..Len(ss[k + 1]) : w[k + 1][Len(w[k]) + j] = ss[k + 1][j]

Stays(n, w) ==
  \A k \in 0..n : \A i \in 0..k :
    /\ Len(w[i]) <= Len(w[k])
    /\ \A x \in 1..Len(w[i]) : w[k][x] = w[i][x]

Covers(ss, n, w) ==
  \A x \in 1..Len(w[n]) :
    \E i \in 1..n : \E j \in 1..Len(ss[i]) : x = Len(w[i - 1]) + j

LEMMA FlattenParts ==
  ASSUME NEW Elem, NEW ss \in Seq(Seq(Elem)), NEW n \in Nat, n = Len(ss),
         NEW w, FlattenSteps(Elem, ss, n, w)
  PROVE  Grows(Elem, ss, n, w)
<1>1. \A k \in 0..n : w[k] \in Seq(Elem)
  BY DEF FlattenSteps
<1>2. \A k \in 0..n : Len(w[k]) \in Nat /\ w[k] \in [1..Len(w[k]) -> Elem]
  BY <1>1, LenProperties
<1>3. Len(w[0]) = 0
  BY EmptySeq DEF FlattenSteps
<1>4. ASSUME NEW k \in 0..(n - 1)
      PROVE  /\ Len(w[k + 1]) = Len(w[k]) + Len(ss[k + 1])
             /\ \A x \in 1..Len(w[k]) : w[k + 1][x] = w[k][x]
             /\ \A j \in 1..Len(ss[k + 1]) :
                  w[k + 1][Len(w[k]) + j] = ss[k + 1][j]
  <2>1. k \in 0..n /\ k + 1 \in 1..n
    OBVIOUS
  <2>2. PICK one \in Seq(Elem) : one = w[k]
    BY <1>1, <2>1
  <2>3. PICK two \in Seq(Elem) : two = ss[k + 1]
    BY <2>1, ElementOfSeq
  <2>4. w[k + 1] = one \o two
    BY <2>2, <2>3 DEF FlattenSteps
  <2>5. Len(one) \in Nat /\ Len(two) \in Nat
    BY LenProperties
  <2>6. /\ Len(one \o two) = Len(one) + Len(two)
        /\ \A x \in 1..(Len(one) + Len(two)) :
             (one \o two)[x] = IF x <= Len(one) THEN one[x] ELSE two[x - Len(one)]
    BY ConcatProperties
  <2>7. \A x \in 1..Len(one) : (one \o two)[x] = one[x]
    BY <2>5, <2>6
  <2>8. ASSUME NEW j \in 1..Len(two)
        PROVE  (one \o two)[Len(one) + j] = two[j]
    <3>1. /\ Len(one) + j \in 1..(Len(one) + Len(two))
          /\ ~(Len(one) + j <= Len(one)) /\ (Len(one) + j) - Len(one) = j
      BY <2>5
    <3> QED
      BY <2>6, <3>1
  <2> QED
    BY <2>2, <2>3, <2>4, <2>6, <2>7, <2>8
<1>5. \A k \in 1..n : Len(ss[k]) \in Nat
  BY ElementOfSeq, LenProperties
<1> QED
  BY <1>2, <1>3, <1>4, <1>5 DEF Grows

\* What is added later moves nothing that is there.
LEMMA FlattenKeeps ==
  ASSUME NEW Elem, NEW ss, NEW n \in Nat, NEW w, Grows(Elem, ss, n, w)
  PROVE  Stays(n, w)
<1>1. /\ \A k \in 0..n : Len(w[k]) \in Nat
      /\ \A k \in 0..(n - 1) :
              /\ Len(w[k + 1]) = Len(w[k]) + Len(ss[k + 1])
              /\ \A x \in 1..Len(w[k]) : w[k + 1][x] = w[k][x]
  BY DEF Grows
<1>2. \A k \in 1..n : Len(ss[k]) \in Nat
  BY DEF Grows
<1> DEFINE S == {k \in Nat : k \in 0..n => \A i \in 0..k :
                   /\ Len(w[i]) <= Len(w[k])
                   /\ \A x \in 1..Len(w[i]) : w[k][x] = w[i][x]}
<1>3. 0 \in S
  <2>1. 0 \in 0..n /\ 0..0 = {0}
    OBVIOUS
  <2>2. Len(w[0]) \in Nat
    BY <1>1, <2>1
  <2> QED
    BY <2>1, <2>2
<1>4. ASSUME NEW k \in Nat, k \in S
      PROVE  k + 1 \in S
  <2>1. SUFFICES ASSUME k + 1 \in 0..n, NEW i \in 0..(k + 1)
                 PROVE  /\ Len(w[i]) <= Len(w[k + 1])
                        /\ \A x \in 1..Len(w[i]) : w[k + 1][x] = w[i][x]
    OBVIOUS
  <2>2. k \in 0..n /\ k \in 0..(n - 1) /\ k + 1 \in 1..n
    BY <2>1
  <2>3. CASE i = k + 1
    <3>1. Len(w[k + 1]) \in Nat
      BY <1>1, <2>1
    <3> QED
      BY <2>3, <3>1
  <2>4. CASE i # k + 1
    <3>1. i \in 0..k /\ i \in 0..n
      BY <2>1, <2>4
    <3>2. Len(w[i]) <= Len(w[k]) /\ \A x \in 1..Len(w[i]) : w[k][x] = w[i][x]
      BY <1>4, <2>2, <3>1
    <3>3. /\ Len(w[i]) \in Nat /\ Len(w[k]) \in Nat /\ Len(ss[k + 1]) \in Nat
          /\ Len(w[k + 1]) = Len(w[k]) + Len(ss[k + 1])
          /\ \A x \in 1..Len(w[k]) : w[k + 1][x] = w[k][x]
      BY <1>1, <1>2, <2>2, <3>1
    <3>4. \A x \in 1..Len(w[i]) : x \in 1..Len(w[k])
      BY <3>2, <3>3
    <3>5. Len(w[i]) <= Len(w[k + 1])
      <4>1. PICK a \in Nat, b \in Nat, c \in Nat :
              a = Len(w[i]) /\ b = Len(w[k]) /\ c = Len(ss[k + 1])
        BY <3>3
      <4>2. a <= b /\ Len(w[k + 1]) = b + c
        BY <3>2, <3>3, <4>1
      <4>3. a <= b + c
        BY <4>2
      <4> QED
        BY <4>1, <4>2, <4>3
    <3>6. \A x \in 1..Len(w[i]) : w[k + 1][x] = w[i][x]
      BY <3>2, <3>3, <3>4
    <3> QED
      BY <3>5, <3>6
  <2> QED
    BY <2>3, <2>4
<1>5. Nat \subseteq S
  <2> HIDE DEF S
  <2> QED
    BY <1>3, <1>4, SetInduction
<1> QED
  BY <1>5 DEF Stays

\* And every element came with one of the parts.
LEMMA FlattenOnto ==
  ASSUME NEW Elem, NEW ss, NEW n \in Nat, NEW w, Grows(Elem, ss, n, w)
  PROVE  Covers(ss, n, w)
<1>1. /\ \A k \in 0..n : Len(w[k]) \in Nat
      /\ Len(w[0]) = 0
      /\ \A k \in 0..(n - 1) : Len(w[k + 1]) = Len(w[k]) + Len(ss[k + 1])
  BY DEF Grows
<1>2. \A k \in 1..n : Len(ss[k]) \in Nat
  BY DEF Grows
<1> DEFINE S == {k \in Nat : k \in 0..n => \A x \in 1..Len(w[k]) :
                   \E i \in 1..k : \E j \in 1..Len(ss[i]) : x = Len(w[i - 1]) + j}
<1>3. 0 \in S
  BY <1>1
<1>4. ASSUME NEW k \in Nat, k \in S
      PROVE  k + 1 \in S
  <2>1. SUFFICES ASSUME k + 1 \in 0..n, NEW x \in 1..Len(w[k + 1])
                 PROVE  \E i \in 1..(k + 1) : \E j \in 1..Len(ss[i]) :
                          x = Len(w[i - 1]) + j
    OBVIOUS
  <2>2. k \in 0..n /\ k \in 0..(n - 1) /\ k + 1 \in 1..n /\ (k + 1) - 1 = k
    BY <2>1
  <2>3. /\ Len(w[k]) \in Nat /\ Len(ss[k + 1]) \in Nat
        /\ Len(w[k + 1]) = Len(w[k]) + Len(ss[k + 1])
    BY <1>1, <1>2, <2>2
  <2>4. CASE x <= Len(w[k])
    <3>1. x \in 1..Len(w[k])
      BY <2>1, <2>3, <2>4
    <3>2. PICK i \in 1..k : \E j \in 1..Len(ss[i]) : x = Len(w[i - 1]) + j
      BY <1>4, <2>2, <3>1
    <3>3. i \in 1..(k + 1)
      OBVIOUS
    <3> QED
      BY <3>2, <3>3
  <2>5. CASE ~(x <= Len(w[k]))
    <3>1. PICK j \in 1..Len(ss[k + 1]) : x = Len(w[k]) + j
      <4>1. PICK a \in Nat, b \in Nat : a = Len(w[k]) /\ b = Len(ss[k + 1])
        BY <2>3
      <4>2. x \in 1..(a + b) /\ ~(x <= a)
        BY <2>1, <2>3, <2>5, <4>1
      <4>3. x - a \in 1..b /\ x = a + (x - a)
        BY <4>2
      <4> QED
        BY <4>1, <4>3
    <3>2. PICK i \in 1..(k + 1) : i = k + 1
      BY <2>2
    <3>3. i - 1 = k
      BY <3>2
    <3> QED
      BY <3>1, <3>2, <3>3
  <2> QED
    BY <2>4, <2>5
<1>5. Nat \subseteq S
  <2> HIDE DEF S
  <2> QED
    BY <1>3, <1>4, SetInduction
<1>6. n \in S /\ n \in 0..n
  <2> HIDE DEF S
  <2> QED
    BY <1>5
<1> QED
  BY <1>6 DEF Covers

\* Flattening numbers the elements of all parts.
LEMMA FlattenNumbers ==
  ASSUME NEW Elem, NEW ss \in Seq(Seq(Elem))
  PROVE  /\ FlattenSeq(ss) \in Seq(Elem)
         /\ \E f : /\ Numbers(f, Cells(ss), FlattenSeq(ss))
                   /\ \A c \in Cells(ss) : FlattenSeq(ss)[f[c]] = ss[c[1]][c[2]]
<1>1. PICK n \in Nat : n = Len(ss)
  BY LenProperties
<1>2. PICK w : FlattenSteps(Elem, ss, n, w)
  BY <1>1, FlattenWalk
<1>3. PICK list \in Seq(Elem) : list = FlattenSeq(ss) /\ list = w[n]
  BY <1>2 DEF FlattenSteps
<1>4. Grows(Elem, ss, n, w)
  BY <1>1, <1>2, FlattenParts
<1>5. Stays(n, w) /\ Covers(ss, n, w)
  BY <1>4, FlattenKeeps, FlattenOnto
<1>6. DOMAIN ss = 1..n /\ \A i \in 1..n : DOMAIN ss[i] = 1..Len(ss[i])
  BY <1>1, ElementOfSeq, LenProperties
<1>7. DOMAIN list = 1..Len(w[n])
  BY <1>3, LenProperties
<1>8. /\ \A i \in 1..n, j \in Nat : j \in 1..Len(ss[i]) => <<i, j>> \in Cells(ss)
      /\ \A c \in Cells(ss) : /\ c = <<c[1], c[2]>> /\ c[1] \in 1..n
                              /\ c[2] \in 1..Len(ss[c[1]])
  BY <1>6 DEF Cells
<1>9. PICK f : f = [c \in Cells(ss) |-> Len(w[c[1] - 1]) + c[2]]
  OBVIOUS
<1>10. \A i \in 1..n :
         /\ i - 1 \in 0..(n - 1) /\ i - 1 \in 0..n /\ i \in 0..n /\ (i - 1) + 1 = i
         /\ Len(w[i - 1]) \in Nat /\ Len(w[i]) \in Nat /\ Len(ss[i]) \in Nat
         /\ Len(w[i]) = Len(w[i - 1]) + Len(ss[i])
         /\ \A j \in 1..Len(ss[i]) : w[i][Len(w[i - 1]) + j] = ss[i][j]
         /\ Len(w[i]) <= Len(w[n])
         /\ \A x \in 1..Len(w[i]) : w[n][x] = w[i][x]
  <2>1. SUFFICES ASSUME NEW i \in 1..n
                 PROVE  /\ i - 1 \in 0..(n - 1) /\ i - 1 \in 0..n /\ i \in 0..n
                        /\ (i - 1) + 1 = i
                        /\ Len(w[i - 1]) \in Nat /\ Len(w[i]) \in Nat
                        /\ Len(ss[i]) \in Nat
                        /\ Len(w[i]) = Len(w[i - 1]) + Len(ss[i])
                        /\ \A j \in 1..Len(ss[i]) :
                             w[i][Len(w[i - 1]) + j] = ss[i][j]
                        /\ Len(w[i]) <= Len(w[n])
                        /\ \A x \in 1..Len(w[i]) : w[n][x] = w[i][x]
    BY Zenon
  <2>2. i - 1 \in 0..(n - 1) /\ i - 1 \in 0..n /\ i \in 0..n /\ (i - 1) + 1 = i
        /\ n \in 0..n
    OBVIOUS
  <2>3. Len(w[i - 1]) \in Nat /\ Len(w[i]) \in Nat /\ Len(ss[i]) \in Nat
    BY <1>4, <2>2 DEF Grows
  <2>4. /\ Len(w[i]) = Len(w[i - 1]) + Len(ss[i])
        /\ \A j \in 1..Len(ss[i]) : w[i][Len(w[i - 1]) + j] = ss[i][j]
    <3>1. PICK k \in 0..(n - 1) : k = i - 1 /\ k + 1 = i
      BY <2>2
    <3> QED
      BY <1>4, <3>1, ZenonT(60) DEF Grows
  <2>5. Len(w[i]) <= Len(w[n]) /\ \A x \in 1..Len(w[i]) : w[n][x] = w[i][x]
    BY <1>5, <2>2 DEF Stays
  <2> QED
    BY <2>2, <2>3, <2>4, <2>5
<1>11. ASSUME NEW c \in Cells(ss)
       PROVE  /\ f[c] \in 1..Len(w[n])
              /\ f[c] \in (Len(w[c[1] - 1]) + 1)..Len(w[c[1]])
              /\ w[n][f[c]] = ss[c[1]][c[2]]
  <2>1. PICK i \in 1..n : i = c[1]
    BY <1>8
  <2>2. PICK j \in 1..Len(ss[i]) : j = c[2]
    BY <1>8, <2>1
  <2>3. f[c] = Len(w[i - 1]) + j
    BY <1>9, <2>1, <2>2
  <2>4. PICK a \in Nat, b \in Nat, l \in Nat, m \in Nat :
          a = Len(w[i - 1]) /\ b = Len(ss[i]) /\ l = Len(w[i]) /\ m = Len(w[n])
    <3>1. n \in 0..n
      OBVIOUS
    <3>2. Len(w[n]) \in Nat
      BY <1>4, <3>1 DEF Grows
    <3> QED
      BY <1>10, <3>2
  <2>5. l = a + b /\ l <= m
    BY <1>10, <2>4
  <2>6. a + j \in 1..m /\ a + j \in (a + 1)..l /\ a + j \in 1..l
    <3>1. PICK y \in 1..b : y = j
      BY <2>4
    <3>2. a + y \in 1..m /\ a + y \in (a + 1)..l /\ a + y \in 1..l
      BY <2>5
    <3> QED
      BY <3>1, <3>2
  <2>7. w[n][a + j] = w[i][a + j] /\ w[i][a + j] = ss[i][j]
    BY <1>10, <2>4, <2>6
  <2> QED
    BY <2>1, <2>2, <2>3, <2>4, <2>6, <2>7
<1>12. ASSUME NEW c \in Cells(ss), NEW d \in Cells(ss), f[c] = f[d]
       PROVE  c = d
  <2>1. ASSUME NEW p \in Cells(ss), NEW q \in Cells(ss), p[1] < q[1]
        PROVE  f[p] < f[q]
    <3>1. PICK i \in 1..n, k \in 1..n : i = p[1] /\ k = q[1]
      BY <1>8
    <3>2. k - 1 \in 0..n /\ i \in 0..(k - 1)
      BY <2>1, <3>1
    <3>3. Len(w[i]) <= Len(w[k - 1])
      BY <1>5, <3>2 DEF Stays
    <3>4. f[p] \in 1..Len(w[i]) /\ f[q] \in (Len(w[k - 1]) + 1)..Len(w[k])
      <4>1. f[p] \in 1..Len(w[n]) /\ f[p] \in (Len(w[i - 1]) + 1)..Len(w[i])
        BY <1>11, <3>1
      <4>2. Len(w[i - 1]) \in Nat /\ Len(w[i]) \in Nat
        BY <1>10
      <4>3. f[q] \in (Len(w[k - 1]) + 1)..Len(w[k])
        BY <1>11, <3>1
      <4> QED
        BY <4>1, <4>2, <4>3
    <3>5. Len(w[i]) \in Nat /\ Len(w[k - 1]) \in Nat /\ Len(w[k]) \in Nat
      BY <1>10
    <3> QED
      BY <3>3, <3>4, <3>5
  <2>2. f[c] \in Nat /\ f[d] \in Nat /\ c[1] \in Nat /\ d[1] \in Nat
    BY <1>8, <1>11
  <2>3. c[1] = d[1]
    <3>1. CASE c[1] < d[1]
      BY <1>12, <2>1, <2>2, <3>1
    <3>2. CASE d[1] < c[1]
      BY <1>12, <2>1, <2>2, <3>2
    <3> QED
      BY <2>2, <3>1, <3>2
  <2>4. c[2] = d[2]
    <3>1. PICK i \in 1..n : i = c[1] /\ i = d[1]
      BY <1>8, <2>3
    <3>2. PICK a \in Nat : a = Len(w[i - 1])
      BY <1>10
    <3>3. f[c] = a + c[2] /\ f[d] = a + d[2]
      BY <1>9, <3>1, <3>2
    <3>4. PICK y \in Nat, z \in Nat : y = c[2] /\ z = d[2]
      BY <1>8, <1>10
    <3>5. a + y = a + z
      BY <1>12, <3>3, <3>4
    <3> QED
      BY <3>4, <3>5
  <2> QED
    BY <1>8, <2>3, <2>4
<1>13. \A x \in 1..Len(w[n]) : \E c \in Cells(ss) : f[c] = x
  <2>1. SUFFICES ASSUME NEW x \in 1..Len(w[n])
                 PROVE  \E c \in Cells(ss) : f[c] = x
    OBVIOUS
  <2>2. PICK i \in 1..n : \E j \in 1..Len(ss[i]) : x = Len(w[i - 1]) + j
    BY <1>5 DEF Covers
  <2>3. PICK j \in 1..Len(ss[i]) : x = Len(w[i - 1]) + j
    BY <2>2
  <2>4. PICK c \in Cells(ss) : c = <<i, j>>
    <3>1. j \in Nat
      BY <1>10
    <3> QED
      BY <1>8, <3>1
  <2>5. f[c] = Len(w[i - 1]) + j
    BY <1>9, <2>4
  <2> QED
    BY <2>3, <2>5
<1>14. Numbers(f, Cells(ss), list)
  <2>1. f \in [Cells(ss) -> 1..Len(w[n])]
    BY <1>9, <1>11
  <2> QED
    BY <1>7, <1>12, <1>13, <2>1 DEF Numbers
<1>15. \A c \in Cells(ss) : list[f[c]] = ss[c[1]][c[2]]
  BY <1>3, <1>11
<1> QED
  BY <1>3, <1>14, <1>15

LEMMA FlattenFew ==
  ASSUME NEW Elem, NEW ss \in Seq(Seq(Elem)), Len(ss) \in {0, 1}
  PROVE  FlattenSeq(ss) = IF Len(ss) = 0 THEN <<>> ELSE ss[1]
<1>1. PICK n \in Nat : n = Len(ss)
  BY LenProperties
<1>2. PICK w : FlattenSteps(Elem, ss, n, w)
  BY <1>1, FlattenWalk
<1>3. CASE n = 0
  BY <1>1, <1>2, <1>3 DEF FlattenSteps
<1>4. CASE n = 1
  <2>1. PICK one \in Seq(Elem) : one = ss[1]
    <3>1. ss \in [1..1 -> Seq(Elem)]
      BY <1>1, <1>4, LenProperties
    <3> QED
      BY <3>1
  <2>2. w[1] = <<>> \o one
    <3>1. \A k \in 0..(n - 1) : w[k + 1] = w[k] \o ss[k + 1]
      BY <1>2 DEF FlattenSteps
    <3>2. 0 \in 0..(n - 1) /\ 0 + 1 = 1
      BY <1>4
    <3>3. w[1] = w[0] \o ss[1]
      BY <3>1, <3>2
    <3> QED
      BY <1>2, <2>1, <3>3 DEF FlattenSteps
  <2>3. w[1] = one
    BY <2>2, ConcatEmptySeq
  <2> QED
    BY <1>1, <1>2, <1>4, <2>1, <2>3 DEF FlattenSteps
<1> QED
  BY <1>1, <1>3, <1>4

\* The same for parts that are flattened themselves.
Nested(x) ==
  UNION {UNION {{<<i, k, m>> : m \in DOMAIN x[i][k]} : k \in DOMAIN x[i]} :
         i \in DOMAIN x}

NumbersCells(ss, list, f) ==
  /\ Numbers(f, Cells(ss), list)
  /\ \A c \in Cells(ss) : list[f[c]] = ss[c[1]][c[2]]

NumbersNested(x, list, f) ==
  /\ Numbers(f, Nested(x), list)
  /\ \A p \in Nested(x) : list[f[p]] = x[p[1]][p[2]][p[3]]

LEMMA NestedNumbers ==
  ASSUME NEW Elem, NEW x \in Seq(Seq(Seq(Elem))),
         NEW flat \in Seq(Seq(Elem)), Len(flat) = Len(x),
         \A i \in 1..Len(x) : flat[i] = FlattenSeq(x[i])
  PROVE  \E f : NumbersNested(x, FlattenSeq(flat), f)
<1>1. PICK n \in Nat : n = Len(x)
  BY LenProperties
<1>2. /\ DOMAIN x = 1..n /\ DOMAIN flat = 1..n
      /\ \A i \in 1..n : x[i] \in Seq(Seq(Elem)) /\ flat[i] = FlattenSeq(x[i])
  BY <1>1, ElementOfSeq, LenProperties
<1>3. ASSUME NEW i \in 1..n
      PROVE  \E h : NumbersCells(x[i], flat[i], h)
  <2>1. PICK ss \in Seq(Seq(Elem)) : ss = x[i]
    BY <1>2
  <2>2. PICK h : /\ Numbers(h, Cells(ss), FlattenSeq(ss))
                 /\ \A c \in Cells(ss) : FlattenSeq(ss)[h[c]] = ss[c[1]][c[2]]
    BY FlattenNumbers
  <2>3. NumbersCells(x[i], flat[i], h)
    BY <1>2, <2>1, <2>2 DEF NumbersCells
  <2> QED
    BY <2>3
<1>4. PICK H : H = [i \in 1..n |-> CHOOSE h : NumbersCells(x[i], flat[i], h)]
  OBVIOUS
<1>5. \A i \in 1..n : NumbersCells(x[i], flat[i], H[i])
  BY <1>3, <1>4
<1>6. PICK list : list = FlattenSeq(flat)
  OBVIOUS
<1>7. PICK g : NumbersCells(flat, list, g)
  BY <1>6, FlattenNumbers DEF NumbersCells
<1>8. /\ \A i \in 1..n : \A c \in Cells(x[i]) : <<i, c[1], c[2]>> \in Nested(x)
      /\ \A p \in Nested(x) : /\ p = <<p[1], p[2], p[3]>> /\ p[1] \in 1..n
                              /\ <<p[2], p[3]>> \in Cells(x[p[1]])
  <2>1. ASSUME NEW p \in Nested(x)
        PROVE  /\ p = <<p[1], p[2], p[3]>> /\ p[1] \in 1..n
               /\ <<p[2], p[3]>> \in Cells(x[p[1]])
    <3>1. PICK i \in 1..n : \E k \in DOMAIN x[i] : \E m \in DOMAIN x[i][k] :
            p = <<i, k, m>>
      BY <1>2 DEF Nested
    <3>2. PICK k \in DOMAIN x[i] : \E m \in DOMAIN x[i][k] : p = <<i, k, m>>
      BY <3>1
    <3>3. PICK m \in DOMAIN x[i][k] : p = <<i, k, m>>
      BY <3>2
    <3>4. <<k, m>> \in Cells(x[i])
      BY DEF Cells
    <3> QED
      BY <3>3, <3>4
  <2>2. ASSUME NEW i \in 1..n, NEW c \in Cells(x[i])
        PROVE  <<i, c[1], c[2]>> \in Nested(x)
    <3>1. PICK k \in DOMAIN x[i] : \E m \in DOMAIN x[i][k] : c = <<k, m>>
      BY DEF Cells
    <3>2. PICK m \in DOMAIN x[i][k] : c = <<k, m>>
      BY <3>1
    <3> QED
      BY <1>2, <3>2 DEF Nested
  <2> QED
    BY <2>1, <2>2
<1>9. ASSUME NEW i \in 1..n
      PROVE  /\ \A c \in Cells(x[i]) :
                  /\ c = <<c[1], c[2]>>
                  /\ <<i, H[i][c]>> \in Cells(flat)
                  /\ flat[i][H[i][c]] = x[i][c[1]][c[2]]
             /\ \A c, d \in Cells(x[i]) : H[i][c] = H[i][d] => c = d
             /\ \A y : <<i, y>> \in Cells(flat) => \E c \in Cells(x[i]) : H[i][c] = y
  <2>1. NumbersCells(x[i], flat[i], H[i])
    BY <1>5
  <2>2. \A y : <<i, y>> \in Cells(flat) <=> y \in DOMAIN flat[i]
    BY <1>2 DEF Cells
  <2>3. \A c \in Cells(x[i]) : c = <<c[1], c[2]>>
    BY DEF Cells
  <2> QED
    BY <2>1, <2>2, <2>3 DEF NumbersCells, Numbers
<1>10. /\ g \in [Cells(flat) -> DOMAIN list]
       /\ \A c, d \in Cells(flat) : g[c] = g[d] => c = d
       /\ \A y \in DOMAIN list : \E c \in Cells(flat) : g[c] = y
       /\ \A c \in Cells(flat) : list[g[c]] = flat[c[1]][c[2]]
       /\ \A c \in Cells(flat) : c = <<c[1], c[2]>> /\ c[1] \in 1..n
  <2>1. \A c \in Cells(flat) : c = <<c[1], c[2]>> /\ c[1] \in 1..n
    BY <1>2 DEF Cells
  <2> QED
    BY <1>7, <2>1 DEF NumbersCells, Numbers
<1> DEFINE Mid(p) == <<p[1], H[p[1]][<<p[2], p[3]>>]>>
<1>11. PICK f : f = [p \in Nested(x) |-> g[Mid(p)]]
  OBVIOUS
<1>12. \A p \in Nested(x) :
         /\ Mid(p) \in Cells(flat) /\ f[p] = g[Mid(p)]
         /\ flat[p[1]][H[p[1]][<<p[2], p[3]>>]] = x[p[1]][p[2]][p[3]]
  <2>1. SUFFICES ASSUME NEW p \in Nested(x)
                 PROVE  /\ Mid(p) \in Cells(flat) /\ f[p] = g[Mid(p)]
                        /\ flat[p[1]][H[p[1]][<<p[2], p[3]>>]] = x[p[1]][p[2]][p[3]]
    OBVIOUS
  <2>2. PICK i \in 1..n : i = p[1]
    BY <1>8
  <2>3. PICK c \in Cells(x[i]) : c = <<p[2], p[3]>>
    BY <1>8, <2>2
  <2> QED
    BY <1>9, <1>11, <2>2, <2>3, ZenonT(60)
<1>13. f \in [Nested(x) -> DOMAIN list]
  BY <1>10, <1>11, <1>12
<1>14. ASSUME NEW p \in Nested(x), NEW q \in Nested(x), f[p] = f[q]
       PROVE  p = q
  <2>1. Mid(p) = Mid(q)
    <3>1. PICK c \in Cells(flat), d \in Cells(flat) : c = Mid(p) /\ d = Mid(q)
      BY <1>12
    <3>2. g[c] = g[d]
      BY <1>12, <1>14, <3>1
    <3> QED
      BY <1>10, <3>1, <3>2
  <2>2. PICK i \in 1..n : i = p[1] /\ i = q[1]
    BY <1>8, <2>1
  <2>3. <<p[2], p[3]>> = <<q[2], q[3]>>
    <3>1. PICK c \in Cells(x[i]), d \in Cells(x[i]) :
            c = <<p[2], p[3]>> /\ d = <<q[2], q[3]>>
      BY <1>8, <2>2
    <3>2. H[i][c] = H[i][d]
      BY <2>1, <2>2, <3>1
    <3> QED
      BY <1>9, <3>1, <3>2
  <2> QED
    BY <1>8, <2>2, <2>3
<1>15. ASSUME NEW y \in DOMAIN list
       PROVE  \E p \in Nested(x) : f[p] = y
  <2>1. PICK c \in Cells(flat) : g[c] = y
    BY <1>10
  <2>2. PICK i, z : i \in 1..n /\ c = <<i, z>>
    BY <1>10
  <2>3. PICK d \in Cells(x[i]) : H[i][d] = z
    BY <1>9, <2>2
  <2>4. PICK p \in Nested(x) : p = <<i, d[1], d[2]>>
    BY <1>8, <2>2
  <2>5. Mid(p) = c
    <3>1. d = <<d[1], d[2]>>
      BY <1>9, <2>2
    <3> QED
      BY <2>2, <2>3, <2>4, <3>1
  <2> QED
    BY <1>12, <2>1, <2>5
<1>16. Numbers(f, Nested(x), list)
  BY <1>13, <1>14, <1>15 DEF Numbers
<1>17. \A p \in Nested(x) : list[f[p]] = x[p[1]][p[2]][p[3]]
  <2>1. \A p \in Nested(x) : list[g[Mid(p)]] = flat[p[1]][H[p[1]][<<p[2], p[3]>>]]
    BY <1>10, <1>12
  <2> QED
    BY <1>12, <2>1
<1> QED
  BY <1>6, <1>16, <1>17 DEF NumbersNested

\* What is numbered has as many elements as the list.
LEMMA NumberedCount ==
  ASSUME NEW Elem, NEW list \in Seq(Elem), NEW P, NEW f, Numbers(f, P, list)
  PROVE  IsFiniteSet(P) /\ Cardinality(P) = Len(list)
<1>1. DOMAIN list = 1..Len(list) /\ Len(list) \in Nat
  BY LenProperties
<1>2. PICK n \in Nat : n = Len(list)
  BY <1>1
<1>3. IsFiniteSet(1..n) /\ Cardinality(1..n) = n
  BY FS_Interval
<1>4. f \in Bijection(P, 1..n)
  BY <1>1, <1>2, Fun_IsBij DEF Numbers
<1>5. ExistsBijection(P, 1..n)
  BY <1>4 DEF ExistsBijection
<1>6. ExistsBijection(1..n, P)
  BY <1>5, Fun_ExistsBijSymmetric
<1> QED
  BY <1>2, <1>3, <1>6, FS_Bijection

Listed == [ID : Pods \cup {NoPod} \cup Addresses, URL : Addresses \X STRING]

Fits(port, portName) == port.Port # "nil" /\ portName \in {"", port.Name}

\* The j-th port is the first that fits, and has the number.
FirstFit(ports, portName, j, number) ==
  /\ Fits(ports[j], portName) /\ number = ports[j].Port
  /\ \A i \in 1..j - 1 : ~Fits(ports[i], portName)

\* choosePort takes the first port that fits if there is one.
LEMMA PortChosen ==
  ASSUME NEW ports \in PortLists, NEW portName
  PROVE  \/ /\ choosePort(ports, portName) = <<>>
            /\ ~\E port \in Range(ports) : Fits(port, portName)
         \/ \E j \in DOMAIN ports :
              /\ FirstFit(ports, portName, j, ports[j].Port)
              /\ ports[j].Port \in STRING
              /\ choosePort(ports, portName) = <<ports[j]>>
<1>1. ports \in Seq([Name : STRING, Port : STRING])
  BY InputsAssumption
<1>2. PICK n \in Nat : n = Len(ports) /\ DOMAIN ports = 1..n
  BY <1>1, LenProperties
<1>3. \A j \in 1..n : ports[j].Port \in STRING
  <2>1. \A j \in 1..n : ports[j] \in [Name : STRING, Port : STRING]
    BY <1>1, <1>2, ElementOfSeq
  <2> QED
    BY <2>1
<1>4. PICK fit : fit = {j \in 1..n : ports[j].Port # "nil" /\ portName \in {"", ports[j].Name}}
  OBVIOUS
<1>5. choosePort(ports, portName) = IF fit = {} THEN <<>> ELSE <<ports[Min(fit)]>>
  BY <1>2, <1>4 DEF choosePort
<1>6. CASE fit = {}
  <2>1. ~\E port \in Range(ports) : Fits(port, portName)
    BY <1>2, <1>4, <1>6 DEF Fits, Range
  <2> QED
    BY <1>5, <1>6, <2>1
<1>7. CASE fit # {}
  <2>1. fit \in SUBSET Nat
    <3>1. \A j \in fit : j \in 1..n
      BY <1>4, Zenon
    <3>2. \A j \in 1..n : j \in Nat
      OBVIOUS
    <3> QED
      BY <3>1, <3>2
  <2>2. PICK j \in fit : j = Min(fit) /\ \A i \in fit : j <= i
    BY <1>7, <2>1, MinOfNaturals
  <2>3. j \in 1..n /\ Fits(ports[j], portName)
    BY <1>4 DEF Fits
  <2>4. ASSUME NEW i \in 1..j - 1
        PROVE  ~Fits(ports[i], portName)
    <3>1. i \in 1..n /\ i < j
      BY <2>3
    <3>2. i \notin fit
      BY <2>1, <2>2, <3>1
    <3> QED
      BY <1>4, <3>1, <3>2 DEF Fits
  <2> QED
    BY <1>2, <1>3, <1>5, <1>7, <2>2, <2>3, <2>4 DEF FirstFit
<1> QED
  BY <1>6, <1>7

LEMMA EndpointTyped ==
  ASSUME NEW ep \in Endpoint
  PROVE  /\ ep.Pod \in Pods \cup {NoPod}
         /\ ep.Addresses \in Seq(Addresses)
<1>1. ep.Addresses \in BoundedSeq(Addresses, MaxAddresses)
  BY DEF Endpoint
<1>2. PICK n \in 0..MaxAddresses : ep.Addresses \in [1..n -> Addresses]
  BY <1>1 DEF BoundedSeq, SeqOf
<1>3. n \in Nat
  BY InputsAssumption
<1> QED
  BY <1>2, <1>3 DEF Endpoint

\* What is listed for the m-th address of the k-th endpoint of a slice.
PartIs(slice, portName, k, m, e) ==
  LET address == slice.Endpoints[k].Addresses[m]
  IN  /\ e.ID = endpointID(slice.Endpoints[k], address)
      /\ e.URL[1] = address
      /\ \E j \in DOMAIN slice.Ports : FirstFit(slice.Ports, portName, j, e.URL[2])

\* What a slice gives: one endpoint for each address of each ready endpoint,
\* if a port fits.
SliceParts(slice, portName, ss) ==
  /\ ss \in Seq(Seq(Listed))
  /\ FromSlice(slice, portName) = FlattenSeq(ss)
  /\ \A k, m : <<k, m>> \in Cells(ss) <=>
       /\ k \in DOMAIN slice.Endpoints
       /\ m \in DOMAIN slice.Endpoints[k].Addresses
       /\ endpointReady(slice.Endpoints[k].Conditions)
       /\ \E port \in Range(slice.Ports) : Fits(port, portName)
  /\ \A k, m : <<k, m>> \in Cells(ss) => PartIs(slice, portName, k, m, ss[k][m])

LEMMA SliceListed ==
  ASSUME NEW slice \in Slice, NEW portName
  PROVE  \E ss : SliceParts(slice, portName, ss)
<1>1. slice.Ports \in PortLists /\ slice.Endpoints \in Seq(Endpoint)
  BY DEF Slice
<1>2. PICK eps \in Seq(Endpoint) : eps = slice.Endpoints
  BY <1>1
<1>3. PICK n \in Nat : n = Len(eps) /\ DOMAIN eps = 1..n
  BY LenProperties
<1>4. \A k \in 1..n : eps[k] \in Endpoint
  BY <1>3, ElementOfSeq
<1>5. PICK chosen : chosen = choosePort(slice.Ports, portName)
  OBVIOUS
<1> DEFINE Of(ep, port) ==
             IF endpointReady(ep.Conditions)
             THEN [k \in DOMAIN ep.Addresses |->
                     [ID  |-> endpointID(ep, ep.Addresses[k]),
                      URL |-> <<ep.Addresses[k], port.Port>>]]
             ELSE <<>>
           Parts(port) == [k \in DOMAIN slice.Endpoints |-> Of(slice.Endpoints[k], port)]
           lists == [j \in DOMAIN chosen |-> FlattenSeq(Parts(chosen[j]))]
<1>6. FromSlice(slice, portName) = FlattenSeq(lists)
  BY <1>5 DEF FromSlice
<1>7. CASE chosen = <<>> /\ ~\E port \in Range(slice.Ports) : Fits(port, portName)
  <2>1. lists \in Seq(Seq(Listed)) /\ Len(lists) = 0
    BY <1>7
  <2>2. FlattenSeq(lists) = <<>>
    BY <2>1, FlattenFew
  <2>3. lists = <<>>
    BY <2>1, EmptySeq
  <2>4. SliceParts(slice, portName, <<>>)
    <3>1. \A c : c \notin Cells(<<>>)
      BY DEF Cells
    <3>2. FromSlice(slice, portName) = FlattenSeq(<<>>) /\ <<>> \in Seq(Seq(Listed))
      BY <1>6, <2>1, <2>3
    <3> QED
      BY <1>7, <3>1, <3>2 DEF SliceParts
  <2> QED
    BY <2>4
<1>8. ASSUME NEW first \in DOMAIN slice.Ports, NEW port, port = slice.Ports[first],
             FirstFit(slice.Ports, portName, first, port.Port),
             port.Port \in STRING, chosen = <<port>>
      PROVE  \E ss : SliceParts(slice, portName, ss)
  <2>1. ASSUME NEW k \in 1..n
        PROVE  /\ Of(eps[k], port) \in Seq(Listed)
               /\ \A m : m \in DOMAIN Of(eps[k], port) <=>
                    m \in DOMAIN eps[k].Addresses /\ endpointReady(eps[k].Conditions)
               /\ \A m \in DOMAIN Of(eps[k], port) :
                    Of(eps[k], port)[m] = [ID  |-> endpointID(eps[k], eps[k].Addresses[m]),
                                           URL |-> <<eps[k].Addresses[m], port.Port>>]
    <3>1. PICK ep \in Endpoint : ep = eps[k]
      BY <1>4
    <3>2. PICK l \in Nat : l = Len(ep.Addresses) /\ DOMAIN ep.Addresses = 1..l
      BY EndpointTyped, LenProperties
    <3>3. ASSUME NEW m \in 1..l
          PROVE  [ID  |-> endpointID(ep, ep.Addresses[m]),
                  URL |-> <<ep.Addresses[m], port.Port>>] \in Listed
      <4>1. ep.Addresses[m] \in Addresses
        BY <3>2, EndpointTyped, ElementOfSeq
      <4>2. endpointID(ep, ep.Addresses[m]) \in Pods \cup {NoPod} \cup Addresses
        BY <4>1, EndpointTyped DEF endpointID
      <4> QED
        BY <1>8, <4>1, <4>2 DEF Listed
    <3>4. CASE endpointReady(ep.Conditions)
      <4>1. Of(ep, port) = [m \in 1..l |-> [ID  |-> endpointID(ep, ep.Addresses[m]),
                                            URL |-> <<ep.Addresses[m], port.Port>>]]
        BY <3>2, <3>4
      <4>2. Of(ep, port) \in Seq(Listed)
        BY <3>3, <4>1
      <4> HIDE DEF Of
      <4> QED
        BY <3>1, <3>2, <3>4, <4>1, <4>2
    <3>5. CASE ~endpointReady(ep.Conditions)
      <4>1. Of(ep, port) = <<>>
        BY <3>5
      <4> HIDE DEF Of
      <4> QED
        BY <3>1, <3>5, <4>1
    <3> QED
      BY <3>4, <3>5
  <2>2. PICK ss : ss = Parts(port)
    OBVIOUS
  <2> HIDE DEF Of
  <2>3. ss = [k \in 1..n |-> Of(eps[k], port)]
    BY <1>2, <1>3, <2>2
  <2>4. ss \in Seq(Seq(Listed))
    BY <2>1, <2>3
  <2>5. DOMAIN ss = 1..n /\ \A k \in 1..n : ss[k] = Of(eps[k], port)
    BY <2>3
  <2>6. FromSlice(slice, portName) = FlattenSeq(ss)
    <3>1. lists = <<FlattenSeq(ss)>>
      BY <1>8, <2>2
    <3>2. FlattenSeq(ss) \in Seq(Listed)
      BY <2>4, FlattenNumbers
    <3>3. PICK one : one = <<FlattenSeq(ss)>>
      OBVIOUS
    <3>4. one \in Seq(Seq(Listed)) /\ Len(one) = 1 /\ one[1] = FlattenSeq(ss)
      BY <3>2, <3>3
    <3>5. FlattenSeq(one) = one[1]
      BY <3>4, FlattenFew
    <3> QED
      BY <1>6, <3>1, <3>3, <3>4, <3>5
  <2>7. \A k, m : <<k, m>> \in Cells(ss) <=> k \in 1..n /\ m \in DOMAIN ss[k]
    BY <2>5 DEF Cells
  <2>8. \A k, m : <<k, m>> \in Cells(ss) <=>
          /\ k \in 1..n /\ m \in DOMAIN eps[k].Addresses
          /\ endpointReady(eps[k].Conditions)
    BY <2>1, <2>5, <2>7
  <2>9. \A k, m : <<k, m>> \in Cells(ss) =>
          ss[k][m] = [ID  |-> endpointID(eps[k], eps[k].Addresses[m]),
                      URL |-> <<eps[k].Addresses[m], port.Port>>]
    BY <2>1, <2>5, <2>7
  <2>10. \A k, m : <<k, m>> \in Cells(ss) <=>
          /\ k \in DOMAIN slice.Endpoints
          /\ m \in DOMAIN slice.Endpoints[k].Addresses
          /\ endpointReady(slice.Endpoints[k].Conditions)
          /\ \E p \in Range(slice.Ports) : Fits(p, portName)
    <3>1. port \in Range(slice.Ports) /\ Fits(port, portName)
      BY <1>8 DEF FirstFit, Range
    <3> QED
      BY <1>2, <1>3, <2>8, <3>1
  <2>11. ASSUME NEW k, NEW m, <<k, m>> \in Cells(ss)
         PROVE  PartIs(slice, portName, k, m, ss[k][m])
    <3>1. PICK address : address = slice.Endpoints[k].Addresses[m]
      OBVIOUS
    <3>2. ss[k][m] = [ID  |-> endpointID(slice.Endpoints[k], address),
                      URL |-> <<address, port.Port>>]
      BY <1>2, <2>9, <2>11, <3>1
    <3>3. ss[k][m].URL[2] = port.Port
      BY <3>2
    <3> QED
      BY <1>8, <3>1, <3>2, <3>3 DEF PartIs
  <2>12. SliceParts(slice, portName, ss)
    BY <2>4, <2>6, <2>10, <2>11 DEF SliceParts
  <2> QED
    BY <2>12
<1> QED
  BY <1>1, <1>5, <1>7, <1>8, PortChosen

LEMMA SlotIs ==
  ASSUME NEW p \in Slots
  PROVE  \E i \in DOMAIN slices : \E k \in DOMAIN slices[i].Endpoints :
           \E m \in DOMAIN slices[i].Endpoints[k].Addresses : p = <<i, k, m>>
<1>1. PICK i \in DOMAIN slices :
        p \in UNION {{<<i, k, n>> : n \in DOMAIN slices[i].Endpoints[k].Addresses} :
                    k \in DOMAIN slices[i].Endpoints}
  BY DEF Slots
<1>2. PICK k \in DOMAIN slices[i].Endpoints :
        p \in {<<i, k, n>> : n \in DOMAIN slices[i].Endpoints[k].Addresses}
  BY <1>1
<1> QED
  BY <1>2

LEMMA PlaceIs ==
  ASSUME NEW portName, NEW p \in Places(portName)
  PROVE  \E i \in DOMAIN slices : \E k \in DOMAIN slices[i].Endpoints :
           \E m \in DOMAIN slices[i].Endpoints[k].Addresses : p = <<i, k, m>>
<1>1. p \in Slots
  BY DEF Places
<1> QED
  BY <1>1, SlotIs

LEMMA IsSlot ==
  ASSUME NEW i \in DOMAIN slices, NEW k \in DOMAIN slices[i].Endpoints,
         NEW m \in DOMAIN slices[i].Endpoints[k].Addresses
  PROVE  <<i, k, m>> \in Slots
<1>1. <<i, k, m>> \in {<<i, k, n>> : n \in DOMAIN slices[i].Endpoints[k].Addresses}
  OBVIOUS
<1>2. <<i, k, m>> \in
        UNION {{<<i, j, n>> : n \in DOMAIN slices[i].Endpoints[j].Addresses} :
               j \in DOMAIN slices[i].Endpoints}
  BY <1>1
<1> QED
  BY <1>2 DEF Slots

\* Discover numbers the places that should be listed.
IsListing(f, listing, portName) ==
  /\ Numbers(f, Places(portName), listing)
  /\ listing \in Seq(Listed)
  /\ \A p \in Places(portName) :
       PartIs(slices[p[1]], portName, p[2], p[3], listing[f[p]])

LEMMA ListsPlaces ==
  ASSUME InputTyped, NEW portName
  PROVE  \E f : IsListing(f, Discover(slices, portName), portName)
<1>1. slices \in Seq(Slice)
  BY DEF InputTyped
<1>2. PICK n \in Nat : n = Len(slices) /\ DOMAIN slices = 1..n
  BY <1>1, LenProperties
<1>3. \A i \in 1..n : \E ss : SliceParts(slices[i], portName, ss)
  BY <1>1, <1>2, ElementOfSeq, SliceListed
<1>4. PICK x : x = [i \in 1..n |-> CHOOSE ss : SliceParts(slices[i], portName, ss)]
  OBVIOUS
<1>5. \A i \in 1..n : SliceParts(slices[i], portName, x[i])
  BY <1>3, <1>4
<1>6. x \in Seq(Seq(Seq(Listed))) /\ Len(x) = n /\ DOMAIN x = 1..n
  <2>1. \A i \in 1..n : x[i] \in Seq(Seq(Listed))
    BY <1>5 DEF SliceParts
  <2> QED
    BY <1>4, <2>1
<1>7. PICK flat : flat = [i \in 1..n |-> FromSlice(slices[i], portName)]
  OBVIOUS
<1>8. \A i \in 1..n : flat[i] = FlattenSeq(x[i]) /\ flat[i] \in Seq(Listed)
  <2>1. SUFFICES ASSUME NEW i \in 1..n
                 PROVE  flat[i] = FlattenSeq(x[i]) /\ flat[i] \in Seq(Listed)
    OBVIOUS
  <2>2. PICK ss \in Seq(Seq(Listed)) : ss = x[i]
    BY <1>5 DEF SliceParts
  <2>3. FlattenSeq(ss) \in Seq(Listed)
    BY FlattenNumbers
  <2> QED
    BY <1>5, <1>7, <2>2, <2>3 DEF SliceParts
<1>9. flat \in Seq(Seq(Listed)) /\ Len(flat) = n
  BY <1>7, <1>8
<1>10. Discover(slices, portName) = FlattenSeq(flat)
  BY <1>2, <1>7 DEF Discover
<1>11. PICK listing \in Seq(Listed) : listing = FlattenSeq(flat)
  BY <1>9, FlattenNumbers
<1>12. PICK f : /\ Numbers(f, Nested(x), listing)
                /\ \A p \in Nested(x) : listing[f[p]] = x[p[1]][p[2]][p[3]]
  <2>1. Len(flat) = Len(x) /\ \A i \in 1..Len(x) : flat[i] = FlattenSeq(x[i])
    BY <1>6, <1>8, <1>9
  <2>2. PICK g : NumbersNested(x, FlattenSeq(flat), g)
    BY <1>6, <1>9, <2>1, NestedNumbers
  <2> QED
    BY <1>11, <2>2 DEF NumbersNested
<1>13. \A i, k, m : <<i, k, m>> \in Nested(x) <=> i \in 1..n /\ <<k, m>> \in Cells(x[i])
  BY <1>6 DEF Nested, Cells
<1>14. \A i, k, m : <<i, k, m>> \in Slots <=>
         /\ i \in 1..n /\ k \in DOMAIN slices[i].Endpoints
         /\ m \in DOMAIN slices[i].Endpoints[k].Addresses
  BY <1>2, SlotIs, IsSlot
<1>15. \A c : InService(c) <=> endpointReady(c)
  BY DEF InService, endpointReady
<1>16. Nested(x) = Places(portName)
  <2>1. \A i, k, m : <<i, k, m>> \in Places(portName) <=> <<i, k, m>> \in Nested(x)
    <3>1. SUFFICES ASSUME NEW i, NEW k, NEW m
                   PROVE  <<i, k, m>> \in Places(portName) <=> <<i, k, m>> \in Nested(x)
      OBVIOUS
    <3>2. <<i, k, m>> \in Places(portName) <=>
            /\ <<i, k, m>> \in Slots
            /\ \E port \in Range(slices[i].Ports) : Fits(port, portName)
            /\ InService(slices[i].Endpoints[k].Conditions)
      BY DEF Places, Fits
    <3>3. ASSUME i \in 1..n
          PROVE  <<k, m>> \in Cells(x[i]) <=>
                   /\ k \in DOMAIN slices[i].Endpoints
                   /\ m \in DOMAIN slices[i].Endpoints[k].Addresses
                   /\ endpointReady(slices[i].Endpoints[k].Conditions)
                   /\ \E port \in Range(slices[i].Ports) : Fits(port, portName)
      BY <1>5, <3>3 DEF SliceParts
    <3> QED
      BY <1>13, <1>14, <1>15, <3>2, <3>3
  <2>2. \A p \in Nested(x) : \E i, k, m : p = <<i, k, m>>
    BY DEF Nested
  <2>3. \A p \in Places(portName) : \E i, k, m : p = <<i, k, m>>
    BY PlaceIs
  <2> QED
    BY <2>1, <2>2, <2>3
<1>17. ASSUME NEW p \in Places(portName)
       PROVE  PartIs(slices[p[1]], portName, p[2], p[3], listing[f[p]])
  <2>1. PICK i, k, m : p = <<i, k, m>>
    BY PlaceIs
  <2>2. i \in 1..n /\ <<k, m>> \in Cells(x[i]) /\ listing[f[p]] = x[i][k][m]
    BY <1>12, <1>13, <1>16, <2>1
  <2>3. PartIs(slices[i], portName, k, m, x[i][k][m])
    BY <1>5, <2>2 DEF SliceParts
  <2> QED
    BY <2>1, <2>2, <2>3
<1>18. IsListing(f, listing, portName)
  BY <1>12, <1>16, <1>17 DEF IsListing
<1> QED
  BY <1>10, <1>11, <1>18

LEMMA ListingExact == InputTyped => DiscoverExact
<1>1. SUFFICES ASSUME InputTyped, NEW portName \in PortNames
               PROVE  \E f \in Bijection(Places(portName),
                                         DOMAIN Discover(slices, portName)) :
                        \A p \in Places(portName) :
                          ListedFor(p, Discover(slices, portName)[f[p]], portName)
  BY DEF DiscoverExact
<1>2. PICK listing, f : listing = Discover(slices, portName)
                        /\ IsListing(f, listing, portName)
  BY <1>1, ListsPlaces
<1>3. f \in Bijection(Places(portName), DOMAIN listing)
  BY <1>2 DEF IsListing, Numbers, Bijection, Injection, Surjection, IsInjective
<1>4. ASSUME NEW p \in Places(portName)
      PROVE  ListedFor(p, listing[f[p]], portName)
  <2>1. PICK e : e = listing[f[p]]
    OBVIOUS
  <2>2. /\ e.ID = endpointID(slices[p[1]].Endpoints[p[2]], At(p))
        /\ e.URL[1] = At(p)
        /\ \E j \in DOMAIN slices[p[1]].Ports :
             FirstFit(slices[p[1]].Ports, portName, j, e.URL[2])
    BY <1>2, <2>1 DEF IsListing, PartIs, At
  <2>3. \A ep : ep.Pod = NoPod => endpointID(ep, At(p)) = At(p)
    BY DEF endpointID
  <2>4. \A ep : ep.Pod \in Pods => endpointID(ep, At(p)) = ep.Pod
    BY PodsAssumption DEF endpointID
  <2> QED
    BY <2>1, <2>2, <2>3, <2>4 DEF ListedFor, FirstFit, Fits
<1> QED
  BY <1>2, <1>3, <1>4

\* Discover lists every address of every endpoint in service once, under the
\* pod's name if it has one and otherwise under the address, on the first port
\* of its own slice with the configured name, and nothing else, for every set
\* of EndpointSlices (DiscoverExact).
THEOREM DiscoveryExact == Spec => []DiscoverExact
  BY InputCorrect, ListingExact, PTL

\* There are finitely many places: those of the addresses alone, flattened.
LEMMA SlotsFinite ==
  ASSUME InputTyped
  PROVE  IsFiniteSet(Slots)
<1>1. PICK n \in Nat : n = Len(slices) /\ DOMAIN slices = 1..n
  BY LenProperties DEF InputTyped
<1>2. \A i \in 1..n : slices[i] \in Slice
  BY <1>1, ElementOfSeq DEF InputTyped
<1>3. PICK x : x = [i \in 1..n |-> [k \in DOMAIN slices[i].Endpoints |->
                                      slices[i].Endpoints[k].Addresses]]
  OBVIOUS
<1>4. ASSUME NEW i \in 1..n
      PROVE  x[i] \in Seq(Seq(Addresses)) /\ DOMAIN x[i] = DOMAIN slices[i].Endpoints
  <2>1. PICK eps \in Seq(Endpoint) : eps = slices[i].Endpoints
    BY <1>2 DEF Slice
  <2>2. PICK l \in Nat : l = Len(eps) /\ DOMAIN eps = 1..l
    BY LenProperties
  <2>3. \A k \in 1..l : eps[k].Addresses \in Seq(Addresses)
    BY <2>2, ElementOfSeq, EndpointTyped
  <2>4. x[i] = [k \in 1..l |-> eps[k].Addresses]
    BY <1>3, <2>1, <2>2
  <2> QED
    BY <2>1, <2>2, <2>3, <2>4
<1>5. x \in Seq(Seq(Seq(Addresses))) /\ Len(x) = n /\ DOMAIN x = 1..n
  BY <1>3, <1>4
<1>6. PICK flat : flat = [i \in 1..n |-> FlattenSeq(x[i])]
  OBVIOUS
<1>7. flat \in Seq(Seq(Addresses)) /\ Len(flat) = n
  <2>1. \A i \in 1..n : FlattenSeq(x[i]) \in Seq(Addresses)
    BY <1>4, FlattenNumbers
  <2> QED
    BY <1>6, <2>1
<1>8. FlattenSeq(flat) \in Seq(Addresses)
  BY <1>7, FlattenNumbers
<1>9. PICK f : Numbers(f, Nested(x), FlattenSeq(flat))
  BY <1>5, <1>6, <1>7, NestedNumbers DEF NumbersNested
<1>10. IsFiniteSet(Nested(x))
  BY <1>8, <1>9, NumberedCount
<1>11. Slots = Nested(x)
  <2>a. \A i \in 1..n : \A k \in DOMAIN slices[i].Endpoints :
          x[i][k] = slices[i].Endpoints[k].Addresses
    BY <1>3
  <2>b. \A i, k, m : <<i, k, m>> \in Nested(x) <=>
          i \in 1..n /\ k \in DOMAIN x[i] /\ m \in DOMAIN x[i][k]
    BY <1>5 DEF Nested
  <2>c. \A i, k, m : <<i, k, m>> \in Slots <=>
          /\ i \in 1..n /\ k \in DOMAIN slices[i].Endpoints
          /\ m \in DOMAIN slices[i].Endpoints[k].Addresses
    BY <1>1, SlotIs, IsSlot
  <2>1. ASSUME NEW i, NEW k, NEW m
        PROVE  <<i, k, m>> \in Slots <=> <<i, k, m>> \in Nested(x)
    <3>1. ASSUME i \in 1..n
          PROVE  /\ k \in DOMAIN slices[i].Endpoints <=> k \in DOMAIN x[i]
                 /\ k \in DOMAIN x[i] =>
                      (m \in DOMAIN slices[i].Endpoints[k].Addresses
                         <=> m \in DOMAIN x[i][k])
      BY <1>4, <2>a, <3>1
    <3> QED
      BY <2>b, <2>c, <3>1
  <2>2. \A p \in Nested(x) : \E i, k, m : p = <<i, k, m>>
    BY DEF Nested
  <2>3. \A p \in Slots : \E i, k, m : p = <<i, k, m>>
    BY SlotIs
  <2> QED
    BY <2>1, <2>2, <2>3
<1> QED
  BY <1>10, <1>11

LEMMA PodListedOnce == InputTyped => ListingNamesPodOnce
<1>1. SUFFICES ASSUME InputTyped, NEW portName \in PortNames,
                      NEW i \in DOMAIN Discover(slices, portName),
                      NEW j \in DOMAIN Discover(slices, portName),
                      i # j, Discover(slices, portName)[i].ID
                             = Discover(slices, portName)[j].ID
               PROVE  Cardinality(Carriers(Discover(slices, portName)[i].ID)) > 1
  BY DEF ListingNamesPodOnce
<1>2. PICK listing, f : listing = Discover(slices, portName)
                        /\ IsListing(f, listing, portName)
  BY <1>1, ListsPlaces
<1>3. PICK p \in Places(portName), q \in Places(portName) : f[p] = i /\ f[q] = j
  BY <1>1, <1>2 DEF IsListing, Numbers
<1>4. PICK id : id = listing[i].ID
  OBVIOUS
<1>5. PICK carriers : carriers = Carriers(id)
  OBVIOUS
<1>6. p \in carriers /\ q \in carriers /\ p # q
  <2>1. /\ endpointID(slices[p[1]].Endpoints[p[2]], At(p)) = id
        /\ endpointID(slices[q[1]].Endpoints[q[2]], At(q)) = id
    BY <1>1, <1>2, <1>3, <1>4 DEF IsListing, PartIs, At
  <2>2. p \in Slots /\ q \in Slots
    BY DEF Places
  <2> QED
    BY <1>1, <1>3, <1>5, <2>1, <2>2 DEF Carriers
<1>7. IsFiniteSet(carriers)
  BY <1>1, <1>5, SlotsFinite, FS_Subset DEF Carriers
<1>8. Cardinality({p, q}) = 2
  <2>1. IsFiniteSet({p}) /\ Cardinality({p}) = 1
    BY FS_Singleton
  <2>2. Cardinality({p} \cup {q}) = 1 + 1
    BY <1>6, <2>1, FS_AddElement
  <2>3. {p} \cup {q} = {p, q}
    OBVIOUS
  <2> QED
    BY <2>2, <2>3
<1>9. Cardinality({p, q}) <= Cardinality(carriers) /\ Cardinality(carriers) \in Nat
  BY <1>6, <1>7, FS_Subset, FS_CardinalityType
<1> QED
  BY <1>2, <1>4, <1>5, <1>8, <1>9

\* An ID is listed twice only if the slices have two addresses for it, for
\* every set of EndpointSlices (ListingNamesPodOnce): the condition under which
\* HealthKept of BackendPool_proofs holds is then up to the cluster.
THEOREM PodsListedOnce == Spec => []ListingNamesPodOnce
  BY InputCorrect, PodListedOnce, PTL

-----------------------------------------------------------------------------
(* Static backends *)

Token == Separators \cup {"text"} \cup Range(Default.ID \o Default.URL)

Text == Seq(Token)

\* All of t is in s, in its order: what trimming and cutting leave.
PartOf(t, s) ==
  t \in Text /\ \E a \in Nat : \A i \in 1..Len(t) : a + i \in 1..Len(s) /\ t[i] = s[a + i]

Trimmed(t) == t # <<>> => t[1] # " " /\ t[Len(t)] # " "

LEMMA SubSeqPart ==
  ASSUME NEW s \in Text, NEW a \in Int, NEW b \in Int, 1 <= a, b <= Len(s)
  PROVE  /\ PartOf(SubSeq(s, a, b), s)
         /\ Len(SubSeq(s, a, b)) = IF a <= b THEN b - a + 1 ELSE 0
         /\ \A i \in 1..(b - a + 1) : SubSeq(s, a, b)[i] = s[a + i - 1]
<1>1. PICK n \in Nat : n = Len(s) /\ s \in [1..n -> Token]
  BY LenProperties DEF Text
<1>2. \A i \in a..b : s[i] \in Token
  BY <1>1
<1>3. /\ SubSeq(s, a, b) \in Text
      /\ Len(SubSeq(s, a, b)) = IF a <= b THEN b - a + 1 ELSE 0
      /\ \A i \in 1..(b - a + 1) : SubSeq(s, a, b)[i] = s[a + i - 1]
  BY <1>2, SubSeqProperties DEF Text
<1>4. \A i \in 1..Len(SubSeq(s, a, b)) :
        /\ (a - 1) + i \in 1..Len(s) /\ i \in 1..(b - a + 1)
        /\ a + i - 1 = (a - 1) + i
  BY <1>1, <1>3
<1>5. a - 1 \in Nat
  OBVIOUS
<1>6. \A i \in 1..Len(SubSeq(s, a, b)) :
        (a - 1) + i \in 1..Len(s) /\ SubSeq(s, a, b)[i] = s[(a - 1) + i]
  BY <1>3, <1>4
<1> QED
  BY <1>3, <1>5, <1>6 DEF PartOf

LEMMA PartOfPart ==
  ASSUME NEW r \in Text, NEW s \in Text, NEW t, PartOf(s, r), PartOf(t, s)
  PROVE  PartOf(t, r)
<1>1. PICK a \in Nat : \A i \in 1..Len(s) : a + i \in 1..Len(r) /\ s[i] = r[a + i]
  BY DEF PartOf
<1>2. PICK b \in Nat : \A i \in 1..Len(t) : b + i \in 1..Len(s) /\ t[i] = s[b + i]
  BY DEF PartOf
<1>3. a + b \in Nat /\ \A i \in 1..Len(t) : a + (b + i) = (a + b) + i
  BY LenProperties DEF PartOf, Text
<1>4. \A i \in 1..Len(t) : a + (b + i) \in 1..Len(r) /\ t[i] = r[a + (b + i)]
  BY <1>1, <1>2
<1>5. \A i \in 1..Len(t) : (a + b) + i \in 1..Len(r) /\ t[i] = r[(a + b) + i]
  BY <1>3, <1>4
<1> QED
  BY <1>3, <1>5 DEF PartOf

\* Trimming keeps what is between the first and the last that is no space.
LEMMA TrimSpaceOf ==
  ASSUME NEW s \in Text
  PROVE  /\ PartOf(TrimSpace(s), s) /\ Trimmed(TrimSpace(s))
         /\ TrimSpace(s) = <<>> <=> \A i \in 1..Len(s) : s[i] = " "
         /\ Trimmed(s) => TrimSpace(s) = s
<1>1. PICK n \in Nat : n = Len(s) /\ DOMAIN s = 1..n
  BY LenProperties DEF Text
<1>2. PICK keep : keep = {i \in 1..n : s[i] # " "}
  OBVIOUS
<1>3. TrimSpace(s) = IF keep = {} THEN <<>> ELSE SubSeq(s, Min(keep), Max(keep))
  BY <1>1, <1>2 DEF TrimSpace
<1>4. CASE keep = {}
  <2>1. PartOf(<<>>, s)
    <3>1. <<>> \in Text /\ Len(<<>>) = 0
      BY EmptySeq DEF Text
    <3>2. 0 \in Nat /\ \A i \in 1..0 : 0 + i \in 1..Len(s) /\ <<>>[i] = s[0 + i]
      OBVIOUS
    <3> QED
      BY <3>1, <3>2 DEF PartOf
  <2>2. \A i \in 1..Len(s) : s[i] = " "
    BY <1>1, <1>2, <1>4
  <2>3. Trimmed(s) => s = <<>>
    <3>1. SUFFICES ASSUME s # <<>>
                   PROVE  s[1] = " "
      BY DEF Trimmed
    <3>2. 1 \in 1..Len(s)
      BY <1>1, <3>1, EmptySeq DEF Text
    <3> QED
      BY <2>2, <3>2
  <2> QED
    BY <1>3, <1>4, <2>1, <2>2, <2>3 DEF Trimmed
<1>5. CASE keep # {}
  <2>0. keep \in SUBSET (1..n) /\ \A i \in keep : i \in 1..n /\ s[i] # " "
    BY <1>2
  <2>1. PICK a \in 1..n : a \in keep /\ a = Min(keep) /\ \A i \in keep : a <= i
    <3>1. \A i \in 1..n : i \in Nat
      OBVIOUS
    <3>2. keep \in SUBSET Nat
      BY <2>0, <3>1
    <3> QED
      BY <1>5, <2>0, <3>2, MinOfNaturals
  <2>2. PICK b \in 1..n : b \in keep /\ b = Max(keep) /\ \A i \in keep : i <= b
    <3>1. Max(keep) \in keep /\ \A y \in keep : Max(keep) >= y
      BY <1>5, <2>0, MaxOfRange
    <3>2. PICK m \in 1..n : m = Max(keep) /\ m \in keep
      BY <2>0, <3>1
    <3>3. \A y \in 1..n : m >= y => y <= m
      OBVIOUS
    <3> QED
      BY <2>0, <3>1, <3>2, <3>3
  <2>3. a <= b
    BY <2>1, <2>2
  <2>s. s[a] # " " /\ s[b] # " "
    BY <2>0, <2>1, <2>2
  <2>4. PICK t : t = SubSeq(s, a, b)
    OBVIOUS
  <2>5. /\ PartOf(t, s) /\ Len(t) = b - a + 1
        /\ \A i \in 1..(b - a + 1) : t[i] = s[a + i - 1]
    <3>1. a \in Int /\ b \in Int /\ 1 <= a /\ b <= Len(s)
      BY <1>1, <2>3
    <3> QED
      BY <2>3, <2>4, <3>1, SubSeqPart
  <2>6. t[1] = s[a] /\ t[Len(t)] = s[b]
    <3>1. /\ 1 \in 1..(b - a + 1) /\ b - a + 1 \in 1..(b - a + 1)
          /\ a + 1 - 1 = a /\ a + (b - a + 1) - 1 = b
      BY <2>3
    <3> QED
      BY <2>5, <3>1
  <2>7. Trimmed(t) /\ t # <<>>
    <3>1. Len(t) # 0
      BY <2>3, <2>5
    <3>2. t # <<>>
      BY <3>1, EmptySeq
    <3> QED
      BY <2>s, <2>6, <3>2 DEF Trimmed
  <2>8. ~\A i \in 1..Len(s) : s[i] = " "
    BY <1>1, <2>s
  <2>9. ASSUME Trimmed(s)
        PROVE  t = s
    <3>1. 1 \in 1..n /\ n \in 1..n
      BY <2>3
    <3>2. s # <<>>
      BY <1>1, <3>1, EmptySeq
    <3>3. 1 \in keep /\ n \in keep
      BY <1>1, <1>2, <2>9, <3>1, <3>2 DEF Trimmed
    <3>4. a <= 1 /\ n <= b
      BY <2>1, <2>2, <3>3
    <3>5. a = 1 /\ b = n
      BY <3>4
    <3> QED
      BY <1>1, <2>4, <3>5, SubSeqFull DEF Text
  <2> QED
    BY <1>3, <1>5, <2>1, <2>2, <2>4, <2>5, <2>7, <2>8, <2>9
<1> QED
  BY <1>4, <1>5

Without(t, c) == \A i \in 1..Len(t) : t[i] # c

LEMMA PartWithout ==
  ASSUME NEW s \in Text, NEW t, PartOf(t, s), NEW c, Without(s, c)
  PROVE  Without(t, c)
  BY DEF PartOf, Without

LEMMA NotInRange ==
  ASSUME NEW t \in Text, NEW c, Without(t, c)
  PROVE  c \notin Range(t)
<1>1. DOMAIN t = 1..Len(t)
  BY LenProperties DEF Text
<1> QED
  BY <1>1 DEF Without, Range

LEMMA PadMax ==
  ASSUME NEW n \in Nat, NEW s \in SUBSET (1..n)
  PROVE  \E m \in 0..n : m = Max({0} \cup s) /\ m \in {0} \cup s
<1>1. Max({0} \cup s) \in {0} \cup s
  BY LongestOf
<1>2. {0} \cup s \subseteq 0..n
  OBVIOUS
<1> QED
  BY <1>1, <1>2

LEMMA FirstOf ==
  ASSUME NEW n \in Nat, NEW I \in SUBSET (1..n)
  PROVE  \E at \in 0..n : /\ at = IF I # {} THEN Min(I) ELSE 0
                          /\ \A i \in I : at # 0 /\ at <= i
<1>1. CASE I = {}
  BY <1>1
<1>2. CASE I # {}
  <2>1. I \in SUBSET Nat
    OBVIOUS
  <2>2. Min(I) \in I /\ \A i \in I : Min(I) <= i
    BY <1>2, <2>1, MinOfNaturals
  <2>3. PICK m \in 1..n : m = Min(I)
    BY <2>2
  <2>4. m \in 0..n /\ m # 0
    OBVIOUS
  <2> QED
    BY <1>2, <2>2, <2>3, <2>4
<1> QED
  BY <1>1, <1>2

\* Cutting a text at the first c, which the piece before it has not.
LEMMA CutAt ==
  ASSUME NEW s \in Text, NEW c, NEW n \in Nat, n = Len(s), NEW at \in 0..n,
         \A i \in 1..n : s[i] = c => at # 0 /\ at <= i
  PROVE  /\ PartOf(SubSeq(s, at + 1, n), s)
         /\ PartOf(IF at = 0 THEN s ELSE SubSeq(s, 1, at - 1), s)
         /\ Without(IF at = 0 THEN s ELSE SubSeq(s, 1, at - 1), c)
<1>1. DOMAIN s = 1..n
  BY LenProperties DEF Text
<1>2. PartOf(SubSeq(s, at + 1, n), s)
  <2>1. at + 1 \in Int /\ n \in Int /\ 1 <= at + 1 /\ n <= Len(s)
    OBVIOUS
  <2> QED
    BY <2>1, SubSeqPart
<1>3. CASE at = 0
  <2>1. \A i \in 1..n : s[i] # c
    BY <1>3
  <2>2. 0 \in Nat /\ \A i \in 1..n : 0 + i \in 1..n /\ s[i] = s[0 + i]
    OBVIOUS
  <2> QED
    BY <1>2, <1>3, <2>1, <2>2 DEF PartOf, Without
<1>4. CASE at # 0
  <2>1. PICK b \in Int : b = at - 1 /\ b \in 0..n /\ b < at
    BY <1>4
  <2>2. 1 \in Int /\ 1 <= 1 /\ b <= Len(s)
    BY <2>1
  <2>3. /\ PartOf(SubSeq(s, 1, b), s)
        /\ Len(SubSeq(s, 1, b)) = (IF 1 <= b THEN b - 1 + 1 ELSE 0)
        /\ \A i \in 1..(b - 1 + 1) : SubSeq(s, 1, b)[i] = s[1 + i - 1]
    BY <2>1, <2>2, SubSeqPart
  <2>4. Len(SubSeq(s, 1, b)) = b
    BY <2>1, <2>3
  <2>5. ASSUME NEW i \in 1..b
        PROVE  SubSeq(s, 1, b)[i] # c
    <3>1. i \in 1..(b - 1 + 1) /\ 1 + i - 1 = i /\ i \in 1..n /\ ~(at <= i)
      BY <2>1
    <3>2. SubSeq(s, 1, b)[i] = s[i]
      BY <2>3, <3>1
    <3> QED
      BY <3>1, <3>2
  <2>6. Without(SubSeq(s, 1, b), c)
    BY <2>4, <2>5 DEF Without
  <2> QED
    BY <1>2, <1>4, <2>1, <2>3, <2>6
<1> QED
  BY <1>3, <1>4

LEMMA TrimSlashesOf ==
  ASSUME NEW s \in Text
  PROVE  /\ PartOf(TrimSlashes(s), s)
         /\ LET t == TrimSlashes(s) IN t # <<>> => t[Len(t)] # "/"
<1>1. PICK n \in Nat : n = Len(s) /\ DOMAIN s = 1..n
  BY LenProperties DEF Text
<1>2. PICK keep \in SUBSET (1..n) : keep = {i \in 1..n : s[i] # "/"}
  OBVIOUS
<1>3. PICK m \in 0..n : m = Max({0} \cup keep) /\ m \in {0} \cup keep
  BY PadMax
<1>4. PICK t : t = SubSeq(s, 1, m)
  OBVIOUS
<1>5. TrimSlashes(s) = t
  BY <1>1, <1>2, <1>3, <1>4 DEF TrimSlashes
<1>6. 1 \in Int /\ m \in Int /\ 1 <= 1 /\ m <= Len(s)
  BY <1>1
<1>7. /\ PartOf(t, s) /\ Len(t) = (IF 1 <= m THEN m - 1 + 1 ELSE 0)
      /\ \A i \in 1..(m - 1 + 1) : t[i] = s[1 + i - 1]
  BY <1>4, <1>6, SubSeqPart
<1>8. Len(t) = m
  BY <1>7
<1>9. ASSUME t # <<>>
      PROVE  t[m] # "/"
  <2>1. t \in Text
    BY <1>7 DEF PartOf
  <2>2. Len(t) \in Nat \ {0}
    BY <1>9, <2>1, EmptySeq DEF Text
  <2>3. m # 0 /\ m \in 1..(m - 1 + 1) /\ 1 + m - 1 = m
    BY <1>8, <2>2
  <2>4. t[m] = s[m]
    BY <1>7, <2>3
  <2>5. m \in keep
    BY <1>3, <2>3
  <2> QED
    BY <1>2, <2>4, <2>5
<1> QED
  BY <1>5, <1>7, <1>8, <1>9

\* An endpoint as parseBackends should make it.
WellFormed(e) ==
  /\ e.ID \in Text /\ e.URL \in Text
  /\ Without(e.ID, "=") /\ Without(e.ID, ",") /\ Without(e.URL, ",")
  /\ TrimSpace(e.ID) = e.ID
  /\ e.URL # <<>> => e.URL[Len(e.URL)] # "/"

LEMMA EndpointOf ==
  ASSUME NEW part \in Text, Without(part, ",")
  PROVE  WellFormed(parseEndpoint(part))
<1>1. PICK n \in Nat : n = Len(part)
  BY LenProperties DEF Text
<1>2. PICK at : at = SelectInSeq(part, LAMBDA t : t = "=")
  OBVIOUS
<1>3. PICK head : head = IF at = 0 THEN part ELSE SubSeq(part, 1, at - 1)
  OBVIOUS
<1>4. PICK tail : tail = SubSeq(part, at + 1, n)
  OBVIOUS
<1>5. PICK e : e = parseEndpoint(part)
  OBVIOUS
<1>6. e.ID = TrimSpace(head) /\ e.URL = TrimSlashes(TrimSpace(tail))
  BY <1>1, <1>2, <1>3, <1>4, <1>5 DEF parseEndpoint
<1>7. PICK I \in SUBSET (1..n) : I = {i \in 1..n : part[i] = "="}
  OBVIOUS
<1>8. at = IF I # {} THEN Min(I) ELSE 0
  BY <1>1, <1>2, <1>7 DEF SelectInSeq
<1>9. PartOf(head, part) /\ Without(head, "=") /\ PartOf(tail, part)
  <2>1. at \in 0..n /\ \A i \in I : at # 0 /\ at <= i
    BY <1>8, FirstOf
  <2>2. \A i \in 1..n : part[i] = "=" => at # 0 /\ at <= i
    BY <1>7, <2>1
  <2> QED
    BY <1>1, <1>3, <1>4, <2>1, <2>2, CutAt
<1>10. /\ e.ID \in Text /\ PartOf(e.ID, head) /\ Trimmed(e.ID)
       /\ Without(e.ID, "=") /\ Without(e.ID, ",") /\ TrimSpace(e.ID) = e.ID
  <2>1. head \in Text /\ Without(head, ",")
    BY <1>9, PartWithout DEF PartOf
  <2>2. PartOf(e.ID, head) /\ Trimmed(e.ID)
    BY <1>6, <2>1, TrimSpaceOf
  <2>3. e.ID \in Text
    BY <2>2 DEF PartOf
  <2>4. Without(e.ID, "=") /\ Without(e.ID, ",")
    BY <1>9, <2>1, <2>2, PartWithout
  <2> QED
    BY <2>2, <2>3, <2>4, TrimSpaceOf
<1>11. e.URL \in Text /\ Without(e.URL, ",")
       /\ (e.URL # <<>> => e.URL[Len(e.URL)] # "/")
  <2>1. tail \in Text /\ Without(tail, ",")
    BY <1>9, PartWithout DEF PartOf
  <2>2. PICK mid : mid = TrimSpace(tail) /\ PartOf(mid, tail)
    BY <2>1, TrimSpaceOf
  <2>3. mid \in Text /\ Without(mid, ",")
    BY <2>1, <2>2, PartWithout DEF PartOf
  <2>4. PartOf(e.URL, mid) /\ (e.URL # <<>> => e.URL[Len(e.URL)] # "/")
    BY <1>6, <2>2, <2>3, TrimSlashesOf
  <2> QED
    BY <2>3, <2>4, PartWithout DEF PartOf
<1> QED
  BY <1>5, <1>10, <1>11 DEF WellFormed

\* One token of BACKENDS, as Split takes it.
SplitStep(parts, t) ==
  IF t = "," THEN Append(parts, <<>>)
  ELSE [parts EXCEPT ![Len(parts)] = Append(@, t)]

Cuts == Seq(Text) \ {<<>>}

LEMMA SplitStepType ==
  ASSUME NEW parts \in Cuts, NEW t \in Token
  PROVE  SplitStep(parts, t) \in Cuts
<1>1. PICK n \in Nat : n = Len(parts) /\ n \in 1..n
  BY EmptySeq DEF Cuts
<1>2. CASE t = ","
  <2>1. SplitStep(parts, t) = Append(parts, <<>>)
    BY <1>2 DEF SplitStep
  <2>2. <<>> \in Text
    BY EmptySeq DEF Text
  <2> QED
    BY <2>1, <2>2, AppendProperties DEF Cuts
<1>3. CASE t # ","
  <2>1. PICK last : last = Append(parts[n], t)
    OBVIOUS
  <2>2. SplitStep(parts, t) = [parts EXCEPT ![n] = last]
    BY <1>1, <1>3, <2>1 DEF SplitStep
  <2>3. last \in Text
    BY <1>1, <2>1, ElementOfSeq, AppendProperties DEF Cuts, Text
  <2>4. /\ [parts EXCEPT ![n] = last] \in Seq(Text)
        /\ Len([parts EXCEPT ![n] = last]) = n
    BY <1>1, <2>3, ExceptSeq DEF Cuts
  <2>5. n # 0
    BY <1>1
  <2>6. [parts EXCEPT ![n] = last] # <<>>
    BY <2>4, <2>5, EmptySeq
  <2> QED
    BY <2>2, <2>4, <2>6 DEF Cuts
<1> QED
  BY <1>2, <1>3

SplitSteps(s, n, f) ==
  /\ f \in [0..n -> Cuts]
  /\ f[0] = << <<>> >>
  /\ Split(s) = f[n]
  /\ \A k \in 0..(n - 1) : f[k + 1] = SplitStep(f[k], s[k + 1])

LEMMA SplitWalk ==
  ASSUME NEW list \in Text, NEW n \in Nat, n = Len(list)
  PROVE  \E f : SplitSteps(list, n, f)
<1> DEFINE a    == << <<>> >>
           g    == [p \in Cuts \X (1..n) |-> SplitStep(p[1], list[p[2]])]
           iter == CHOOSE iter : iter =
                     [s \in SUBSET DOMAIN list |->
                        IF s = {} THEN << <<>> >>
                        ELSE LET x == Max(s)
                             IN  SplitStep(iter[s \ {x}], list[x])]
<1>1. DOMAIN list = 1..n /\ \A i \in 1..n : list[i] \in Token
  BY LenProperties, ElementOfSeq DEF Text
<1>2. Split(list) = iter[1..n]
  BY <1>1 DEF Split, SplitStep, FoldLeft, MapThenFoldSet
<1>3. a \in Cuts
  <2>1. <<>> \in Text
    BY EmptySeq DEF Text
  <2>2. PICK e : e = <<>>
    OBVIOUS
  <2>3. <<e>> \in Seq(Text) /\ <<e>> # <<>>
    BY <2>1, <2>2
  <2> QED
    BY <2>2, <2>3 DEF Cuts
<1> HIDE DEF a
<1>4. ASSUME NEW v \in Cuts, NEW i \in 1..n
      PROVE  SplitStep(v, list[i]) \in Cuts
  BY <1>1, SplitStepType
<1>5. g \in [Cuts \X (1..n) -> Cuts]
  BY <1>4
<1>6. \A v \in Cuts, i \in 1..n : g[<<v, i>>] = SplitStep(v, list[i])
  OBVIOUS
<1> HIDE DEF g
<1>7. Foldable(Cuts, n, a, g)
  BY <1>3, <1>5 DEF Foldable
<1>8. PICK h : Solution(Cuts, n, a, g, h)
  BY <1>7, SolutionExists
<1>9. h = [s \in SUBSET DOMAIN list |->
             IF s = {} THEN a
             ELSE LET x == Max(s) IN SplitStep(h[s \ {x}], list[x])]
  <2>1. \A s \in SUBSET (1..n) : s # {} =>
          g[<<h[s \ {Max(s)}], Max(s)>>]
            = SplitStep(h[s \ {Max(s)}], list[Max(s)])
    BY <1>6, <1>8, MaxOfRange DEF Solution
  <2> QED
    BY <1>1, <1>8, <2>1 DEF FoldRound, Solution
<1>10. iter = [s \in SUBSET DOMAIN list |->
                 IF s = {} THEN a
                 ELSE LET x == Max(s) IN SplitStep(iter[s \ {x}], list[x])]
  BY <1>9 DEF a
<1> HIDE DEF iter
<1>11. Satisfies(Cuts, n, a, g, iter)
  <2>1. iter[{}] = a
    BY <1>10
  <2>2. ASSUME NEW s \in SUBSET (1..n), s # {}, iter[s \ {Max(s)}] \in Cuts
        PROVE  iter[s] = g[<<iter[s \ {Max(s)}], Max(s)>>]
    <3>1. Max(s) \in 1..n
      BY <2>2, MaxOfRange
    <3>2. iter[s] = SplitStep(iter[s \ {Max(s)}], list[Max(s)])
      BY <1>1, <1>10, <2>2
    <3> QED
      BY <1>6, <2>2, <3>1, <3>2
  <2> QED
    BY <2>1, <2>2 DEF Satisfies
<1>12. PICK f : Folded(Cuts, n, a, g, f) /\ f[n] = iter[1..n]
  BY <1>7, <1>11, FoldedExists
<1>13. \A k \in 0..(n - 1) : f[k + 1] = SplitStep(f[k], list[k + 1])
  <2>1. SUFFICES ASSUME NEW k \in 0..(n - 1)
                 PROVE  f[k + 1] = SplitStep(f[k], list[k + 1])
    OBVIOUS
  <2>2. f[k] \in Cuts /\ k + 1 \in 1..n /\ f[k + 1] = g[<<f[k], k + 1>>]
    BY <1>12, SMTT(30) DEF Folded
  <2> QED
    BY <1>6, <2>2
<1> QED
  BY <1>2, <1>12, <1>13 DEF Folded, SplitSteps, a

\* The first k tokens end in the middle of an entry.
Open(k) == \E j \in 1..k : raw[j] # " " /\ \A m \in j..k : raw[m] # ","

Begun(k) == Entries \cap (1..k)

LEMMA OpenStep ==
  ASSUME NEW k \in Nat
  PROVE  Open(k + 1) <=> raw[k + 1] # "," /\ (raw[k + 1] # " " \/ Open(k))
<1>1. ASSUME Open(k + 1)
      PROVE  raw[k + 1] # "," /\ (raw[k + 1] # " " \/ Open(k))
  <2>1. PICK j \in 1..(k + 1) : raw[j] # " " /\ \A m \in j..(k + 1) : raw[m] # ","
    BY <1>1 DEF Open
  <2>2. k + 1 \in j..(k + 1) /\ j..k \subseteq j..(k + 1)
        /\ (j = k + 1 \/ j \in 1..k)
    OBVIOUS
  <2> QED
    BY <2>1, <2>2 DEF Open
<1>2. ASSUME raw[k + 1] # ",", raw[k + 1] # " "
      PROVE  Open(k + 1)
  <2>1. k + 1 \in 1..(k + 1) /\ \A m \in (k + 1)..(k + 1) : m = k + 1
    OBVIOUS
  <2> QED
    BY <1>2, <2>1 DEF Open
<1>3. ASSUME raw[k + 1] # ",", Open(k)
      PROVE  Open(k + 1)
  <2>1. PICK j \in 1..k : raw[j] # " " /\ \A m \in j..k : raw[m] # ","
    BY <1>3 DEF Open
  <2>2. j \in 1..(k + 1) /\ \A m \in j..(k + 1) : m \in j..k \/ m = k + 1
    OBVIOUS
  <2> QED
    BY <1>3, <2>1, <2>2 DEF Open
<1> QED
  BY <1>1, <1>2, <1>3

LEMMA BegunStep ==
  ASSUME InputTyped, NEW k \in Nat, k + 1 <= Len(raw)
  PROVE  /\ IsFiniteSet(Begun(k)) /\ k + 1 \notin Begun(k)
         /\ Begun(k + 1) = IF raw[k + 1] \notin {",", " "} /\ ~Open(k)
                            THEN Begun(k) \cup {k + 1} ELSE Begun(k)
<1>1. PICK n \in Nat : n = Len(raw) /\ DOMAIN raw = 1..n
  BY LenProperties DEF InputTyped
<1>2. IsFiniteSet(1..k)
  BY FS_Interval
<1>3. IsFiniteSet(Begun(k))
  BY <1>2, FS_Subset DEF Begun
<1>4. k + 1 \notin 1..k /\ 1..(k + 1) = (1..k) \cup {k + 1}
      /\ (k + 1) - 1 = k /\ k + 1 \in 1..n
  BY <1>1
<1>5. k + 1 \in Entries <=> raw[k + 1] \notin {",", " "} /\ ~Open(k)
  BY <1>1, <1>4 DEF Entries, Open
<1> QED
  BY <1>3, <1>4, <1>5 DEF Begun

Blank(t) == \A i \in 1..Len(t) : t[i] = " "

\* The parts among the first n that say something.
Said(parts, n) == {i \in 1..n : ~Blank(parts[i])}

\* What Split has after k tokens: the last part is blank unless an entry is
\* open, and as many parts say something as entries have begun.
Parsed(parts, k) ==
  /\ parts \in Cuts
  /\ \A i \in 1..Len(parts) : Without(parts[i], ",")
  /\ ~Blank(parts[Len(parts)]) <=> Open(k)
  /\ Cardinality(Said(parts, Len(parts))) = Cardinality(Begun(k))

LEMMA NothingParsed == Parsed(<< <<>> >>, 0)
<1>1. PICK e, parts : e = <<>> /\ parts = <<e>>
  OBVIOUS
<1>2. e \in Text /\ Len(e) = 0
  BY <1>1, EmptySeq DEF Text
<1>3. parts \in Seq(Text) /\ parts # <<>> /\ Len(parts) = 1 /\ parts[1] = e
  BY <1>1, <1>2
<1>4. Blank(e) /\ Without(e, ",")
  BY <1>2 DEF Blank, Without
<1>o. 1..1 = {1}
  OBVIOUS
<1>5. Said(parts, 1) = {}
  BY <1>3, <1>4, <1>o DEF Said
<1>6. ~Open(0) /\ Begun(0) = {}
  BY DEF Open, Begun
<1>7. parts \in Cuts
  BY <1>3 DEF Cuts
<1>8. \A i \in 1..Len(parts) : Without(parts[i], ",")
  BY <1>3, <1>4, <1>o
<1>9. ~Blank(parts[Len(parts)]) <=> Open(0)
  BY <1>3, <1>4, <1>6
<1>10. Cardinality(Said(parts, Len(parts))) = Cardinality(Begun(0))
  BY <1>3, <1>5, <1>6
<1> QED
  BY <1>1, <1>7, <1>8, <1>9, <1>10 DEF Parsed

\* A token at the end of a part.
LEMMA TokenAdded ==
  ASSUME NEW s \in Text, NEW t \in Token
  PROVE  /\ Append(s, t) \in Text
         /\ Blank(Append(s, t)) <=> Blank(s) /\ t = " "
         /\ \A c : Without(Append(s, t), c) <=> Without(s, c) /\ t # c
<1>1. PICK n \in Nat : n = Len(s)
  BY LenProperties DEF Text
<1>2. PICK r : r = Append(s, t)
  OBVIOUS
<1>3. /\ r \in Text /\ Len(r) = n + 1 /\ r[n + 1] = t
      /\ \A i \in 1..n : r[i] = s[i]
  BY <1>1, <1>2, AppendProperties DEF Text
<1>4. 1..(n + 1) = (1..n) \cup {n + 1}
  OBVIOUS
<1>5. Blank(r) <=> Blank(s) /\ t = " "
  BY <1>1, <1>3, <1>4 DEF Blank
<1>6. \A c : Without(r, c) <=> Without(s, c) /\ t # c
  BY <1>1, <1>3, <1>4 DEF Without
<1> QED
  BY <1>2, <1>3, <1>5, <1>6

LEMMA SaidFinite ==
  ASSUME NEW parts, NEW n \in Nat
  PROVE  IsFiniteSet(Said(parts, n))
<1>1. IsFiniteSet(1..n)
  BY FS_Interval
<1> QED
  BY <1>1, FS_Subset DEF Said

LEMMA CutsNotEmpty ==
  ASSUME NEW parts \in Cuts
  PROVE  parts \in Seq(Text) /\ \E n \in Nat : n = Len(parts) /\ n \in 1..n
<1>1. parts \in Seq(Text) /\ Len(parts) \in Nat \ {0}
  BY EmptySeq DEF Cuts
<1> QED
  BY <1>1

LEMMA PartAdded ==
  ASSUME NEW parts \in Seq(Text), NEW n, n = Len(parts), NEW e \in Text
  PROVE  /\ Len(Append(parts, e)) = n + 1
         /\ Append(parts, e)[n + 1] = e
         /\ \A i \in 1..n : Append(parts, e)[i] = parts[i]
  BY AppendProperties

LEMMA PartReplaced ==
  ASSUME NEW parts \in Seq(Text), NEW n, n = Len(parts), n \in 1..n,
         NEW e \in Text
  PROVE  /\ Len([parts EXCEPT ![n] = e]) = n
         /\ \A i \in 1..n :
              [parts EXCEPT ![n] = e][i] = IF i = n THEN e ELSE parts[i]
  BY ExceptSeq

LEMMA TokensText == Separators \cup {"text"} \subseteq Token
  BY DEF Token

LEMMA TokenTyped ==
  ASSUME InputTyped, NEW k \in Nat, k + 1 <= Len(raw)
  PROVE  raw[k + 1] \in Token
<1>1. PICK tokens : tokens = Separators \cup {"text"}
  OBVIOUS
<1>2. raw \in Seq(tokens)
  BY <1>1 DEF InputTyped, Tokens
<1>3. k + 1 \in 1..Len(raw)
  BY <1>2, LenProperties
<1>4. raw[k + 1] \in tokens
  BY <1>2, <1>3, ElementOfSeq
<1> QED
  BY <1>1, <1>4, TokensText

LEMMA ParsedStep ==
  ASSUME InputTyped, NEW k \in Nat, k + 1 <= Len(raw),
         NEW parts, Parsed(parts, k)
  PROVE  Parsed(SplitStep(parts, raw[k + 1]), k + 1)
<1>1. PICK n \in Nat : n = Len(parts) /\ n \in 1..n
  BY CutsNotEmpty DEF Parsed
<1>2. PICK t \in Token : t = raw[k + 1]
  BY TokenTyped
<1>3. PICK last : last = parts[n]
  OBVIOUS
<1>4. /\ parts \in Cuts /\ parts \in Seq(Text) /\ last \in Text
      /\ \A i \in 1..n : Without(parts[i], ",")
      /\ ~Blank(last) <=> Open(k)
      /\ Cardinality(Said(parts, n)) = Cardinality(Begun(k))
  BY <1>1, <1>3, ElementOfSeq DEF Parsed, Cuts
<1>5. PICK next : next = SplitStep(parts, t)
  OBVIOUS
<1>6. next \in Cuts
  BY <1>2, <1>4, <1>5, SplitStepType
<1>7. Open(k + 1) <=> t # "," /\ (t # " " \/ Open(k))
  BY <1>2, OpenStep
<1>8. /\ IsFiniteSet(Begun(k)) /\ k + 1 \notin Begun(k)
      /\ Begun(k + 1) = IF t \notin {",", " "} /\ ~Open(k)
                        THEN Begun(k) \cup {k + 1} ELSE Begun(k)
  BY <1>2, BegunStep
<1>9. CASE t = ","
  <2>1. PICK e : e = <<>>
    OBVIOUS
  <2>2. e \in Text /\ Len(e) = 0
    BY <2>1, EmptySeq DEF Text
  <2>3. Blank(e) /\ Without(e, ",")
    BY <2>2 DEF Blank, Without
  <2>4. next = Append(parts, e)
    BY <1>5, <1>9, <2>1 DEF SplitStep
  <2>5. Len(next) = n + 1 /\ next[n + 1] = e /\ \A i \in 1..n : next[i] = parts[i]
    <3>1. /\ Len(Append(parts, e)) = n + 1
          /\ Append(parts, e)[n + 1] = e
          /\ \A i \in 1..n : Append(parts, e)[i] = parts[i]
      <4>1. parts \in Seq(Text) /\ e \in Text
        BY <1>4, <2>2
      <4> QED
        BY <1>1, <4>1, PartAdded
    <3> QED
      BY <2>4, <3>1
  <2>6. 1..(n + 1) = (1..n) \cup {n + 1}
    OBVIOUS
  <2>7. Said(next, n + 1) = Said(parts, n)
    BY <2>3, <2>5, <2>6 DEF Said
  <2>8. Begun(k + 1) = Begun(k) /\ ~Open(k + 1)
    BY <1>7, <1>8, <1>9
  <2>9. \A i \in 1..(n + 1) : Without(next[i], ",")
    BY <1>4, <2>3, <2>5, <2>6
  <2> QED
    BY <1>2, <1>4, <1>5, <1>6, <2>3, <2>5, <2>7, <2>8, <2>9 DEF Parsed
<1>10. CASE t # ","
  <2>1. PICK longer : longer = Append(last, t)
    OBVIOUS
  <2>2. /\ longer \in Text
        /\ Blank(longer) <=> Blank(last) /\ t = " "
        /\ Without(longer, ",") <=> Without(last, ",") /\ t # ","
    BY <1>4, <2>1, TokenAdded
  <2>3. next = [parts EXCEPT ![n] = longer]
    BY <1>1, <1>3, <1>5, <1>10, <2>1 DEF SplitStep
  <2>4. /\ Len(next) = n
        /\ \A i \in 1..n : next[i] = IF i = n THEN longer ELSE parts[i]
    <3>1. /\ Len([parts EXCEPT ![n] = longer]) = n
          /\ \A i \in 1..n :
               [parts EXCEPT ![n] = longer][i] = IF i = n THEN longer ELSE parts[i]
      <4>1. parts \in Seq(Text) /\ longer \in Text
        BY <1>4, <2>2
      <4> QED
        BY <1>1, <4>1, PartReplaced
    <3> QED
      BY <2>3, <3>1
  <2>5. \A i \in 1..n : Without(next[i], ",")
    BY <1>1, <1>3, <1>4, <1>10, <2>2, <2>4
  <2>6. ~Blank(next[n]) <=> Open(k + 1)
    BY <1>1, <1>4, <1>7, <1>10, <2>2, <2>4
  <2>7. Cardinality(Said(next, n)) = Cardinality(Begun(k + 1))
    <3>1. CASE t = " "
      <4>1. Said(next, n) = Said(parts, n)
        BY <1>1, <1>3, <2>2, <2>4, <3>1 DEF Said
      <4>2. Begun(k + 1) = Begun(k)
        BY <1>8, <3>1
      <4> QED
        BY <1>4, <4>1, <4>2
    <3>2. CASE t # " "
      <4>1. Said(next, n) = Said(parts, n) \cup {n}
        BY <1>1, <1>3, <2>2, <2>4, <3>2 DEF Said
      <4>2. n \in Said(parts, n) <=> Open(k)
        BY <1>1, <1>3, <1>4 DEF Said
      <4>3. Begun(k + 1) = IF ~Open(k) THEN Begun(k) \cup {k + 1} ELSE Begun(k)
        BY <1>8, <1>10, <3>2
      <4>4. CASE Open(k)
        <5>1. Said(next, n) = Said(parts, n)
          BY <4>1, <4>2, <4>4
        <5> QED
          BY <1>4, <4>3, <4>4, <5>1
      <4>5. CASE ~Open(k)
        <5>1. /\ Cardinality(Said(parts, n) \cup {n})
                   = Cardinality(Said(parts, n)) + 1
          BY <4>2, <4>5, SaidFinite, FS_AddElement
        <5>2. Cardinality(Begun(k) \cup {k + 1}) = Cardinality(Begun(k)) + 1
          BY <1>8, FS_AddElement
        <5> QED
          BY <1>4, <4>1, <4>3, <4>5, <5>1, <5>2
      <4> QED
        BY <4>4, <4>5
    <3> QED
      BY <3>1, <3>2
  <2> QED
    BY <1>2, <1>5, <1>6, <2>4, <2>5, <2>6, <2>7 DEF Parsed
<1> QED
  BY <1>9, <1>10

LEMMA AllParsed ==
  ASSUME InputTyped
  PROVE  /\ Parsed(Split(raw), Len(raw))
         /\ Begun(Len(raw)) = Entries
<1>1. PICK n \in Nat : n = Len(raw) /\ DOMAIN raw = 1..n
  BY LenProperties DEF InputTyped
<1>2. raw \in Text
  BY TokensText, SeqMonotonic DEF InputTyped, Text, Tokens
<1>3. PICK f : SplitSteps(raw, n, f)
  BY <1>1, <1>2, SplitWalk
<1> DEFINE S == {k \in Nat : k <= n => Parsed(f[k], k)}
<1>4. 0 \in S
  <2>1. Parsed(f[0], 0)
    BY <1>3, NothingParsed DEF SplitSteps
  <2> QED
    BY <2>1
<1>5. ASSUME NEW k \in Nat, k \in S
      PROVE  k + 1 \in S
  <2>1. SUFFICES ASSUME k + 1 <= n
                 PROVE  Parsed(f[k + 1], k + 1)
    OBVIOUS
  <2>2. k \in 0..(n - 1) /\ Parsed(f[k], k) /\ k + 1 <= Len(raw)
    BY <1>1, <1>5, <2>1
  <2>3. Parsed(SplitStep(f[k], raw[k + 1]), k + 1)
    BY <2>2, ParsedStep
  <2>4. f[k + 1] = SplitStep(f[k], raw[k + 1])
    BY <1>3, <2>2 DEF SplitSteps
  <2> QED
    BY <2>3, <2>4
<1>6. n \in S
  <2> HIDE DEF S
  <2> QED
    BY <1>4, <1>5, SetInduction
<1>7. Parsed(Split(raw), n)
  BY <1>3, <1>6 DEF SplitSteps
<1>8. Begun(n) = Entries
  BY <1>1 DEF Begun, Entries
<1> QED
  BY <1>1, <1>7, <1>8

\* One part of BACKENDS, as parseBackends takes it.
ParseStep(eps, part) ==
  IF TrimSpace(part) = <<>> THEN eps
  ELSE Append(eps, parseEndpoint(TrimSpace(part)))

Formed == {e \in [ID : Text, URL : Text] : WellFormed(e)}

LEMMA ParseStepType ==
  ASSUME NEW eps \in Seq(Formed), NEW part \in Text, Without(part, ",")
  PROVE  /\ ParseStep(eps, part) \in Seq(Formed)
         /\ Len(ParseStep(eps, part)) =
              IF Blank(part) THEN Len(eps) ELSE Len(eps) + 1
<1>1. PICK t : t = TrimSpace(part)
  OBVIOUS
<1>2. /\ t \in Text /\ Without(t, ",")
      /\ t = <<>> <=> Blank(part)
  <2>1. PartOf(t, part) /\ (t = <<>> <=> Blank(part))
    BY <1>1, TrimSpaceOf DEF Blank
  <2> QED
    BY <2>1, PartWithout DEF PartOf
<1>3. PICK e : e = parseEndpoint(t)
  OBVIOUS
<1>4. WellFormed(e)
  BY <1>2, <1>3, EndpointOf
<1>5. e \in [ID : Text, URL : Text]
  <2>1. PICK a, b : e = [ID |-> a, URL |-> b]
    BY <1>3 DEF parseEndpoint
  <2>2. e.ID = a /\ e.URL = b
    BY <2>1
  <2>3. a \in Text /\ b \in Text
    BY <1>4, <2>2 DEF WellFormed
  <2> QED
    BY <2>1, <2>3
<1>6. e \in Formed
  BY <1>4, <1>5 DEF Formed
<1>7. CASE Blank(part)
  <2>1. ParseStep(eps, part) = eps
    BY <1>1, <1>2, <1>7 DEF ParseStep
  <2> QED
    BY <1>7, <2>1
<1>8. CASE ~Blank(part)
  <2>1. ParseStep(eps, part) = Append(eps, e)
    BY <1>1, <1>2, <1>3, <1>8 DEF ParseStep
  <2>2. Append(eps, e) \in Seq(Formed) /\ Len(Append(eps, e)) = Len(eps) + 1
    BY <1>6, AppendProperties
  <2> QED
    BY <1>8, <2>1, <2>2
<1> QED
  BY <1>7, <1>8

ParseSteps(s, d, n, f) ==
  /\ f \in [0..n -> Seq(Formed)]
  /\ f[0] = <<>>
  /\ parseBackends(s, d) = f[n]
  /\ \A k \in 0..(n - 1) : f[k + 1] = ParseStep(f[k], Split(s)[k + 1])

\* The parts of a text, none of which holds a comma.
Parts(list, n) ==
  list \in Seq(Text) /\ n = Len(list) /\ \A i \in 1..n : Without(list[i], ",")

LEMMA ParseWalk ==
  ASSUME NEW s, s # <<>>, NEW d, NEW n \in Nat, Parts(Split(s), n)
  PROVE  \E f : ParseSteps(s, d, n, f)
<1>0. PICK list : list = Split(s)
  OBVIOUS
<1>v. PICK V : V = Seq(Formed)
  OBVIOUS
<1> DEFINE g    == [p \in V \X (1..n) |-> ParseStep(p[1], list[p[2]])]
           iter == CHOOSE iter : iter =
                     [ss \in SUBSET DOMAIN list |->
                        IF ss = {} THEN <<>>
                        ELSE LET x == Max(ss)
                             IN  ParseStep(iter[ss \ {x}], list[x])]
<1>1. /\ DOMAIN list = 1..n
      /\ \A i \in 1..n : list[i] \in Text /\ Without(list[i], ",")
  BY <1>0, LenProperties, ElementOfSeq DEF Parts
<1>2. parseBackends(s, d) = iter[1..n]
  BY <1>0, <1>1 DEF parseBackends, ParseStep, FoldLeft, MapThenFoldSet
<1>3. <<>> \in V
  BY <1>v, EmptySeq
<1>4. ASSUME NEW v \in V, NEW i \in 1..n
      PROVE  ParseStep(v, list[i]) \in V
  BY <1>1, <1>v, ParseStepType
<1>5. g \in [V \X (1..n) -> V]
  BY <1>4
<1>6. \A v \in V, i \in 1..n : g[<<v, i>>] = ParseStep(v, list[i])
  OBVIOUS
<1> HIDE DEF g
<1>7. Foldable(V, n, <<>>, g)
  BY <1>3, <1>5 DEF Foldable
<1>8. PICK h : Solution(V, n, <<>>, g, h)
  BY <1>7, SolutionExists
<1>9. h = [ss \in SUBSET DOMAIN list |->
             IF ss = {} THEN <<>>
             ELSE LET x == Max(ss) IN ParseStep(h[ss \ {x}], list[x])]
  <2>1. \A ss \in SUBSET (1..n) : ss # {} =>
          g[<<h[ss \ {Max(ss)}], Max(ss)>>]
            = ParseStep(h[ss \ {Max(ss)}], list[Max(ss)])
    BY <1>6, <1>8, MaxOfRange DEF Solution
  <2> QED
    BY <1>1, <1>8, <2>1 DEF FoldRound, Solution
<1>10. iter = [ss \in SUBSET DOMAIN list |->
                 IF ss = {} THEN <<>>
                 ELSE LET x == Max(ss) IN ParseStep(iter[ss \ {x}], list[x])]
  BY <1>9
<1> HIDE DEF iter
<1>11. Satisfies(V, n, <<>>, g, iter)
  <2>1. iter[{}] = <<>>
    BY <1>10
  <2>2. ASSUME NEW ss \in SUBSET (1..n), ss # {}, iter[ss \ {Max(ss)}] \in V
        PROVE  iter[ss] = g[<<iter[ss \ {Max(ss)}], Max(ss)>>]
    <3>1. Max(ss) \in 1..n
      BY <2>2, MaxOfRange
    <3>2. iter[ss] = ParseStep(iter[ss \ {Max(ss)}], list[Max(ss)])
      BY <1>1, <1>10, <2>2
    <3> QED
      BY <1>6, <2>2, <3>1, <3>2
  <2> QED
    BY <2>1, <2>2 DEF Satisfies
<1>12. PICK f : Folded(V, n, <<>>, g, f) /\ f[n] = iter[1..n]
  BY <1>7, <1>11, FoldedExists
<1>13. \A k \in 0..(n - 1) : f[k + 1] = ParseStep(f[k], list[k + 1])
  <2>1. SUFFICES ASSUME NEW k \in 0..(n - 1)
                 PROVE  f[k + 1] = ParseStep(f[k], list[k + 1])
    OBVIOUS
  <2>2. f[k] \in V /\ k + 1 \in 1..n /\ f[k + 1] = g[<<f[k], k + 1>>]
    BY <1>12, SMTT(30) DEF Folded
  <2> QED
    BY <1>6, <2>2
<1> QED
  BY <1>0, <1>v, <1>2, <1>12, <1>13 DEF Folded, ParseSteps

LEMMA SaidStep ==
  ASSUME NEW parts, NEW k \in Nat
  PROVE  Cardinality(Said(parts, k + 1)) =
           IF Blank(parts[k + 1]) THEN Cardinality(Said(parts, k))
           ELSE Cardinality(Said(parts, k)) + 1
<1>1. 1..(k + 1) = (1..k) \cup {k + 1} /\ k + 1 \notin 1..k
  OBVIOUS
<1>2. k + 1 \notin Said(parts, k)
      /\ Said(parts, k + 1) = IF Blank(parts[k + 1]) THEN Said(parts, k)
                              ELSE Said(parts, k) \cup {k + 1}
  BY <1>1 DEF Said
<1>3. Cardinality(Said(parts, k) \cup {k + 1}) = Cardinality(Said(parts, k)) + 1
  BY <1>2, SaidFinite, FS_AddElement
<1> QED
  BY <1>2, <1>3

\* One endpoint for each part that says something.
LEMMA OneForEach ==
  ASSUME NEW s, s # <<>>, NEW d, NEW n \in Nat, Parts(Split(s), n)
  PROVE  /\ parseBackends(s, d) \in Seq(Formed)
         /\ Len(parseBackends(s, d)) = Cardinality(Said(Split(s), n))
<1>1. PICK f : ParseSteps(s, d, n, f)
  BY ParseWalk
<1>2. PICK list : list = Split(s) /\ Parts(list, n)
  OBVIOUS
<1> DEFINE S == {k \in Nat : k <= n => Len(f[k]) = Cardinality(Said(list, k))}
<1>3. 0 \in S
  <2>1. f[0] = <<>> /\ Len(<<>>) = 0
    BY <1>1, EmptySeq DEF ParseSteps
  <2>2. 1..0 = {}
    OBVIOUS
  <2>3. Said(list, 0) = {}
    BY <2>2 DEF Said
  <2> QED
    BY <2>1, <2>3, FS_EmptySet
<1>4. ASSUME NEW k \in Nat, k \in S
      PROVE  k + 1 \in S
  <2>1. SUFFICES ASSUME k + 1 <= n
                 PROVE  Len(f[k + 1]) = Cardinality(Said(list, k + 1))
    OBVIOUS
  <2>2. /\ k \in 0..(n - 1) /\ k \in 0..n /\ k + 1 \in 1..n
        /\ Len(f[k]) = Cardinality(Said(list, k))
    BY <1>4, <2>1
  <2>3. f[k] \in Seq(Formed) /\ f[k + 1] = ParseStep(f[k], list[k + 1])
    BY <1>1, <1>2, <2>2 DEF ParseSteps
  <2>4. list[k + 1] \in Text /\ Without(list[k + 1], ",")
    BY <1>2, <2>2, ElementOfSeq DEF Parts
  <2>5. Len(f[k + 1]) = IF Blank(list[k + 1]) THEN Len(f[k]) ELSE Len(f[k]) + 1
    BY <2>3, <2>4, ParseStepType
  <2> QED
    BY <2>2, <2>5, SaidStep
<1>5. n \in S
  <2> HIDE DEF S
  <2> QED
    BY <1>3, <1>4, SetInduction
<1>6. n \in 0..n
  OBVIOUS
<1> QED
  BY <1>1, <1>2, <1>5, <1>6 DEF ParseSteps

LEMMA PairOf ==
  ASSUME NEW a, NEW b
  PROVE  (<<a>> \o <<b>>)[1] = a /\ (<<a>> \o <<b>>)[2] = b
<1>1. <<a>> \in Seq({a, b}) /\ <<b>> \in Seq({a, b})
      /\ Len(<<a>>) = 1 /\ Len(<<b>>) = 1
  OBVIOUS
<1>2. \A i \in 1..(Len(<<a>>) + Len(<<b>>)) :
        (<<a>> \o <<b>>)[i] = IF i <= Len(<<a>>) THEN <<a>>[i]
                              ELSE <<b>>[i - Len(<<a>>)]
  BY <1>1, ConcatProperties
<1>3. 1 \in 1..(1 + 1) /\ 2 \in 1..(1 + 1) /\ 1 <= 1 /\ ~(2 <= 1) /\ 2 - 1 = 1
  OBVIOUS
<1> QED
  BY <1>1, <1>2, <1>3

\* A text begins with n slashes.
LEMMA SlashedIs ==
  ASSUME NEW S, NEW t \in Seq(S), NEW n \in Nat
  PROVE  IsPrefix(Slashes(n), t) <=> n <= Len(t) /\ \A i \in 1..n : t[i] = "/"
<1>1. PICK u : u = Slashes(n)
  OBVIOUS
<1>2. u \in Seq({"/"}) /\ Len(u) = n /\ \A i \in 1..n : u[i] = "/"
  BY <1>1 DEF Slashes
<1>3. PICK m \in Nat : m = Len(t) /\ \A i \in 1..m : t[i] \in S
  BY LenProperties, ElementOfSeq
<1>4. SubSeq(u, 1, n) = u
  BY <1>2
<1>5. CASE n <= m
  <2>1. PICK v : v = SubSeq(t, 1, n)
    OBVIOUS
  <2>2. v = [i \in 1..n |-> t[i]]
    BY <1>3, <1>5, <2>1
  <2>3. u = [i \in 1..n |-> "/"]
    BY <1>1 DEF Slashes
  <2>4. u = v <=> \A i \in 1..n : t[i] = "/"
    BY <2>2, <2>3
  <2> QED
    BY <1>1, <1>2, <1>3, <1>4, <1>5, <2>1, <2>4 DEF IsPrefix
<1>6. CASE ~(n <= m)
  BY <1>1, <1>2, <1>3, <1>6 DEF IsPrefix
<1> QED
  BY <1>5, <1>6

LEMMA HealthPathSlash ==
  ASSUME NEW path \in Paths
  PROVE  /\ IsPrefix(Slashes(1), healthPath(path))
         /\ IsPrefix(Slashes(2), healthPath(path)) => IsPrefix(Slashes(2), path)
<1>1. path \in Seq(Tokens) /\ "/" \in Tokens
  BY InputsAssumption DEF Tokens, Separators
<1>2. PICK n \in Nat : n = Len(path)
  BY <1>1, LenProperties
<1>3. CASE path = <<>>
  <2>1. PICK hp : hp = healthPath(path)
    OBVIOUS
  <2>2. hp = <<"/", "healthz">>
    BY <1>3, <2>1 DEF healthPath
  <2>3. hp \in Seq({"/", "healthz"}) /\ Len(hp) = 2 /\ hp[1] = "/" /\ hp[2] # "/"
    BY <2>2
  <2> QED
    BY <2>1, <2>3, SlashedIs
<1>4. CASE path # <<>> /\ path[1] = "/"
  <2>1. healthPath(path) = path
    BY <1>4 DEF healthPath
  <2>2. n >= 1
    BY <1>1, <1>2, <1>4, EmptySeq
  <2> QED
    BY <1>1, <1>2, <1>4, <2>1, <2>2, SlashedIs
<1>5. CASE path # <<>> /\ path[1] # "/"
  <2>1. PICK hp, one : hp = one \o path /\ one = <<"/">> /\ hp = healthPath(path)
    BY <1>5 DEF healthPath
  <2>2. one \in Seq(Tokens) /\ Len(one) = 1 /\ one[1] = "/"
    BY <1>1, <2>1
  <2>3. /\ hp \in Seq(Tokens) /\ Len(hp) = 1 + n
        /\ \A i \in 1..(1 + n) : hp[i] = IF i <= 1 THEN one[i] ELSE path[i - 1]
    BY <1>1, <1>2, <2>1, <2>2, ConcatProperties
  <2>4. n >= 1
    BY <1>1, <1>2, <1>5, EmptySeq
  <2>5. hp[1] = "/" /\ hp[2] # "/"
    BY <1>5, <2>2, <2>3, <2>4
  <2>6. IsPrefix(Slashes(1), hp)
    <3>1. 1..1 = {1} /\ 1 <= 1 + n
      OBVIOUS
    <3> QED
      BY <2>3, <2>5, <3>1, SlashedIs
  <2>7. ~IsPrefix(Slashes(2), hp)
    <3>1. 2 \in 1..2
      OBVIOUS
    <3> QED
      BY <2>3, <2>5, <3>1, SlashedIs
  <2> QED
    BY <2>1, <2>6, <2>7
<1> QED
  BY <1>3, <1>4, <1>5

\* What a well-formed endpoint promises.
LEMMA FormedKept ==
  ASSUME NEW e \in Formed
  PROVE  /\ "=" \notin Range(e.ID) /\ "," \notin Range(e.ID \o e.URL)
         /\ e.ID = TrimSpace(e.ID)
         /\ e.URL # <<>> => e.URL[Len(e.URL)] # "/"
<1>1. WellFormed(e)
  BY DEF Formed
<1>2. PICK a, b : a = e.ID /\ b = e.URL
  OBVIOUS
<1>3. a \in Text /\ b \in Text /\ Without(a, ",") /\ Without(b, ",")
  BY <1>1, <1>2 DEF WellFormed
<1>4. ASSUME NEW c, Without(a, c), Without(b, c)
      PROVE  a \o b \in Text /\ Without(a \o b, c)
  <2>1. PICK n \in Nat, m \in Nat : n = Len(a) /\ m = Len(b)
    BY <1>3, LenProperties DEF Text
  <2>2. PICK ab : ab = a \o b
    OBVIOUS
  <2>3. /\ ab \in Text /\ Len(ab) = n + m
        /\ \A i \in 1..(n + m) : ab[i] = IF i <= n THEN a[i] ELSE b[i - n]
    BY <1>3, <2>1, <2>2, ConcatProperties DEF Text
  <2>4. \A i \in 1..(n + m) : (i <= n => i \in 1..n) /\ (~(i <= n) => i - n \in 1..m)
    OBVIOUS
  <2> QED
    BY <1>4, <2>1, <2>2, <2>3, <2>4 DEF Without
<1>5. "," \notin Range(a \o b)
  BY <1>3, <1>4, NotInRange
<1>6. "=" \notin Range(a)
  BY <1>1, <1>2, NotInRange DEF WellFormed
<1> QED
  BY <1>1, <1>2, <1>5, <1>6 DEF WellFormed

LEMMA DefaultFormed == Default \in Formed
<1>1. ASSUME NEW t, t \in Range(Default.ID \o Default.URL)
      PROVE  t \in Token
  BY <1>1 DEF Token
<1>2. PICK x, y : Default = [ID |-> <<x>>, URL |-> <<y>>] /\ x = "mock-1"
                  /\ y = "http://localhost:8081"
  BY DEF Default
<1>3. Default.ID = <<x>> /\ Default.URL = <<y>>
  BY <1>2
<1>4. x \in Token /\ y \in Token
  <2>1. PICK w : w = <<x>> \o <<y>>
    OBVIOUS
  <2>2. w[1] = x /\ w[2] = y
    BY <2>1, PairOf
  <2>3. 1 \in DOMAIN w /\ 2 \in DOMAIN w
    <3>1. <<x>> \in Seq({x, y}) /\ <<y>> \in Seq({x, y})
          /\ Len(<<x>>) = 1 /\ Len(<<y>>) = 1
      OBVIOUS
    <3>2. w \in Seq({x, y}) /\ Len(w) = 1 + 1
      BY <2>1, <3>1, ConcatProperties
    <3>3. DOMAIN w = 1..(1 + 1)
      BY <3>2, LenProperties
    <3> QED
      BY <3>3
  <2>4. x \in Range(w) /\ y \in Range(w)
    BY <2>2, <2>3 DEF Range
  <2> QED
    BY <1>1, <1>3, <2>1, <2>4
<1>5. <<x>> \in Text /\ <<y>> \in Text /\ Len(<<x>>) = 1 /\ Len(<<y>>) = 1
      /\ <<x>>[1] = x /\ <<y>>[1] = y
  BY <1>4 DEF Text
<1>6. \A c : /\ c # x => Without(<<x>>, c)
             /\ c # y => Without(<<y>>, c)
  <2>1. 1..1 = {1}
    OBVIOUS
  <2> QED
    BY <1>5, <2>1 DEF Without
<1>7. Trimmed(<<x>>)
  BY <1>2, <1>5 DEF Trimmed
<1>8. TrimSpace(<<x>>) = <<x>>
  BY <1>5, <1>7, TrimSpaceOf
<1>9. WellFormed(Default)
  BY <1>2, <1>3, <1>5, <1>6, <1>8 DEF WellFormed
<1> QED
  BY <1>2, <1>5, <1>9 DEF Formed

LEMMA BackendsFormed ==
  ASSUME InputTyped, NEW service \in BOOLEAN
  PROVE  /\ Backends(raw, service) \in Seq(Formed)
         /\ raw # <<>> => Len(Backends(raw, service)) = Cardinality(Entries)
<1>1. CASE raw = <<>>
  <2>1. Backends(raw, service) \in {<<Default>>, <<>>}
    BY <1>1 DEF Backends, parseBackends
  <2>2. <<Default>> \in Seq(Formed) /\ <<>> \in Seq(Formed)
    <3>1. PICK e \in Formed : e = Default
      BY DefaultFormed
    <3>2. <<e>> \in Seq(Formed)
      OBVIOUS
    <3> QED
      BY <3>1, <3>2, EmptySeq
  <2> QED
    BY <1>1, <2>1, <2>2
<1>2. CASE raw # <<>>
  <2>1. Parsed(Split(raw), Len(raw)) /\ Begun(Len(raw)) = Entries
    BY AllParsed
  <2>2. PICK list : list = Split(raw)
    OBVIOUS
  <2>3. list \in Cuts /\ \A i \in 1..Len(list) : Without(list[i], ",")
    BY <2>1, <2>2 DEF Parsed
  <2>4. PICK n \in Nat : n = Len(list) /\ list \in Seq(Text)
    BY <2>3, CutsNotEmpty
  <2>5. Parts(list, n)
    BY <2>3, <2>4 DEF Parts
  <2>6. Cardinality(Said(list, n)) = Cardinality(Entries)
    BY <2>1, <2>2, <2>4 DEF Parsed
  <2>7. Backends(raw, service) = parseBackends(raw, ~service)
    BY DEF Backends
  <2>8. /\ parseBackends(raw, ~service) \in Seq(Formed)
        /\ Len(parseBackends(raw, ~service)) = Cardinality(Said(list, n))
    BY <1>2, <2>2, <2>5, OneForEach
  <2> QED
    BY <2>6, <2>7, <2>8
<1> QED
  BY <1>1, <1>2

LEMMA BackendsExact == InputTyped => StaticBackendsParsed
<1> SUFFICES ASSUME InputTyped
             PROVE  LET eps == Backends(raw, FALSE)
                    IN  /\ raw # <<>> => Len(eps) = Cardinality(Entries)
                        /\ \A e \in Range(eps), path \in Paths :
                             /\ "=" \notin Range(e.ID)
                             /\ "," \notin Range(e.ID \o e.URL)
                             /\ e.ID = TrimSpace(e.ID)
                             /\ e.URL # <<>> => e.URL[Len(e.URL)] # "/"
                             /\ IsPrefix(Slashes(1), healthPath(path))
                             /\ IsPrefix(Slashes(2), healthPath(path)) =>
                                  IsPrefix(Slashes(2), path)
  BY DEF StaticBackendsParsed
<1>1. PICK eps : eps = Backends(raw, FALSE)
  OBVIOUS
<1>2. eps \in Seq(Formed) /\ (raw # <<>> => Len(eps) = Cardinality(Entries))
  BY <1>1, BackendsFormed
<1>3. \A e \in Range(eps) : e \in Formed
  BY <1>2, LenProperties, ElementOfSeq DEF Range
<1> QED
  BY <1>1, <1>2, <1>3, FormedKept, HealthPathSlash

\* However BACKENDS is written, each entry between commas gives one endpoint,
\* whose ID has no space around it and no sign that ends it, and whose URL does
\* not end in a slash; a probe's URL has a slash before the path, and a second
\* one only if BACKEND_HEALTH_PATH has two (StaticBackendsParsed), for texts
\* of any length.
THEOREM BackendsParsed == Spec => []StaticBackendsParsed
  BY InputCorrect, BackendsExact, PTL

=============================================================================
