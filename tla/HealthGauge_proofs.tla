------------------------- MODULE HealthGauge_proofs -------------------------
(***************************************************************************)
(* Proof that the health series of an ID is right again once its listed    *)
(* state has been checked Threshold times, for every threshold and however *)
(* many states discovery puts behind the ID.                               *)
(***************************************************************************)
EXTENDS HealthGauge, TLAPS

Value(r) == IF states[r].Healthy THEN 1 ELSE 0

\* The goroutine holds a state exactly while it is not resting, and what it is
\* about to write is the verdict it has stored.
CheckerHolds ==
  /\ checker.pc = "idle" => checker.target = NoRef
  /\ checker.pc # "idle" => checker.target \in Refs
  /\ checker.pc = "set" => checker.value = Value(checker.target)

\* Nobody else holds a state before it is published.
PendingFresh ==
  pending # NoRef =>
    /\ pending # listed /\ pending # checker.target
    /\ states[pending] = NewState

\* While the goroutine is still busy with another state, the listed one has
\* not been checked at all.
ListedUntouched ==
  listed # NoRef /\ checker.target \notin {NoRef, listed} =>
    states[listed] = NewState /\ checks = 0

\* A series that is wrong is about to be written, or the listed state has
\* failed all its checks and is still below the threshold.
WrongOnlyEarly ==
  listed # NoRef /\ pending = NoRef =>
    \/ gauge = Value(listed)
    \/ checker.pc = "set" /\ checker.target = listed
    \/ /\ ~states[listed].Healthy
       /\ checks <= states[listed].Failures
       /\ states[listed].Failures < Threshold

IInv == /\ TypeOK /\ CheckerHolds /\ PendingFresh
        /\ ListedUntouched /\ WrongOnlyEarly

LEMMA InitInv == Init => IInv
BY ThresholdAssumption, NoRefAssumption
   DEF Init, IInv, TypeOK, CheckerHolds, PendingFresh, ListedUntouched,
       WrongOnlyEarly, Value, NewState, Resting

LEMMA NextInv == IInv /\ [Next]_vars => IInv'
<1> SUFFICES ASSUME IInv, [Next]_vars
             PROVE  IInv'
  OBVIOUS
<1> USE ThresholdAssumption, NoRefAssumption
    DEF IInv, TypeOK, CheckerHolds, PendingFresh, ListedUntouched,
        WrongOnlyEarly, Value, NewState, Resting, Writing
<1>1. CASE InitBackend
  BY <1>1 DEF InitBackend
<1>2. CASE StoreSnapshot
  BY <1>2 DEF StoreSnapshot
<1>3. CASE Remove
  BY <1>3 DEF Remove
<1>4. CASE StartCheck
  BY <1>4 DEF StartCheck
<1>5. CASE Pass
  <2>1. checker.target \in Refs
    BY <1>5 DEF Pass
  <2>2. TypeOK'
    BY <1>5, <2>1 DEF Pass
  <2>3. CheckerHolds'
    BY <1>5, <2>1 DEF Pass
  <2>4. PendingFresh'
    BY <1>5, <2>1 DEF Pass
  <2>5. ListedUntouched'
    BY <1>5, <2>1 DEF Pass
  <2>6. WrongOnlyEarly'
    BY <1>5, <2>1 DEF Pass
  <2> QED
    BY <2>2, <2>3, <2>4, <2>5, <2>6
<1>6. CASE Fail
  <2> DEFINE c == checker.target
             f == FailedOnceMore(c)
  <2>1. c \in Refs /\ UNCHANGED <<listed, pending, gauge>>
    BY <1>6 DEF Fail
  <2>2. /\ f \in 1..Threshold
        /\ states[c].Failures < Threshold => f = states[c].Failures + 1
        /\ states[c].Failures >= Threshold => f = Threshold
    BY <2>1 DEF FailedOnceMore
  <2> HIDE DEF f
  <2>3. CASE f >= Threshold
    <3>1. /\ states' = [states EXCEPT ![c] = [Healthy |-> FALSE, Failures |-> f]]
          /\ checker' = Writing(c, 0) /\ checks' = checks
      BY <1>6, <2>3 DEF Fail, f
    <3> QED
      BY <2>1, <2>2, <3>1
  <2>4. CASE f < Threshold
    <3>1. /\ states' = [states EXCEPT ![c].Failures = f]
          /\ checker' = Resting /\ Checked
      BY <1>6, <2>2, <2>4 DEF Fail, f
    <3>2. TypeOK'
      BY <2>1, <2>2, <3>1 DEF Checked
    <3>3. CheckerHolds' /\ PendingFresh'
      BY <2>1, <2>2, <3>1
    <3>4. ListedUntouched'
      BY <2>1, <2>2, <3>1 DEF Checked
    <3>5. WrongOnlyEarly'
      BY <1>6, <2>1, <2>2, <2>4, <3>1 DEF Checked, Fail
    <3> QED
      BY <3>2, <3>3, <3>4, <3>5
  <2> QED
    BY <2>2, <2>3, <2>4
<1>7. CASE SetGauge
  <2>1. checker.target \in Refs /\ checker.value = Value(checker.target)
    BY <1>7 DEF SetGauge
  <2>2. TypeOK'
    BY <1>7, <2>1 DEF SetGauge, Checked
  <2>3. CheckerHolds'
    BY <1>7, <2>1 DEF SetGauge, Checked
  <2>4. PendingFresh'
    BY <1>7, <2>1 DEF SetGauge, Checked
  <2>5. ListedUntouched'
    BY <1>7, <2>1 DEF SetGauge, Checked
  <2>6. WrongOnlyEarly'
    BY <1>7, <2>1 DEF SetGauge, Checked
  <2> QED
    BY <2>2, <2>3, <2>4, <2>5, <2>6
<1>8. CASE UNCHANGED vars
  BY <1>8 DEF vars
<1> QED
  BY <1>1, <1>2, <1>3, <1>4, <1>5, <1>6, <1>7, <1>8
     DEF Next, Discover, CheckHealth

\* Whatever discovery does, the health series is right whenever the listed
\* state has been checked Threshold times and no write is in progress.
THEOREM GaugeRight == Spec => []GaugeRightAfterThreshold
<1>1. IInv => GaugeRightAfterThreshold
  BY ThresholdAssumption
     DEF IInv, TypeOK, CheckerHolds, WrongOnlyEarly, Value,
         GaugeRightAfterThreshold, AtRest, Agrees
<1> QED
  BY <1>1, InitInv, NextInv, PTL DEF Spec

\* The health series, the states and the checker keep the shape the code gives
\* them, and no count of failures exceeds the threshold, for every threshold.
THEOREM GaugeTypeCorrect == Spec => []TypeOK
<1>1. IInv => TypeOK
  BY DEF IInv
<1> QED
  BY <1>1, InitInv, NextInv, PTL DEF Spec
=============================================================================
