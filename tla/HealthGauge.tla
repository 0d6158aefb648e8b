---------------------------- MODULE HealthGauge ----------------------------
(***************************************************************************)
(* router_backend_healthy of one backend ID, next to the BackendState it   *)
(* reports on. Discovery sets the series to 0 when it makes a new state    *)
(* for the ID (InitBackend, before the snapshot is stored); the health     *)
(* goroutine sets it after it has stored its verdict in the state it       *)
(* checked, which may be one that the snapshot no longer lists. In         *)
(* BackendPool the health round is the same, without the series.           *)
(***************************************************************************)
EXTENDS Integers

CONSTANTS
  Refs,      \* addresses a BackendState of this ID can have
  Threshold, \* healthFailureThreshold
  NoRef      \* nil

ASSUME ThresholdAssumption == Threshold \in Nat \ {0}
ASSUME NoRefAssumption     == NoRef \notin Refs

VARIABLES
  states,   \* Healthy and ConsecutiveHealthFailures at each address
  listed,   \* the state the snapshot has for the ID, or NoRef
  pending,  \* the state discovery is about to publish, or NoRef
  checker,  \* the health goroutine, as far as this ID is concerned
  gauge,    \* router_backend_healthy{ID}; 0 as well while it does not exist
  checks    \* history: completed checks of the listed state, up to Threshold

vars == <<states, listed, pending, checker, gauge, checks>>

NewState == [Healthy |-> FALSE, Failures |-> 0]

Resting == [pc |-> "idle", target |-> NoRef, value |-> 0]

\* The verdict on r is stored and about to be written to the series.
Writing(r, value) == [pc |-> "set", target |-> r, value |-> value]

\* router.New may have configured the ID.
Init ==
  /\ states = [r \in Refs |-> NewState]
  /\ listed \in Refs \cup {NoRef}
  /\ pending = NoRef
  /\ checker = Resting
  /\ gauge = 0
  /\ checks = 0

-----------------------------------------------------------------------------
(* Discovery *)

\* The ID is new or its URL changed: a state nobody else holds is made.
InitBackend ==
  /\ pending = NoRef
  /\ \E r \in Refs \ {listed, checker.target} :
       /\ pending' = r
       /\ states' = [states EXCEPT ![r] = NewState]
  /\ gauge' = 0
  /\ UNCHANGED <<listed, checker, checks>>

StoreSnapshot ==
  /\ pending # NoRef
  /\ listed' = pending
  /\ pending' = NoRef
  /\ checks' = 0
  /\ UNCHANGED <<states, checker, gauge>>

\* A poll no longer lists the ID. Nothing is done to its series.
Remove ==
  /\ pending = NoRef /\ listed # NoRef
  /\ listed' = NoRef
  /\ checks' = 0
  /\ UNCHANGED <<states, pending, checker, gauge>>

Discover == InitBackend \/ StoreSnapshot \/ Remove

-----------------------------------------------------------------------------
(* Health checks *)

\* The round loads the snapshot; the probe of this ID may come much later.
StartCheck ==
  /\ checker.pc = "idle" /\ listed # NoRef
  /\ checker' = [pc |-> "probe", target |-> listed, value |-> 0]
  /\ UNCHANGED <<states, listed, pending, gauge, checks>>

Checked == checks' = IF checker.target = listed /\ checks < Threshold
                     THEN checks + 1 ELSE checks

Pass ==
  /\ checker.pc = "probe"
  /\ states' = [states EXCEPT ![checker.target] =
                  [Healthy |-> TRUE, Failures |-> 0]]
  /\ checker' = Writing(checker.target, 1)
  /\ UNCHANGED <<listed, pending, gauge, checks>>

\* Mutant: the threshold has to be exceeded.
FailLate ==
  LET r        == checker.target
      failures == IF states[r].Failures <= Threshold
                  THEN states[r].Failures + 1 ELSE Threshold + 1
  IN  /\ checker.pc = "probe"
      /\ states' = [states EXCEPT ![r] =
                      [Healthy |-> @.Healthy /\ failures <= Threshold,
                       Failures |-> failures]]
      /\ IF failures > Threshold
         THEN checker' = Writing(r, 0) /\ UNCHANGED checks
         ELSE checker' = Resting /\ Checked
      /\ UNCHANGED <<listed, pending, gauge>>

\* Mutant: only a state that was healthy is reported as lost.
FailOnChange ==
  LET r        == checker.target
      failures == IF states[r].Failures < Threshold
                  THEN states[r].Failures + 1 ELSE Threshold
  IN  /\ checker.pc = "probe"
      /\ states' = [states EXCEPT ![r] =
                      [Healthy |-> @.Healthy /\ failures < Threshold,
                       Failures |-> failures]]
      /\ IF failures >= Threshold /\ states[r].Healthy
         THEN checker' = Writing(r, 0) /\ UNCHANGED checks
         ELSE checker' = Resting /\ Checked
      /\ UNCHANGED <<listed, pending, gauge>>

\* Saturated at Threshold: the code only compares it with Threshold.
FailedOnceMore(r) == IF states[r].Failures < Threshold
                     THEN states[r].Failures + 1 ELSE Threshold

\* Mutant: the series is set to the number of failures.
FailReportsCount ==
  LET r        == checker.target
      failures == FailedOnceMore(r)
  IN  /\ checker.pc = "probe"
      /\ IF failures >= Threshold
         THEN /\ states' = [states EXCEPT ![r] =
                              [Healthy |-> FALSE, Failures |-> failures]]
              /\ checker' = Writing(r, failures)
              /\ UNCHANGED checks
         ELSE /\ states' = [states EXCEPT ![r].Failures = failures]
              /\ checker' = Resting
              /\ Checked
      /\ UNCHANGED <<listed, pending, gauge>>

Fail ==
  LET r        == checker.target
      failures == FailedOnceMore(r)
  IN  /\ checker.pc = "probe"
      /\ IF failures >= Threshold
         THEN /\ states' = [states EXCEPT ![r] =
                              [Healthy |-> FALSE, Failures |-> failures]]
              /\ checker' = Writing(r, 0)
              /\ UNCHANGED checks
         ELSE /\ states' = [states EXCEPT ![r].Failures = failures]
              /\ checker' = Resting
              /\ Checked
      /\ UNCHANGED <<listed, pending, gauge>>

SetGauge ==
  /\ checker.pc = "set"
  /\ gauge' = checker.value
  /\ checker' = Resting
  /\ Checked
  /\ UNCHANGED <<states, listed, pending>>

CheckHealth == StartCheck \/ Pass \/ Fail \/ SetGauge

Next == Discover \/ CheckHealth

Spec == Init /\ [][Next]_vars

\* The health goroutine keeps ticking and every probe ends within a timeout.
FairSpec == Spec /\ WF_vars(CheckHealth)
-----------------------------------------------------------------------------
(* Properties *)

\* Every variable has the shape the code gives it.
TypeOK ==
  /\ states \in [Refs -> [Healthy : BOOLEAN, Failures : 0..Threshold]]
  /\ listed \in Refs \cup {NoRef} /\ pending \in Refs \cup {NoRef}
  /\ checker \in [pc : {"idle", "probe", "set"}, target : Refs \cup {NoRef},
                  value : 0..1]
  /\ gauge \in 0..1
  /\ checks \in 0..Threshold

\* The series says what selection would decide about the listed state.
Agrees ==
  listed # NoRef => gauge = IF states[listed].Healthy THEN 1 ELSE 0

\* Neither discovery nor the health goroutine is between two writes.
AtRest == pending = NoRef /\ checker.pc = "idle"

\* A check of the old state that ends after the new one is published can make
\* the series wrong, but only until the new state has been checked Threshold
\* times: one success or Threshold failures set it right, and it stays right.
GaugeRightAfterThreshold ==
  AtRest /\ checks >= Threshold => Agrees

\* Once discovery leaves the ID alone the series becomes right and stays so,
\* whatever the checks answer.
GaugeConverges ==
  <>[][~Discover]_vars => <>[](AtRest => Agrees)
=============================================================================
