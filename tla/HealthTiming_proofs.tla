------------------------ MODULE HealthTiming_proofs ------------------------
(***************************************************************************)
(* Proofs about the health rounds against the clock, for any number of     *)
(* backends, any interval, timeouts and threshold, and whatever discovery  *)
(* does: a shutdown adds at most three failed checks to a backend that     *)
(* nobody asked, and the news that a backend went down or came back        *)
(* reaches Healthy within DetectionBound and RecoveryBound.                *)
(***************************************************************************)
EXTENDS HealthTiming, FiniteSetTheorems, TLAPS

\* The failures of b still to come: from the round under way, for the tick in
\* the channel, and for a tick that is due.
FromRound(b) ==
  IF \/ round.pc = "load" \/ b \in round.todo
     \/ round.pc = "probe" /\ round.at = b
  THEN 1 ELSE 0

FromChannel == IF ticker.full THEN 1 ELSE 0

FromTicker == IF ticker.left = 0 THEN 1 ELSE 0

\* A probe is of a backend the round is done with otherwise, and after a signal
\* it no longer waits.
ProbeHolds ==
  round.pc = "probe" =>
    /\ round.at \in Backends \ round.todo
    /\ Running \/ round.left = 0

\* Before the signal every failure is of a backend that was asked.
AskedWhileRunning ==
  Running => /\ round.pc = "probe" => round.asked
             /\ \A b \in Backends : unasked[b] = 0

\* After it, those that are counted and those to come are within the bound.
FailuresToCome ==
  ~Running => \A b \in Backends :
    unasked[b] + FromRound(b) + FromChannel + FromTicker <= MaxUnasked

IInv == TypeOK /\ ProbeHolds /\ AskedWhileRunning /\ FailuresToCome

-----------------------------------------------------------------------------
\* The bounds are numbers.
LEMMA ConstantsTyped ==
  /\ ProbeTimeout \in Nat \ {0} /\ Cap \in Nat /\ Interval \in Nat \ {0}
  /\ Threshold \in Nat \ {0} /\ N \in Nat /\ GracePeriod \in Nat /\ MaxOpen \in Nat
<1>1. ProbeTimeout \in Nat \ {0}
  BY BoundsAssumption DEF ProbeTimeout, Least
<1>2. RoundTime \in Nat
  BY <1>1, BoundsAssumption DEF RoundTime
<1>3. Period \in Nat
  BY <1>2, BoundsAssumption DEF Period, Most
<1>4. Cap \in Nat
  BY <1>2, <1>3, BoundsAssumption DEF Cap, DetectionBound
<1> QED
  BY <1>1, <1>4, BoundsAssumption

\* The values of round and process, as in TypeOK.
Rounds ==
  [pc : {"load", "next", "probe", "select", "gone"},
   todo : SUBSET Backends, stale : SUBSET Backends, at : 0..N,
   ok : BOOLEAN, asked : BOOLEAN, left : 0..ProbeTimeout]

Processes ==
  [phase : {"running", "stopping", "exited"},
   grace : 0..GracePeriod, open : 0..MaxOpen, late : BOOLEAN]

LEMMA RoundTyped ==
  ASSUME NEW pc \in {"load", "next", "probe", "select", "gone"},
         NEW todo \in SUBSET Backends
  PROVE  At(pc) \in Rounds /\ [At(pc) EXCEPT !.todo = todo] \in Rounds
<1>1. At(pc) \in Rounds
  BY ConstantsTyped DEF At, Rounds
<1>2. [At(pc) EXCEPT !.todo = todo] \in Rounds
  BY <1>1 DEF Rounds
<1> QED
  BY <1>1, <1>2

LEMMA ExitedTyped == [Started EXCEPT !.phase = "exited"] \in Processes
<1>1. Started \in Processes
  BY ConstantsTyped DEF Started, Processes
<1> QED
  BY <1>1 DEF Processes

LEMMA InitInv == Init => IInv
BY ConstantsTyped
   DEF Init, IInv, TypeOK, ProbeHolds, AskedWhileRunning, FailuresToCome,
       NewState, At, Started, Running, MaxUnasked

LEMMA TypeStep ==
  ASSUME TypeOK, ProbeHolds, [Next]_vars
  PROVE  TypeOK'
<1>0. round \in Rounds /\ process \in Processes
  BY DEF TypeOK, Rounds, Processes
<1> USE ConstantsTyped
<1>1. CASE LoadSnapshot
  <2>1. round' \in Rounds
    BY <1>1, RoundTyped DEF LoadSnapshot, TypeOK
  <2> QED
    BY <1>1, <2>1 DEF LoadSnapshot, TypeOK, Rounds
<1>2. CASE StartProbe
  <2>1. PICK b \in round.todo :
          \E wait \in 0..(IF up[b] THEN ProbeTimeout - 1 ELSE ProbeTimeout) :
            round' = [round EXCEPT
                        !.pc = "probe", !.todo = @ \ {b}, !.at = b,
                        !.left = IF Running THEN wait ELSE 0,
                        !.ok = Running /\ up[b],
                        !.asked = Running]
    BY <1>2 DEF StartProbe
  <2>2. PICK wait \in 0..(IF up[b] THEN ProbeTimeout - 1 ELSE ProbeTimeout) :
          round' = [round EXCEPT
                      !.pc = "probe", !.todo = @ \ {b}, !.at = b,
                      !.left = IF Running THEN wait ELSE 0,
                      !.ok = Running /\ up[b],
                      !.asked = Running]
    BY <2>1
  <2>3. b \in 0..N /\ wait \in Nat
    BY <1>0, BoundsAssumption DEF Backends, Rounds
  <2>4. (IF Running THEN wait ELSE 0) \in 0..ProbeTimeout
    BY <1>0, <2>2, <2>3, ConstantsTyped DEF Rounds
  <2>5. (Running /\ up[b]) \in BOOLEAN /\ Running \in BOOLEAN
    BY DEF Running
  <2>6. round' \in Rounds
    BY <1>0, <2>2, <2>3, <2>4, <2>5 DEF Rounds
  <2> QED
    BY <1>2, <2>6 DEF StartProbe, TypeOK, Rounds
<1>3. CASE EndProbe
  <2>1. round.at \in Backends
    BY <1>3 DEF EndProbe, ProbeHolds
  <2>2. round' \in Rounds
    BY <1>0, <1>3 DEF EndProbe, Onward, Rounds
  <2>3. /\ backend' \in [Backends -> [Healthy : BOOLEAN, Failures : 0..Threshold]]
        /\ unasked' \in [Backends -> 0..(MaxUnasked + 1)]
    BY <1>3, <2>1 DEF EndProbe, TypeOK, Least, MaxUnasked
  <2> QED
    BY <1>3, <2>2, <2>3 DEF EndProbe, TypeOK, Rounds
<1>4. CASE EndRound
  BY <1>4, RoundTyped DEF EndRound, TypeOK, Rounds
<1>5. CASE ReceiveTick
  <2>1. round' \in Rounds
    BY <1>5, RoundTyped DEF ReceiveTick
  <2> QED
    BY <1>5, <2>1 DEF ReceiveTick, TypeOK, Rounds
<1>6. CASE Quit
  <2>1. round' \in Rounds
    BY <1>6, RoundTyped DEF Quit
  <2> QED
    BY <1>6, <2>1 DEF Quit, TypeOK, Rounds
<1>7. CASE UpdateBackends
  <2>1. PICK eps \in SUBSET Backends, moved \in SUBSET Backends :
          LET renewed == (eps \ listed) \cup (listed \ eps) \cup moved
          IN  /\ backend' = [b \in Backends |->
                   IF b \in renewed THEN NewState ELSE backend[b]]
              /\ unasked' = [b \in Backends |->
                   IF b \in renewed THEN 0 ELSE unasked[b]]
              /\ round' = [round EXCEPT
                   !.stale = @ \cup (renewed \cap (round.todo \cup {round.at}))]
              /\ since' = IF watched \in renewed THEN 0 ELSE since
              /\ listed' = eps
    BY <1>7 DEF UpdateBackends
  <2> DEFINE renewed == (eps \ listed) \cup (listed \ eps) \cup moved
             stale == round.stale \cup (renewed \cap (round.todo \cup {round.at}))
  <2>2. stale \in SUBSET Backends
    BY <1>0 DEF TypeOK, Rounds
  <2>3. round' = [round EXCEPT !.stale = stale]
    BY <1>0, <2>1 DEF Rounds
  <2> HIDE DEF stale
  <2>4. round' \in Rounds
    BY <1>0, <2>2, <2>3 DEF Rounds
  <2>5. process' \in Processes
    BY <1>0, <1>7 DEF UpdateBackends, Processes
  <2>6. /\ backend' \in [Backends -> [Healthy : BOOLEAN, Failures : 0..Threshold]]
        /\ unasked' \in [Backends -> 0..(MaxUnasked + 1)]
        /\ since' \in 0..Cap /\ listed' \in SUBSET Backends
    BY <2>1 DEF TypeOK, NewState, MaxUnasked
  <2> QED
    BY <1>7, <2>4, <2>5, <2>6 DEF UpdateBackends, TypeOK, Rounds, Processes
<1>8. CASE Signal
  <2>1. round' \in Rounds
    <3>1. \/ round' = [round EXCEPT !.left = 0, !.ok = FALSE, !.asked = FALSE]
          \/ round' = round
      BY <1>8 DEF Signal
    <3>2. [round EXCEPT !.left = 0] \in Rounds
      BY <1>0 DEF Rounds
    <3>3. ASSUME NEW r \in Rounds
          PROVE  [r EXCEPT !.ok = FALSE, !.asked = FALSE] \in Rounds
      BY DEF Rounds
    <3>4. [round EXCEPT !.left = 0, !.ok = FALSE, !.asked = FALSE] \in Rounds
      BY <3>2, <3>3
    <3> QED
      BY <1>0, <3>1, <3>4
  <2>2. process' \in Processes
    BY <1>0, <1>8 DEF Signal, Processes
  <2> QED
    BY <1>8, <2>1, <2>2 DEF Signal, TypeOK, Rounds, Processes
<1>9. CASE Finish
  <2>1. process' \in Processes
    BY <1>0, <1>9 DEF Finish, Processes
  <2> QED
    BY <1>9, <2>1 DEF Finish, TypeOK, Processes
<1>10. CASE End
  <2>1. round' \in Rounds /\ process' \in Processes
    BY <1>10, RoundTyped, ExitedTyped DEF End
  <2> QED
    BY <1>10, <2>1 DEF End, TypeOK, NewState, MaxUnasked, Rounds, Processes
<1>11. CASE Tick
  BY <1>11 DEF Tick, TypeOK
<1>12. CASE Elapse
  <2>1. round' \in Rounds
    BY <1>0, <1>12 DEF Elapse, Rounds
  <2>2. process' \in Processes
    BY <1>0, <1>12 DEF Elapse, Processes
  <2>3. since' \in 0..Cap /\ ticker' \in [left : 0..Interval, full : BOOLEAN]
    BY <1>12 DEF Elapse, TypeOK, Least
  <2> QED
    BY <1>12, <2>1, <2>2, <2>3 DEF Elapse, TypeOK, Rounds, Processes
<1>13. CASE \E b \in Backends : Flip(b)
  BY <1>13 DEF Flip, TypeOK
<1>14. CASE UNCHANGED vars
  BY <1>14 DEF vars, TypeOK
<1> QED
  BY <1>1, <1>2, <1>3, <1>4, <1>5, <1>6, <1>7, <1>8, <1>9, <1>10, <1>11,
     <1>12, <1>13, <1>14
     DEF Next, CheckHealth, ListenFails, Exit

LEMMA NextInv == IInv /\ [Next]_vars => IInv'
<1> SUFFICES ASSUME IInv, [Next]_vars
             PROVE  IInv'
  OBVIOUS
<1> USE ConstantsTyped
    DEF IInv, TypeOK, ProbeHolds, AskedWhileRunning, FailuresToCome,
        FromRound, FromChannel, FromTicker, MaxUnasked,
        NewState, At, Started, Running, Alive, Done, Least
<1>0. TypeOK'
  BY TypeStep DEF IInv
<1>1. CASE LoadSnapshot
  <2>2. ProbeHolds'
    BY <1>1 DEF LoadSnapshot
  <2>3. AskedWhileRunning'
    BY <1>1 DEF LoadSnapshot
  <2>4. FailuresToCome'
    BY <1>1 DEF LoadSnapshot
  <2> QED
    BY <1>0, <2>2, <2>3, <2>4
<1>2. CASE StartProbe
  <2>2. ProbeHolds'
    BY <1>2 DEF StartProbe
  <2>3. AskedWhileRunning'
    BY <1>2 DEF StartProbe
  <2>4. FailuresToCome'
    BY <1>2 DEF StartProbe
  <2> QED
    BY <1>0, <2>2, <2>3, <2>4
<1>3. CASE EndProbe
  <2>2. ProbeHolds'
    BY <1>3 DEF EndProbe, Onward
  <2>3. AskedWhileRunning'
    BY <1>3 DEF EndProbe, Onward
  <2>4. FailuresToCome'
    BY <1>3 DEF EndProbe, Onward
  <2> QED
    BY <1>0, <2>2, <2>3, <2>4
<1>4. CASE EndRound
  BY <1>0, <1>4 DEF EndRound
<1>5. CASE ReceiveTick
  <2>2. ProbeHolds'
    BY <1>5 DEF ReceiveTick
  <2>3. AskedWhileRunning'
    BY <1>5 DEF ReceiveTick
  <2>4. FailuresToCome'
    BY <1>5 DEF ReceiveTick
  <2> QED
    BY <1>0, <2>2, <2>3, <2>4
<1>6. CASE Quit
  BY <1>0, <1>6 DEF Quit
<1>7. CASE UpdateBackends
  <2>2. ProbeHolds'
    BY <1>7 DEF UpdateBackends
  <2>3. AskedWhileRunning'
    BY <1>7 DEF UpdateBackends
  <2>4. FailuresToCome'
    BY <1>7 DEF UpdateBackends
  <2> QED
    BY <1>0, <2>2, <2>3, <2>4
<1>8. CASE Signal
  <2>2. ProbeHolds'
    BY <1>8, ZenonT(60) DEF Signal
  <2>3. AskedWhileRunning'
    BY <1>8 DEF Signal
  <2>4. FailuresToCome'
    BY <1>8 DEF Signal
  <2> QED
    BY <1>0, <2>2, <2>3, <2>4
<1>9. CASE Finish
  BY <1>0, <1>9 DEF Finish
<1>10. CASE ListenFails
  <2>2. ProbeHolds'
    BY <1>10 DEF ListenFails, End
  <2>3. AskedWhileRunning'
    BY <1>10 DEF ListenFails, End
  <2>4. FailuresToCome'
    BY <1>10 DEF ListenFails, End
  <2> QED
    BY <1>0, <2>2, <2>3, <2>4
<1>11. CASE Exit
  <2>2. ProbeHolds'
    BY <1>11 DEF Exit, End
  <2>3. AskedWhileRunning'
    BY <1>11 DEF Exit, End
  <2>4. FailuresToCome'
    BY <1>11 DEF Exit, End
  <2> QED
    BY <1>0, <2>2, <2>3, <2>4
<1>12. CASE Tick
  BY <1>12 DEF Tick
<1>13. CASE Elapse
  <2>2. ProbeHolds'
    BY <1>13 DEF Elapse
  <2>3. AskedWhileRunning'
    BY <1>13 DEF Elapse
  <2>4. FailuresToCome'
    BY <1>13 DEF Elapse
  <2> QED
    BY <1>0, <2>2, <2>3, <2>4
<1>14. CASE \E b \in Backends : Flip(b)
  BY <1>0, <1>14 DEF Flip
<1>15. CASE UNCHANGED vars
  BY <1>15 DEF vars
<1> QED
  BY <1>1, <1>2, <1>3, <1>4, <1>5, <1>6, <1>7, <1>8, <1>9, <1>10, <1>11,
     <1>12, <1>13, <1>14, <1>15
     DEF Next, CheckHealth

\* Every variable of the process keeps the shape the code gives it, for any
\* number of backends and any settings.
THEOREM TimingTypeCorrect == Spec => []TypeOK
<1>1. IInv => TypeOK
  BY DEF IInv
<1> QED
  BY <1>1, InitInv, NextInv, PTL DEF Spec

\* A shutdown makes no backend's state fail more than three checks that nobody
\* was asked for.
THEOREM ShutdownFails == Spec => []ShutdownFailuresBounded
<1>1. IInv => ShutdownFailuresBounded
  BY DEF IInv, TypeOK, AskedWhileRunning, FailuresToCome, FromRound,
         FromChannel, FromTicker, MaxUnasked, ShutdownFailuresBounded
<1> QED
  BY <1>1, InitInv, NextInv, PTL DEF Spec

-----------------------------------------------------------------------------
(* The bounds as sums                                                       *)

\* How long the probes of S take at most, and the length of k periods.
Load(S) == Cardinality(S) * ProbeTimeout
Periods(k) == k * Period

LEMMA PeriodTyped ==
  /\ RoundTime \in Nat /\ Period \in Nat
  /\ RoundTime <= Period /\ Interval <= Period
<1>1. RoundTime \in Nat
  BY ConstantsTyped DEF RoundTime
<1> QED
  BY <1>1, ConstantsTyped DEF Period, Most

LEMMA LoadFacts ==
  ASSUME NEW S \in SUBSET Backends
  PROVE  /\ Load(S) \in Nat /\ Load(S) <= RoundTime
         /\ S = {} => Load(S) = 0
         /\ \A b \in S : Load(S \ {b}) + ProbeTimeout = Load(S)
         /\ \A b \in Backends \ S : Load(S) + ProbeTimeout <= RoundTime
<1>1. IsFiniteSet(Backends) /\ Cardinality(Backends) = N
  BY ConstantsTyped, FS_Interval DEF Backends
<1>2. /\ IsFiniteSet(S) /\ Cardinality(S) \in Nat /\ Cardinality(S) <= N
  BY <1>1, FS_Subset, FS_CardinalityType
<1>3. ASSUME NEW c \in Nat, NEW d \in Nat, c <= d
      PROVE  c * ProbeTimeout <= d * ProbeTimeout
  BY <1>3, ConstantsTyped
<1>4. ASSUME NEW b \in S
      PROVE  Load(S \ {b}) + ProbeTimeout = Load(S)
  <2>1. Cardinality(S \ {b}) = Cardinality(S) - 1
    BY <1>2, FS_RemoveElement
  <2> QED
    BY <1>2, <2>1, ConstantsTyped DEF Load
<1>5. ASSUME NEW b \in Backends \ S
      PROVE  Load(S) + ProbeTimeout <= RoundTime
  <2>1. Cardinality(S \cup {b}) = Cardinality(S) + 1
    BY <1>2, FS_AddElement
  <2>2. Cardinality(S \cup {b}) <= N
    BY <1>1, FS_Subset
  <2>3. (Cardinality(S) + 1) * ProbeTimeout <= RoundTime
    BY <1>2, <1>3, <2>1, <2>2, ConstantsTyped DEF RoundTime
  <2> QED
    BY <1>2, <2>3, ConstantsTyped DEF Load
<1>6. Load(S) \in Nat /\ Load(S) <= RoundTime
  BY <1>2, <1>3, ConstantsTyped DEF Load, RoundTime
<1>7. S = {} => Load(S) = 0
  BY FS_EmptySet, ConstantsTyped DEF Load
<1> QED
  BY <1>4, <1>5, <1>6, <1>7

LEMMA PeriodsFacts ==
  ASSUME NEW k \in Nat
  PROVE  /\ Periods(k) \in Nat
         /\ Periods(k + 1) = Periods(k) + Period
         /\ \A m \in Nat : k <= m => Periods(k) <= Periods(m)
<1> USE PeriodTyped DEF Periods
<1>1. Periods(k) \in Nat
  OBVIOUS
<1>2. Periods(k + 1) = Periods(k) + Period
  OBVIOUS
<1>3. ASSUME NEW m \in Nat, k <= m
      PROVE  Periods(k) <= Periods(m)
  BY <1>3
<1> QED
  BY <1>1, <1>2, <1>3

-----------------------------------------------------------------------------
(* How far the news of the watched backend has come                         *)

\* What is left of the round under way at most, and until the next one starts.
Rem ==
  CASE round.pc = "load"  -> RoundTime
    [] round.pc = "next"  -> Load(round.todo)
    [] round.pc = "probe" -> Load(round.todo) + round.left
    [] OTHER              -> 0

NextTick == IF ticker.full THEN 0 ELSE ticker.left
NextStart == Most(NextTick, Rem)

\* The probe in flight, if it is of the state that watched has now.
OnWatched ==
  round.pc = "probe" /\ round.at = watched /\ watched \notin round.stale

\* It brings old news, of before the backend went down or came back.
Misled == OnWatched /\ round.ok # up[watched]

\* The round under way will still store a verdict that is true.
InRound ==
  \/ round.pc = "load"
  \/ watched \in round.todo /\ watched \notin round.stale
  \/ OnWatched /\ round.ok = up[watched]

\* k periods after the news a round has started that stores a true verdict.
OnTime(k) ==
  IF InRound THEN /\ since + Rem <= Periods(k) + RoundTime
                  /\ since + NextStart <= Periods(k) + Period
             ELSE since + NextStart <= Periods(k)

ToldUp ==
  Running /\ watched \in listed /\ up[watched] =>
    (backend[watched].Healthy /\ ~Misled) \/ OnTime(1)

\* Every failure that is stored buys one more period.
ToldDown ==
  Running /\ watched \in listed /\ ~up[watched] =>
    /\ Misled => OnTime(1)
    /\ backend[watched].Healthy => OnTime(backend[watched].Failures + 1)

\* The health goroutine is there while the process runs, it waits for a tick
\* with no backend left to probe, and what is healthy has not failed often
\* enough.
Sound ==
  /\ Running => round.pc # "gone" /\ (round.pc = "select" => round.todo = {})
  /\ \A b \in Backends : backend[b].Healthy => backend[b].Failures < Threshold

LEMMA SoundInit == Init => Sound
BY DEF Init, Sound, At, NewState

LEMMA SoundStep ==
  ASSUME IInv, Sound, [Next]_vars
  PROVE  Sound'
<1> USE DEF Sound
<1>1. round \in Rounds /\ process \in Processes
  BY DEF IInv, TypeOK, Rounds, Processes
<1>2. /\ backend \in [Backends -> [Healthy : BOOLEAN, Failures : 0..Threshold]]
      /\ Threshold \in Nat \ {0}
  BY ConstantsTyped DEF IInv, TypeOK
<1>3. Running' =>
        round'.pc # "gone" /\ (round'.pc = "select" => round'.todo = {})
  <2> USE <1>1 DEF Running
  <2>1. CASE LoadSnapshot
    BY <2>1 DEF LoadSnapshot, At
  <2>2. CASE StartProbe
    BY <2>2 DEF StartProbe, Rounds
  <2>3. CASE EndProbe
    BY <2>3 DEF EndProbe, Onward, Rounds
  <2>4. CASE EndRound \/ ReceiveTick
    BY <2>4 DEF EndRound, ReceiveTick, At
  <2>5. CASE Quit
    BY <2>5 DEF Quit, Done
  <2>6. CASE UpdateBackends
    BY <2>6 DEF UpdateBackends, Rounds, Processes
  <2>7. CASE Signal
    BY <2>7 DEF Signal, Processes
  <2>8. CASE End
    BY <2>8 DEF End, Started
  <2>9. CASE Finish
    BY <2>9 DEF Finish, Processes
  <2>10. CASE Tick \/ \E b \in Backends : Flip(b)
    BY <2>10 DEF Tick, Flip
  <2>11. CASE Elapse
    BY <2>11 DEF Elapse, Rounds, Processes
  <2>12. CASE UNCHANGED vars
    BY <2>12 DEF vars
  <2> QED
    BY <2>1, <2>2, <2>3, <2>4, <2>5, <2>6, <2>7, <2>8, <2>9, <2>10, <2>11,
       <2>12 DEF Next, CheckHealth, ListenFails, Exit
<1>4. ASSUME NEW b \in Backends, backend'[b].Healthy
      PROVE  backend'[b].Failures < Threshold
  <2>1. CASE UNCHANGED backend
    BY <1>4, <2>1
  <2>2. CASE UpdateBackends \/ End
    <3>1. backend'[b] = NewState \/ backend'[b] = backend[b]
      BY <2>2 DEF UpdateBackends, End
    <3> QED
      BY <1>2, <1>4, <3>1 DEF NewState
  <2>3. CASE EndProbe
    <3> DEFINE failures == IF round.ok THEN 0
                           ELSE Least(backend[b].Failures + 1, Threshold)
    <3>1. \/ backend'[b] = backend[b]
          \/ backend'[b] =
               [Healthy |-> round.ok \/ (backend[b].Healthy /\ failures < Threshold),
                Failures |-> failures]
      BY <1>2, <2>3 DEF EndProbe
    <3>2. round.ok => failures < Threshold
      BY <1>2
    <3> HIDE DEF failures
    <3>3. CASE backend'[b] = backend[b]
      BY <1>4, <3>3
    <3>4. CASE backend'[b] # backend[b]
      <4>1. /\ backend'[b].Failures = failures
            /\ backend'[b].Healthy
                 = (round.ok \/ (backend[b].Healthy /\ failures < Threshold))
        BY <3>1, <3>4
      <4>2. failures < Threshold
        BY <1>4, <3>2, <4>1
      <4> QED
        BY <4>1, <4>2
    <3> QED
      BY <3>3, <3>4
  <2> QED
    BY <2>1, <2>2, <2>3
       DEF Next, CheckHealth, ListenFails, Exit, LoadSnapshot, StartProbe,
           EndRound, ReceiveTick, Quit, Signal, Finish, Tick, Elapse, Flip, vars
<1> QED
  BY <1>3, <1>4

\* The values of the clock, now.
ClockOK ==
  /\ Rem \in Nat /\ Rem <= RoundTime
  /\ NextTick \in Nat /\ NextTick <= Interval
  /\ NextStart \in Nat /\ NextStart <= Period
  /\ since \in Nat /\ Rem <= NextStart /\ NextTick <= NextStart

LEMMA ClockTyped == IInv => ClockOK
<1> SUFFICES ASSUME IInv
             PROVE  ClockOK
  OBVIOUS
<1>1. round \in Rounds /\ ticker \in [left : 0..Interval, full : BOOLEAN]
  BY DEF IInv, TypeOK, Rounds
<1>2. round.todo \in SUBSET Backends /\ round.left \in 0..ProbeTimeout
  BY <1>1 DEF Rounds
<1>3. /\ Load(round.todo) \in Nat /\ Load(round.todo) <= RoundTime
      /\ round.pc = "probe" => Load(round.todo) + ProbeTimeout <= RoundTime
  BY <1>2, LoadFacts DEF IInv, ProbeHolds
<1>4. Rem \in Nat /\ Rem <= RoundTime
  BY <1>2, <1>3, PeriodTyped, ConstantsTyped DEF Rem
<1>5. NextTick \in Nat /\ NextTick <= Interval
  BY <1>1, ConstantsTyped DEF NextTick
<1>6. since \in Nat
  BY ConstantsTyped DEF IInv, TypeOK
<1>7. NextStart = NextTick \/ NextStart = Rem
  BY DEF NextStart, Most
<1>8. Rem <= NextStart /\ NextTick <= NextStart
  BY <1>4, <1>5, PeriodTyped DEF NextStart, Most
<1> QED
  BY <1>4, <1>5, <1>6, <1>7, <1>8, PeriodTyped, ConstantsTyped DEF ClockOK

\* The news that is told now will come in time: the round under way ends, and
\* the next one starts, within a period.
LEMMA NewsNow ==
  ASSUME IInv', since' = 0, NEW k \in Nat \ {0}
  PROVE  OnTime(k)'
<1>1. ClockOK'
  BY ClockTyped, PTL
<1>2. Periods(k) \in Nat /\ Period <= Periods(k)
  <2>1. PICK j \in Nat : k = j + 1
    BY k - 1 \in Nat
  <2>2. Periods(j) \in Nat /\ Periods(j + 1) = Periods(j) + Period
    BY PeriodsFacts
  <2> QED
    BY <2>1, <2>2, PeriodTyped
<1> QED
  BY <1>1, <1>2, PeriodTyped DEF OnTime, ClockOK

\* The clock goes on, and what is on the way to watched stays on the way.
Quiet ==
  /\ InRound' <=> InRound
  /\ Misled' <=> Misled
  /\ InRound => since' + Rem' <= since + Rem
  /\ since' + NextStart' <= since + NextStart
  /\ watched' = watched
  /\ backend'[watched] = backend[watched]

\* A round starts.
NewRound ==
  /\ ~InRound /\ ~Misled /\ InRound' /\ ~Misled'
  /\ since' = since /\ NextStart = 0
  /\ watched' = watched
  /\ backend'[watched] = backend[watched]

\* A verdict on watched is stored.
Verdict ==
  /\ InRound <=> ~Misled
  /\ ~InRound' /\ ~Misled'
  /\ since' = since /\ NextStart' = NextStart
  /\ watched' = watched
  /\ round.ok = up[watched] <=> ~Misled
  /\ backend'[watched].Healthy =>
       \/ round.ok /\ backend'[watched].Failures = 0
       \/ /\ ~round.ok /\ backend[watched].Healthy
          /\ backend'[watched].Failures = backend[watched].Failures + 1
  /\ round.ok => backend'[watched].Healthy

LEMMA QuietOnTime ==
  ASSUME ClockOK, ClockOK', Quiet, NEW k \in Nat, OnTime(k)
  PROVE  OnTime(k)'
<1>1. PICK p \in Nat : p = Periods(k)
  BY PeriodsFacts
<1>2. /\ since + Rem \in Nat /\ since + NextStart \in Nat
      /\ since' + Rem' \in Nat /\ since' + NextStart' \in Nat
  <2>1. since \in Nat /\ Rem \in Nat /\ NextStart \in Nat
    BY DEF ClockOK
  <2>2. PICK s \in Nat : s = since'
    BY DEF ClockOK
  <2>3. PICK r \in Nat : r = Rem'
    BY DEF ClockOK
  <2>4. PICK n \in Nat : n = NextStart'
    BY DEF ClockOK
  <2>5. s + r \in Nat /\ s + n \in Nat
    OBVIOUS
  <2>6. since' + Rem' \in Nat
    BY <2>2, <2>3, <2>5, Zenon
  <2>7. since' + NextStart' \in Nat
    BY <2>2, <2>4, <2>5, Zenon
  <2>8. since + Rem \in Nat /\ since + NextStart \in Nat
    BY <2>1
  <2> QED
    BY <2>6, <2>7, <2>8
<1>3. PICK a \in Nat : a = since + Rem
  BY <1>2
<1>4. PICK b \in Nat : b = since' + Rem'
  BY <1>2
<1>5. PICK c \in Nat : c = since + NextStart
  BY <1>2
<1>6. PICK d \in Nat : d = since' + NextStart'
  BY <1>2
<1>7. (InRound' <=> InRound) /\ (InRound => b <= a) /\ d <= c
  BY <1>3, <1>4, <1>5, <1>6 DEF Quiet
<1>8. CASE InRound
  <2>1. a <= p + RoundTime /\ c <= p + Period
    BY <1>1, <1>3, <1>5, <1>8 DEF OnTime
  <2>2. b <= p + RoundTime /\ d <= p + Period
    BY <1>7, <1>8, <2>1, PeriodTyped
  <2> QED
    BY <1>1, <1>4, <1>6, <1>7, <1>8, <2>2 DEF OnTime
<1>9. CASE ~InRound
  <2>1. c <= p
    BY <1>1, <1>5, <1>9 DEF OnTime
  <2>2. d <= p
    BY <1>7, <2>1
  <2> QED
    BY <1>1, <1>6, <1>7, <1>9, <2>2 DEF OnTime
<1> QED
  BY <1>8, <1>9

LEMMA NewRoundOnTime ==
  ASSUME ClockOK, ClockOK', NewRound, NEW k \in Nat, OnTime(k)
  PROVE  OnTime(k)'
<1>1. Periods(k) \in Nat
  BY PeriodsFacts
<1>2. since <= Periods(k)
  BY <1>1 DEF OnTime, NewRound, ClockOK
<1>3. /\ since' + Rem' <= Periods(k) + RoundTime
      /\ since' + NextStart' <= Periods(k) + Period
  BY <1>1, <1>2, PeriodTyped DEF NewRound, ClockOK
<1> QED
  BY <1>3 DEF OnTime, NewRound

LEMMA VerdictOnTime ==
  ASSUME ClockOK, ClockOK', Verdict, NEW k \in Nat, OnTime(k)
  PROVE  /\ InRound => OnTime(k + 1)'
         /\ ~InRound => OnTime(k)'
<1>1. Periods(k) \in Nat /\ Periods(k + 1) = Periods(k) + Period
  BY PeriodsFacts
<1>2. since' + NextStart' = since + NextStart
  BY DEF Verdict
<1> QED
  BY <1>1, <1>2 DEF OnTime, Verdict

\* What a step of a process that runs on does to the news of a backend that
\* stays listed. A backend that answers in time must not be cut off by the
\* timeout of the client.
Told ==
  \/ since' = 0
  \/ /\ watched \in listed /\ up'[watched] = up[watched]
     /\ Quiet \/ NewRound \/ Verdict

LEMMA ToldDownStep ==
  ASSUME IInv, IInv', Sound, ToldDown, Running', (watched \in listed)',
         (~up[watched])', Running, Told, watched' = watched
  PROVE  /\ Misled' => OnTime(1)'
         /\ (backend[watched].Healthy)' =>
              (OnTime(backend[watched].Failures + 1))'
<1>1. ClockOK /\ ClockOK'
  BY ClockTyped, PTL
<1>2. PICK f \in Nat : f = backend[watched].Failures
  BY ConstantsTyped DEF IInv, TypeOK
<1>3. PICK g \in Nat : g = backend'[watched].Failures
  BY ConstantsTyped DEF IInv, TypeOK
<1> SUFFICES /\ Misled' => OnTime(1)'
             /\ backend'[watched].Healthy => OnTime(g + 1)'
  BY <1>3 DEF OnTime
<1>4. CASE since' = 0
  BY <1>4, NewsNow, g + 1 \in Nat \ {0}
<1>5. CASE /\ watched \in listed /\ up'[watched] = up[watched]
           /\ Quiet \/ NewRound \/ Verdict
  <2>1. /\ Misled => OnTime(1)
        /\ backend[watched].Healthy => OnTime(f + 1)
    BY <1>2, <1>5 DEF ToldDown
  <2>2. CASE Quiet
    <3>1. g = f
      BY <1>2, <1>3, <2>2 DEF Quiet
    <3>2. Misled' => OnTime(1)'
      BY <1>1, <2>1, <2>2, QuietOnTime DEF Quiet
    <3>3. backend[watched].Healthy => OnTime(f + 1)'
      BY <1>1, <2>1, <2>2, QuietOnTime
    <3> QED
      BY <2>2, <3>1, <3>2, <3>3 DEF Quiet
  <2>3. CASE NewRound
    <3>1. g = f
      BY <1>2, <1>3, <2>3 DEF NewRound
    <3>2. backend[watched].Healthy => OnTime(f + 1)'
      BY <1>1, <2>1, <2>3, NewRoundOnTime
    <3> QED
      BY <2>3, <3>1, <3>2 DEF NewRound
  <2>4. CASE Verdict
    <3> SUFFICES ASSUME backend'[watched].Healthy
                 PROVE  OnTime(g + 1)'
      BY <2>4 DEF Verdict
    <3>1. ~up[watched]
      BY <1>5
    <3>2. CASE Misled
      <4>1. round.ok
        <5>1. round.ok \in BOOLEAN /\ up[watched] \in BOOLEAN
          BY DEF IInv, TypeOK
        <5>2. round.ok # up[watched]
          BY <3>2 DEF Misled
        <5> QED
          BY <3>1, <5>1, <5>2
      <4>3. g = 0
        BY <1>3, <2>4, <4>1 DEF Verdict
      <4>2. OnTime(1)'
        BY <1>1, <2>1, <2>4, <3>2, VerdictOnTime DEF Verdict
      <4> QED
        BY <4>2, <4>3
    <3>3. CASE ~Misled
      <4>1. ~round.ok
        BY <2>4, <3>1, <3>3 DEF Verdict
      <4>2. backend[watched].Healthy /\ g = f + 1
        BY <1>2, <1>3, <2>4, <4>1 DEF Verdict
      <4>3. InRound /\ OnTime(f + 1)
        BY <2>1, <2>4, <3>3, <4>2 DEF Verdict
      <4>4. OnTime(f + 1 + 1)'
        BY <1>1, <2>4, <4>3, VerdictOnTime, f + 1 \in Nat
      <4> QED
        BY <4>2, <4>4
    <3> QED
      BY <3>2, <3>3
  <2> QED
    BY <1>5, <2>2, <2>3, <2>4
<1> QED
  BY <1>4, <1>5 DEF Told

LEMMA ToldUpStep ==
  ASSUME IInv, IInv', Sound, ToldUp, Running', (watched \in listed)',
         (up[watched])', Running, Told, watched' = watched
  PROVE  (backend[watched].Healthy /\ ~Misled)' \/ OnTime(1)'
<1>1. ClockOK /\ ClockOK'
  BY ClockTyped, PTL
<1>2. CASE since' = 0
  BY <1>2, NewsNow
<1>3. CASE /\ watched \in listed /\ up'[watched] = up[watched]
           /\ Quiet \/ NewRound \/ Verdict
  <2>1. (backend[watched].Healthy /\ ~Misled) \/ OnTime(1)
    BY <1>3 DEF ToldUp
  <2>2. CASE Quiet
    BY <1>1, <2>1, <2>2, QuietOnTime DEF Quiet
  <2>3. CASE NewRound
    BY <1>1, <2>1, <2>3, NewRoundOnTime DEF NewRound
  <2>4. CASE Verdict
    <3>1. up[watched]
      BY <1>3
    <3>2. CASE Misled
      BY <1>1, <2>1, <2>4, <3>2, VerdictOnTime DEF Verdict
    <3>3. CASE ~Misled
      BY <2>4, <3>1, <3>3 DEF Verdict
    <3> QED
      BY <3>2, <3>3
  <2> QED
    BY <1>3, <2>2, <2>3, <2>4
<1> QED
  BY <1>2, <1>3 DEF Told

-----------------------------------------------------------------------------
(* What each step does to the news                                          *)

\* The round does not get longer and no tick is lost.
LEMMA QuietIf ==
  ASSUME ClockOK, ClockOK', since' = since, Rem' <= Rem, NextTick' <= NextTick,
         InRound' <=> InRound, Misled' <=> Misled,
         watched' = watched, backend'[watched] = backend[watched]
  PROVE  Quiet
<1>1. PICK s \in Nat : s = since
  BY DEF ClockOK
<1>2. PICK r \in Nat : r = Rem
  BY DEF ClockOK
<1>3. PICK q \in Nat : q = Rem'
  BY DEF ClockOK
<1>4. PICK t \in Nat : t = NextTick
  BY DEF ClockOK
<1>5. PICK u \in Nat : u = NextTick'
  BY DEF ClockOK
<1>6. NextStart = Most(t, r) /\ NextStart' = Most(u, q)
  BY <1>2, <1>3, <1>4, <1>5 DEF NextStart
<1>7. q <= r /\ u <= t
  BY <1>2, <1>3, <1>4, <1>5
<1>8. s + q <= s + r /\ s + Most(u, q) <= s + Most(t, r)
  BY <1>7 DEF Most
<1>9. since' + Rem' <= since + Rem
  BY <1>1, <1>2, <1>3, <1>8, Zenon
<1>10. since' + NextStart' <= since + NextStart
  BY <1>1, <1>6, <1>8, Zenon
<1> QED
  BY <1>9, <1>10 DEF Quiet

LEMMA ToldLoad ==
  ASSUME IInv, IInv', LoadSnapshot, (watched \in listed)'
  PROVE  Told
<1>1. ClockOK /\ ClockOK'
  BY ClockTyped, PTL
<1>2. /\ round.pc = "load" /\ round'.pc = "next" /\ round'.todo = listed
      /\ round'.stale = {}
      /\ UNCHANGED <<backend, listed, up, watched, since, ticker>>
  BY DEF LoadSnapshot, At
<1>3. InRound /\ InRound' /\ ~Misled /\ ~Misled'
  BY <1>2 DEF InRound, Misled, OnWatched
<1>4. Rem = RoundTime /\ Rem' = Load(listed) /\ NextTick' = NextTick
  BY <1>2 DEF Rem, NextTick
<1>5. Load(listed) <= RoundTime
  BY LoadFacts DEF IInv, TypeOK
<1>6. Rem' <= Rem
  BY <1>4, <1>5
<1>7. NextTick' <= NextTick
  BY <1>1, <1>4 DEF ClockOK
<1> QED
  BY <1>1, <1>2, <1>3, <1>6, <1>7, QuietIf DEF Told

LEMMA ToldProbe ==
  ASSUME IInv, IInv', Running, StartProbe, (watched \in listed)'
  PROVE  Told
<1>1. ClockOK /\ ClockOK'
  BY ClockTyped, PTL
<1>2. round \in Rounds /\ watched \in Backends /\ up \in [Backends -> BOOLEAN]
  BY DEF IInv, TypeOK, Rounds
<1>3. PICK b \in round.todo :
        \E wait \in 0..(IF up[b] THEN ProbeTimeout - 1 ELSE ProbeTimeout) :
          round' = [round EXCEPT
                      !.pc = "probe", !.todo = @ \ {b}, !.at = b,
                      !.left = IF Running THEN wait ELSE 0,
                      !.ok = Running /\ up[b],
                      !.asked = Running]
  BY DEF StartProbe
<1>4. PICK wait \in 0..(IF up[b] THEN ProbeTimeout - 1 ELSE ProbeTimeout) :
        round' = [round EXCEPT
                    !.pc = "probe", !.todo = @ \ {b}, !.at = b,
                    !.left = IF Running THEN wait ELSE 0,
                    !.ok = Running /\ up[b],
                    !.asked = Running]
  BY <1>3
<1>5. /\ round.pc = "next"
      /\ UNCHANGED <<backend, listed, up, watched, since, ticker>>
  BY DEF StartProbe
<1>6. /\ round'.pc = "probe" /\ round'.todo = round.todo \ {b} /\ round'.at = b
      /\ round'.left = wait /\ round'.ok = up[b]
      /\ round'.stale = round.stale
  BY <1>2, <1>4 DEF Rounds
<1>7. b = watched => round'.ok = up[watched]
  BY <1>6
<1>8. InRound' <=> InRound
  BY <1>5, <1>6, <1>7 DEF InRound, OnWatched
<1>9. ~Misled /\ ~Misled'
  BY <1>5, <1>6, <1>7 DEF Misled, OnWatched
<1>10. Rem' <= Rem
  <2>1. Rem = Load(round.todo) /\ Rem' = Load(round'.todo) + round'.left
    BY <1>5, <1>6 DEF Rem
  <2>2. round.todo \in SUBSET Backends /\ round'.todo \in SUBSET Backends
    BY <1>2, <1>6 DEF Rounds
  <2>3. /\ Load(round'.todo) + ProbeTimeout = Load(round.todo)
        /\ Load(round'.todo) \in Nat
    BY <1>6, <2>2, LoadFacts
  <2>4. round'.left \in Nat /\ round'.left <= ProbeTimeout
    BY ConstantsTyped DEF IInv, TypeOK
  <2>5. PICK l \in Nat : l = Load(round'.todo)
    BY <2>3
  <2>6. PICK x \in Nat : x = round'.left
    BY <2>4
  <2>7. l + x <= l + ProbeTimeout
    BY <2>4, <2>6, ConstantsTyped
  <2> QED
    BY <2>1, <2>3, <2>5, <2>6, <2>7, Zenon
<1>11. NextTick' <= NextTick
  <2>1. NextTick' = NextTick
    BY <1>5 DEF NextTick
  <2> QED
    BY <1>1, <2>1 DEF ClockOK
<1> QED
  BY <1>1, <1>5, <1>8, <1>9, <1>10, <1>11, QuietIf DEF Told

LEMMA ToldEndRound ==
  ASSUME IInv, IInv', EndRound, (watched \in listed)'
  PROVE  Told
<1>1. ClockOK /\ ClockOK'
  BY ClockTyped, PTL
<1>2. /\ round.pc = "next" /\ round.todo = {} /\ round'.pc = "select"
      /\ round'.todo = {}
      /\ UNCHANGED <<backend, listed, up, watched, since, ticker>>
  BY DEF EndRound, At
<1>3. ~InRound /\ ~InRound' /\ ~Misled /\ ~Misled'
  BY <1>2 DEF InRound, Misled, OnWatched
<1>4. Rem = 0 /\ Rem' = 0 /\ NextTick' = NextTick
  BY <1>2, LoadFacts DEF Rem, NextTick
<1>5. Rem' <= Rem /\ NextTick' <= NextTick
  BY <1>1, <1>4 DEF ClockOK
<1> QED
  BY <1>1, <1>2, <1>3, <1>5, QuietIf DEF Told

LEMMA ToldReceive ==
  ASSUME IInv, IInv', Sound, Running, ReceiveTick, (watched \in listed)'
  PROVE  Told
<1>1. /\ round.pc = "select" /\ ticker.full /\ round'.pc = "load"
      /\ UNCHANGED <<backend, listed, up, watched, since>>
  BY DEF ReceiveTick, At
<1>2. /\ InRound' /\ ~Misled /\ ~Misled'
      /\ NextStart = 0
  BY <1>1 DEF InRound, Misled, OnWatched, NextStart, Rem, NextTick, Most
<1>3. ~InRound
  BY <1>1 DEF Sound, InRound, OnWatched
<1> QED
  BY <1>1, <1>2, <1>3 DEF Told, NewRound

LEMMA ToldVerdict ==
  ASSUME IInv, IInv', Sound, EndProbe, (watched \in listed)'
  PROVE  Told
<1>1. ClockOK /\ ClockOK'
  BY ClockTyped, PTL
<1>2. /\ round \in Rounds /\ watched \in Backends /\ up \in [Backends -> BOOLEAN]
      /\ backend \in [Backends -> [Healthy : BOOLEAN, Failures : 0..Threshold]]
      /\ Threshold \in Nat \ {0} /\ round.at \in Backends \ round.todo
  BY ConstantsTyped DEF IInv, TypeOK, Rounds, ProbeHolds, EndProbe
<1>3. /\ round.pc = "probe" /\ round.left = 0
      /\ UNCHANGED <<listed, up, watched, since, ticker>>
      /\ round' = [round EXCEPT !.pc = "next"]
  BY DEF EndProbe, Onward
<1>4. /\ round'.pc = "next" /\ round'.todo = round.todo
      /\ round'.stale = round.stale
  BY <1>2, <1>3 DEF Rounds
<1>5. Rem' = Rem
  <2>1. Rem = Load(round.todo) + 0 /\ Rem' = Load(round.todo)
    BY <1>3, <1>4 DEF Rem
  <2>2. Load(round.todo) \in Nat
    BY <1>2, LoadFacts DEF Rounds
  <2>3. Load(round.todo) + 0 = Load(round.todo)
    BY <2>2
  <2> QED
    BY <2>1, <2>3, Zenon
<1>6. NextTick' = NextTick
  BY <1>3 DEF NextTick
<1>7. ~Misled'
  BY <1>4 DEF Misled, OnWatched
<1>8. CASE ~OnWatched
  <2>1. ~Misled /\ (InRound' <=> InRound)
    BY <1>3, <1>4, <1>8 DEF Misled, InRound, OnWatched
  <2>2. backend'[watched] = backend[watched]
    BY <1>2, <1>3, <1>8 DEF EndProbe, OnWatched
  <2>3. Rem' <= Rem /\ NextTick' <= NextTick
    BY <1>1, <1>5, <1>6 DEF ClockOK
  <2> QED
    BY <1>1, <1>3, <1>7, <2>1, <2>2, <2>3, QuietIf DEF Told
<1>9. CASE OnWatched
  <2> DEFINE failures == IF round.ok THEN 0
                         ELSE Least(backend[watched].Failures + 1, Threshold)
  <2>1. round.at = watched /\ watched \notin round.stale
        /\ watched \notin round.todo
    BY <1>2, <1>9 DEF OnWatched
  <2>2. backend'[watched] =
          [Healthy |-> round.ok \/ (backend[watched].Healthy /\ failures < Threshold),
           Failures |-> failures]
    BY <1>2, <2>1 DEF EndProbe
  <2>3. (InRound <=> ~Misled) /\ ~InRound' /\ (round.ok = up[watched] <=> ~Misled)
    BY <1>3, <1>4, <1>9, <2>1 DEF InRound, Misled, OnWatched
  <2>4. NextStart' = NextStart
    BY <1>5, <1>6 DEF NextStart
  <2>5. PICK f \in 0..Threshold : f = backend[watched].Failures
    BY <1>2
  <2>6. /\ backend'[watched].Failures = failures
        /\ backend'[watched].Healthy
             = (round.ok \/ (backend[watched].Healthy /\ failures < Threshold))
    BY <2>2
  <2>7. round.ok => failures = 0
    OBVIOUS
  <2>8. ~round.ok /\ failures < Threshold => failures = f + 1
    BY <1>2, <2>5 DEF Least
  <2> HIDE DEF failures
  <2>9. backend'[watched].Healthy =>
          \/ round.ok /\ backend'[watched].Failures = 0
          \/ /\ ~round.ok /\ backend[watched].Healthy
             /\ backend'[watched].Failures = backend[watched].Failures + 1
    BY <2>5, <2>6, <2>7, <2>8
  <2>10. round.ok => backend'[watched].Healthy
    BY <2>6
  <2>11. Verdict
    BY <1>3, <1>7, <2>3, <2>4, <2>9, <2>10 DEF Verdict
  <2> QED
    BY <1>3, <2>11 DEF Told
<1> QED
  BY <1>8, <1>9

LEMMA ToldTick ==
  ASSUME IInv, IInv', Tick, (watched \in listed)'
  PROVE  Told
<1>1. ClockOK /\ ClockOK'
  BY ClockTyped, PTL
<1>2. ticker.left = 0 /\ UNCHANGED <<backend, listed, up, watched, since, round>>
      /\ ticker'.full
  BY DEF Tick
<1>3. (InRound' <=> InRound) /\ (Misled' <=> Misled) /\ Rem' = Rem
  BY <1>2 DEF InRound, Misled, OnWatched, Rem
<1>4. NextTick = 0 /\ NextTick' = 0
  BY <1>2 DEF NextTick
<1>5. Rem' <= Rem /\ NextTick' <= NextTick
  BY <1>1, <1>3, <1>4 DEF ClockOK
<1> QED
  BY <1>1, <1>2, <1>3, <1>5, QuietIf DEF Told

\* A unit of time: the probe and the tick come nearer by one.
LEMMA ToldElapse ==
  ASSUME IInv, IInv', Sound, Running, Elapse, (watched \in listed)'
  PROVE  Told
<1>1. ClockOK /\ ClockOK'
  BY ClockTyped, PTL
<1>2. /\ round \in Rounds /\ ticker \in [left : 0..Interval, full : BOOLEAN]
      /\ ProbeTimeout \in Nat /\ Interval \in Nat /\ Cap \in Nat
  BY ConstantsTyped DEF IInv, TypeOK, Rounds
<1>3. /\ UNCHANGED <<backend, listed, up, watched>>
      /\ since' = Least(since + 1, Cap)
      /\ ticker.left > 0 /\ ticker' = [ticker EXCEPT !.left = @ - 1]
      /\ \/ /\ round.pc = "probe" /\ round.left > 0
            /\ round' = [round EXCEPT !.left = @ - 1]
         \/ round.pc = "select" /\ ~ticker.full /\ round' = round
  BY DEF Elapse, Sound
<1>4. /\ round'.pc = round.pc /\ round'.todo = round.todo /\ round'.at = round.at
      /\ round'.stale = round.stale /\ round'.ok = round.ok
  BY <1>2, <1>3 DEF Rounds
<1>5. (InRound' <=> InRound) /\ (Misled' <=> Misled)
  BY <1>3, <1>4 DEF InRound, Misled, OnWatched
<1>6. PICK s \in Nat : s = since
  BY <1>1 DEF ClockOK
<1>7. PICK v \in Nat : v = since'
  BY <1>1 DEF ClockOK
<1>8. v <= s + 1
  <2>1. Least(s + 1, Cap) <= s + 1
    BY <1>2 DEF Least
  <2> QED
    BY <1>3, <1>6, <1>7, <2>1, Zenon
<1>9. PICK l \in Nat \ {0} : l = ticker.left
  BY <1>2, <1>3
<1>10. /\ ticker'.left = l - 1 /\ ticker'.full = ticker.full
      /\ ticker.full \in BOOLEAN
  BY <1>2, <1>3, <1>9
<1>11. CASE round.pc = "probe"
  <2>1. PICK x \in Nat \ {0} : x = round.left
    BY <1>2, <1>3, <1>11 DEF Rounds
  <2>2. round'.left = x - 1
    BY <1>2, <1>3, <1>11, <2>1 DEF Rounds
  <2>3. PICK w \in Nat : w = Load(round.todo)
    BY <1>2, LoadFacts DEF Rounds
  <2>4. Rem = w + x /\ Rem' = w + (x - 1)
    BY <1>4, <1>11, <2>1, <2>2, <2>3 DEF Rem
  <2>5. v + (w + (x - 1)) <= s + (w + x)
    BY <1>8
  <2>6. since' + Rem' <= since + Rem
    BY <1>6, <1>7, <2>4, <2>5, Zenon
  <2>7. CASE ticker.full
    <3>1. NextTick = 0 /\ NextTick' = 0
      BY <1>10, <2>7 DEF NextTick
    <3>2. NextStart = w + x /\ NextStart' = w + (x - 1)
      BY <2>4, <3>1 DEF NextStart, Most
    <3> QED
      BY <1>3, <1>5, <1>6, <1>7, <2>5, <2>6, <3>2, Zenon DEF Quiet, Told
  <2>8. CASE ~ticker.full
    <3>1. NextTick = l /\ NextTick' = l - 1
      BY <1>9, <1>10, <2>8 DEF NextTick
    <3>2. NextStart = Most(l, w + x) /\ NextStart' = Most(l - 1, w + (x - 1))
      BY <2>4, <3>1 DEF NextStart
    <3>3. v + Most(l - 1, w + (x - 1)) <= s + Most(l, w + x)
      BY <1>8 DEF Most
    <3>4. since' + NextStart' <= since + NextStart
      BY <1>6, <1>7, <3>2, <3>3, Zenon
    <3> QED
      BY <1>3, <1>5, <2>6, <3>4, Zenon DEF Quiet, Told
  <2> QED
    BY <2>7, <2>8
<1>12. CASE round.pc = "select"
  <2>1. ~InRound
    BY <1>12 DEF InRound, OnWatched, Sound
  <2>2. Rem = 0 /\ Rem' = 0
    BY <1>4, <1>12 DEF Rem
  <2>3. NextTick = l /\ NextTick' = l - 1
    BY <1>3, <1>9, <1>10, <1>12 DEF NextTick
  <2>4. NextStart = Most(l, 0) /\ NextStart' = Most(l - 1, 0)
    BY <2>2, <2>3 DEF NextStart
  <2>5. v + Most(l - 1, 0) <= s + Most(l, 0)
    BY <1>8 DEF Most
  <2>6. since' + NextStart' <= since + NextStart
    BY <1>6, <1>7, <2>4, <2>5, Zenon
  <2> QED
    BY <1>3, <1>5, <2>1, <2>6, Zenon DEF Quiet, Told
<1> QED
  BY <1>3, <1>11, <1>12

\* Discovery: the clock of the news starts anew, or watched keeps its state.
LEMMA ToldUpdate ==
  ASSUME IInv, IInv', UpdateBackends, (watched \in listed)'
  PROVE  Told
<1>1. ClockOK /\ ClockOK'
  BY ClockTyped, PTL
<1>2. round \in Rounds /\ watched \in Backends
  BY DEF IInv, TypeOK, Rounds
<1>3. PICK eps \in SUBSET Backends, moved \in SUBSET Backends :
        LET renewed == (eps \ listed) \cup (listed \ eps) \cup moved
        IN  /\ backend' = [b \in Backends |->
                 IF b \in renewed THEN NewState ELSE backend[b]]
            /\ round' = [round EXCEPT
                 !.stale = @ \cup (renewed \cap (round.todo \cup {round.at}))]
            /\ since' = IF watched \in renewed THEN 0 ELSE since
            /\ listed' = eps
  BY DEF UpdateBackends
<1> DEFINE renewed == (eps \ listed) \cup (listed \ eps) \cup moved
<1>4. UNCHANGED <<up, watched, ticker>>
  BY DEF UpdateBackends
<1>5. /\ round'.pc = round.pc /\ round'.todo = round.todo /\ round'.at = round.at
      /\ round'.left = round.left /\ round'.ok = round.ok
      /\ round'.stale = round.stale \cup (renewed \cap (round.todo \cup {round.at}))
  BY <1>2, <1>3 DEF Rounds
<1>6. CASE watched \in renewed
  BY <1>3, <1>6 DEF Told
<1>7. CASE watched \notin renewed
  <2>1. /\ since' = since /\ backend'[watched] = backend[watched]
        /\ watched \in listed
        /\ watched \in round'.stale <=> watched \in round.stale
    BY <1>2, <1>3, <1>4, <1>5, <1>7
  <2>2. (InRound' <=> InRound) /\ (Misled' <=> Misled)
    BY <1>4, <1>5, <2>1 DEF InRound, Misled, OnWatched
  <2>3. Rem' = Rem /\ NextTick' = NextTick
    BY <1>4, <1>5 DEF Rem, NextTick
  <2>4. Rem' <= Rem /\ NextTick' <= NextTick
    BY <1>1, <2>3 DEF ClockOK
  <2> QED
    BY <1>1, <1>4, <2>1, <2>2, <2>4, QuietIf DEF Told
<1> QED
  BY <1>6, <1>7

LEMMA ToldFlip ==
  ASSUME IInv, IInv', NEW b \in Backends, Flip(b), (watched \in listed)'
  PROVE  Told
<1>1. ClockOK /\ ClockOK'
  BY ClockTyped, PTL
<1>2. CASE b = watched
  BY <1>2 DEF Flip, Told
<1>3. CASE b # watched
  <2>1. /\ since' = since /\ up'[watched] = up[watched]
        /\ UNCHANGED <<backend, listed, watched, ticker, round>>
    BY <1>3 DEF Flip, IInv, TypeOK
  <2>2. /\ InRound' <=> InRound
        /\ Misled' <=> Misled
        /\ Rem' = Rem /\ NextTick' = NextTick
    BY <2>1 DEF InRound, Misled, OnWatched, Rem, NextTick
  <2>3. Rem' <= Rem /\ NextTick' <= NextTick
    BY <1>1, <2>2 DEF ClockOK
  <2> QED
    BY <1>1, <2>1, <2>2, <2>3, QuietIf DEF Told
<1> QED
  BY <1>2, <1>3

LEMMA ToldSame ==
  ASSUME IInv, IInv', (watched \in listed)',
         UNCHANGED <<backend, listed, up, watched, since, ticker, round>>
  PROVE  Told
<1>1. ClockOK /\ ClockOK'
  BY ClockTyped, PTL
<1>2. /\ InRound' <=> InRound
      /\ Misled' <=> Misled
      /\ Rem' = Rem /\ NextTick' = NextTick
  BY DEF InRound, Misled, OnWatched, Rem, NextTick
<1>3. Rem' <= Rem /\ NextTick' <= NextTick
  BY <1>1, <1>2 DEF ClockOK
<1> QED
  BY <1>1, <1>2, <1>3, QuietIf DEF Told

\* Every step of a process that runs, and runs on.
LEMMA ToldStep ==
  ASSUME IInv, IInv', Sound, [Next]_vars, Running', (watched \in listed)'
  PROVE  Running /\ Told /\ watched' = watched
<1>1. process \in Processes
  BY DEF IInv, TypeOK, Processes
<1>2. ~Signal /\ ~End
  BY <1>1 DEF Signal, End, Running, Started, Processes
<1>3. ~Quit
  BY DEF Quit, Done, Running
<1>4. Running
  BY <1>1, <1>2, <1>3
     DEF Next, CheckHealth, ListenFails, Exit, LoadSnapshot, StartProbe,
         EndProbe, EndRound, ReceiveTick, UpdateBackends, Finish, Tick,
         Elapse, Flip, vars, Running, Processes
<1>5. watched' = watched
  BY DEF Next, CheckHealth, ListenFails, Exit, End, LoadSnapshot, StartProbe,
         EndProbe, EndRound, ReceiveTick, Quit, UpdateBackends, Signal,
         Finish, Tick, Elapse, Flip, vars
<1>6. ASSUME Finish \/ UNCHANGED vars
      PROVE  Told
  BY <1>6, ToldSame DEF Finish, vars
<1>7. CASE StartProbe
  BY <1>4, <1>5, <1>7, ToldProbe
<1>8. CASE ~StartProbe
  BY <1>2, <1>3, <1>4, <1>5, <1>6, <1>8, ToldLoad, ToldVerdict, ToldEndRound,
     ToldReceive, ToldUpdate, ToldTick, ToldElapse, ToldFlip
     DEF Next, CheckHealth, ListenFails, Exit
<1> QED
  BY <1>7, <1>8

-----------------------------------------------------------------------------
(* The theorems *)

LEMMA DownInv ==
  ASSUME IInv, IInv', Sound, ToldDown, [Next]_vars
  PROVE  ToldDown'
<1> SUFFICES ASSUME Running', (watched \in listed)', (~up[watched])'
             PROVE  /\ Misled' => OnTime(1)'
                    /\ (backend[watched].Healthy)' =>
                         (OnTime(backend[watched].Failures + 1))'
  BY DEF ToldDown
<1>1. Running /\ Told /\ watched' = watched
  BY ToldStep
<1> QED
  BY <1>1, ToldDownStep

LEMMA UpInv ==
  ASSUME IInv, IInv', Sound, ToldUp, [Next]_vars
  PROVE  ToldUp'
<1> SUFFICES ASSUME Running', (watched \in listed)', (up[watched])'
             PROVE  (backend[watched].Healthy /\ ~Misled)' \/ OnTime(1)'
  BY DEF ToldUp
<1>1. Running /\ Told /\ watched' = watched
  BY ToldStep
<1> QED
  BY <1>1, ToldUpStep

LEMMA ToldInit == Init => ToldUp /\ ToldDown
<1> SUFFICES ASSUME Init
             PROVE  ToldUp /\ ToldDown
  OBVIOUS
<1>1. ClockOK
  BY InitInv, ClockTyped
<1>2. InRound /\ ~Misled /\ since = 0
  BY DEF Init, At, InRound, Misled, OnWatched
<1>3. ~backend[watched].Healthy
  BY DEF Init, NewState
<1>4. Periods(1) \in Nat
  BY PeriodsFacts
<1>5. OnTime(1)
  BY <1>1, <1>2, <1>4, PeriodTyped DEF OnTime, ClockOK
<1> QED
  BY <1>2, <1>3, <1>5 DEF ToldUp, ToldDown

\* What is told in time is there in time.
LEMMA OnTimeBounds ==
  ASSUME IInv, NEW k \in Nat, OnTime(k)
  PROVE  since <= Periods(k) + RoundTime
<1>1. ClockOK
  BY ClockTyped
<1>2. Periods(k) \in Nat
  BY PeriodsFacts
<1> QED
  BY <1>1, <1>2, PeriodTyped DEF OnTime, ClockOK

\* A backend that went down is out of the selection after Threshold periods
\* and a round, however slow the other backends are and whatever discovery
\* does with them.
THEOREM DetectionInTime == Spec => []DetectionBounded
<1>1. IInv /\ Sound /\ ToldDown => DetectionBounded
  <2> SUFFICES ASSUME IInv, Sound, ToldDown, Running, watched \in listed,
                      ~up[watched], since > DetectionBound,
                      backend[watched].Healthy
               PROVE  FALSE
    BY DEF DetectionBounded
  <2>1. PICK f \in Nat : f = backend[watched].Failures
    BY ConstantsTyped DEF IInv, TypeOK
  <2>2. f + 1 <= Threshold
    <3>1. watched \in Backends
      BY DEF IInv, TypeOK
    <3>2. backend[watched].Failures < Threshold
      BY <3>1 DEF Sound
    <3> QED
      BY <2>1, <3>2, ConstantsTyped
  <2>3. OnTime(f + 1)
    BY <2>1 DEF ToldDown
  <2>4. since <= Periods(f + 1) + RoundTime
    BY <2>3, OnTimeBounds, f + 1 \in Nat
  <2>5. /\ Periods(f + 1) \in Nat /\ Periods(Threshold) \in Nat
        /\ Periods(f + 1) <= Periods(Threshold)
    BY <2>2, PeriodsFacts, ConstantsTyped, f + 1 \in Nat
  <2>6. DetectionBound = Periods(Threshold) + RoundTime
    BY DEF DetectionBound, Periods
  <2>7. since \in Nat
    BY ClockTyped DEF ClockOK
  <2> QED
    BY <2>4, <2>5, <2>6, <2>7, PeriodTyped
<1>2. Init => IInv /\ Sound /\ ToldDown
  BY InitInv, SoundInit, ToldInit
<1>3. IInv /\ Sound /\ [Next]_vars => IInv' /\ Sound'
  BY NextInv, SoundStep
<1>4. IInv /\ IInv' /\ Sound /\ ToldDown /\ [Next]_vars => ToldDown'
  BY DownInv
<1> QED
  BY <1>1, <1>2, <1>3, <1>4, PTL DEF Spec

\* A backend that is listed and answers within the shorter of the two timeouts
\* is in the selection after a period and a round.
THEOREM RecoveryInTime == Spec => []RecoveryBounded
<1>1. IInv /\ ToldUp => RecoveryBounded
  <2> SUFFICES ASSUME IInv, ToldUp, Running, watched \in listed,
                      up[watched], since > RecoveryBound,
                      ~backend[watched].Healthy
               PROVE  FALSE
    BY DEF RecoveryBounded
  <2>1. OnTime(1)
    BY DEF ToldUp
  <2>2. since <= Periods(1) + RoundTime
    BY <2>1, OnTimeBounds
  <2>3. RecoveryBound = Periods(1) + RoundTime
    BY PeriodTyped DEF RecoveryBound, Periods
  <2>4. since \in Nat /\ Periods(1) \in Nat
    BY ClockTyped, PeriodsFacts DEF ClockOK
  <2> QED
    BY <2>2, <2>3, <2>4, PeriodTyped
<1>2. Init => IInv /\ Sound /\ ToldUp
  BY InitInv, SoundInit, ToldInit
<1>3. IInv /\ Sound /\ [Next]_vars => IInv' /\ Sound'
  BY NextInv, SoundStep
<1>4. IInv /\ IInv' /\ Sound /\ ToldUp /\ [Next]_vars => ToldUp'
  BY UpInv
<1> QED
  BY <1>1, <1>2, <1>3, <1>4, PTL DEF Spec
=============================================================================
