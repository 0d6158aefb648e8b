---------------------------- MODULE HealthTiming ----------------------------
(***************************************************************************)
(* The router process against the clock: the health goroutine              *)
(* (StartHealthCheck and checkBackendsHealth in internal/router/router.go, *)
(* HTTPClient in internal/backend/http.go), the discovery goroutine and    *)
(* the shutdown (cmd/router/main.go).                                      *)
(*                                                                         *)
(* A health round probes the backends of a snapshot one after the other,   *)
(* on a ticker whose channel holds one tick, so a slow backend delays the  *)
(* news about all others and ticks are dropped. A signal cancels the       *)
(* context that the probes and discovery share; requests that are being    *)
(* served get a grace period. Time passes in units, and only when no       *)
(* goroutine has anything to do at once.                                   *)
(***************************************************************************)
EXTENDS Integers

CONSTANTS
  N,             \* number of backends there can be
  Interval,      \* HEALTH_CHECK_INTERVAL
  HealthTimeout, \* BACKEND_HEALTH_TIMEOUT: the deadline of the probe's context
  ClientTimeout, \* Timeout of the http.Client, 5 seconds in the code
  Threshold,     \* BACKEND_HEALTH_FAILURE_THRESHOLD
  GracePeriod,   \* the deadline of srv.Shutdown, 10 seconds in the code
  MaxOpen        \* requests that are being served when the signal comes

\* ServesWithUsableSettings in Algorithms: what serves has positive settings.
ASSUME BoundsAssumption ==
  /\ N \in Nat \ {0} /\ Interval \in Nat \ {0} /\ Threshold \in Nat \ {0}
  /\ HealthTimeout \in Nat \ {0} /\ ClientTimeout \in Nat \ {0}
  /\ GracePeriod \in Nat \ {0} /\ MaxOpen \in Nat

Backends == 1..N

Least(a, b) == IF a < b THEN a ELSE b
Most(a, b) == IF a < b THEN b ELSE a

\* The time after which a probe without an answer is given up.
ProbeTimeout == Least(HealthTimeout, ClientTimeout)

VARIABLES
  backend, \* Healthy and ConsecutiveHealthFailures of each backend's state
  listed,  \* the backends of the router's snapshot
  up,      \* the backend answers ok in less than ProbeTimeout
  watched, \* the backend whose news is timed
  since,   \* how long up and the listing of watched are as they are (capped)
  ticker,  \* time until the next tick, and whether the channel holds one
  round,   \* the health goroutine
  process, \* phase of main, and from the signal on: what is left of the grace
           \* period, requests that are open, and whether discovery holds an
           \* answer it has not stored (late)
  unasked  \* history: failures stored for a backend that nobody asked

vars == <<backend, listed, up, watched, since, ticker, round, process, unasked>>

-----------------------------------------------------------------------------
\* A round cannot take longer than this, and rounds start this often.
RoundTime == N * ProbeTimeout
Period == Most(Interval, RoundTime)

\* How long the news may take to reach Healthy.
DetectionBound == Threshold * Period + RoundTime
RecoveryBound == Period + RoundTime

Cap == DetectionBound + 1

\* What a shutdown can add to the failures of a backend: the round that is cut
\* short, one for the tick that waits, and one for a tick that is just due.
MaxUnasked == 3

Started == [phase |-> "running", grace |-> GracePeriod, open |-> 0, late |-> FALSE]

NewState == [Healthy |-> FALSE, Failures |-> 0]

Running == process.phase = "running"
Alive == process.phase # "exited"

\* Mutant: the loop has no case for ctx.Done().
DoneNever == FALSE

\* ctx.Done() is ready.
Done == process.phase = "stopping"

At(pc) == [pc |-> pc, todo |-> {}, stale |-> {}, at |-> 0, ok |-> FALSE,
           asked |-> FALSE, left |-> 0]

\* BACKENDS may list some. The ticker starts and a round begins at once.
Init ==
  /\ backend = [b \in Backends |-> NewState]
  /\ listed \in SUBSET Backends
  /\ up \in [Backends -> BOOLEAN]
  /\ watched \in Backends
  /\ since = 0
  /\ ticker = [left |-> Interval, full |-> FALSE]
  /\ round = At("load")
  /\ process = Started
  /\ unasked = [b \in Backends |-> 0]

-----------------------------------------------------------------------------
(* Health checks *)

\* checkBackendsHealth loads the snapshot it will walk.
LoadSnapshot ==
  /\ Alive /\ round.pc = "load"
  /\ round' = [At("next") EXCEPT !.todo = listed]
  /\ UNCHANGED <<backend, listed, up, watched, since, ticker, process,
                 unasked>>

\* Mutant: the http.Client has no timeout of its own.
StartProbeUnbound ==
  /\ Alive /\ round.pc = "next"
  /\ \E b \in round.todo, wait \in 0..HealthTimeout :
       round' = [round EXCEPT !.pc = "probe", !.todo = @ \ {b}, !.at = b,
                              !.left = wait, !.ok = up[b], !.asked = TRUE]
  /\ UNCHANGED <<backend, listed, up, watched, since, ticker, process,
                 unasked>>

\* client.Health on the next backend, in the order of the list, which can be
\* any. A backend that is up answers within both timeouts; one that is down
\* refuses, answers with a bad status, or lets the probe run into the shorter of
\* them. With a cancelled context nobody is asked.
StartProbe ==
  /\ Alive /\ round.pc = "next"
  /\ \E b \in round.todo :
     \E wait \in 0..(IF up[b] THEN ProbeTimeout - 1 ELSE ProbeTimeout) :
       round' = [round EXCEPT
                   !.pc = "probe", !.todo = @ \ {b}, !.at = b,
                   !.left = IF Running THEN wait ELSE 0,
                   !.ok = Running /\ up[b],
                   !.asked = Running]
  /\ UNCHANGED <<backend, listed, up, watched, since, ticker, process,
                 unasked>>

\* Mutant: the first failure in a row ends the round.
StopAtFailure ==
  [round EXCEPT !.pc = "next", !.todo = IF round.ok THEN @ ELSE {}]

\* Whatever the verdict, the next backend.
Onward == [round EXCEPT !.pc = "next"]

\* The verdict, as Apply in BackendPool, and on to the next backend. A state
\* that discovery has replaced meanwhile is nobody's any more.
EndProbe ==
  LET b        == round.at
      failures == IF round.ok THEN 0
                  ELSE Least(backend[b].Failures + 1, Threshold)
  IN  /\ Alive /\ round.pc = "probe" /\ round.left = 0
      /\ IF b \in round.stale
         THEN UNCHANGED <<backend, unasked>>
         ELSE /\ backend' = [backend EXCEPT ![b] =
                   [Healthy  |-> round.ok \/ (@.Healthy /\ failures < Threshold),
                    Failures |-> failures]]
              /\ unasked' = [unasked EXCEPT ![b] =
                   IF round.asked THEN @ ELSE Least(@ + 1, MaxUnasked + 1)]
      /\ round' = Onward
      /\ UNCHANGED <<listed, up, watched, since, ticker, process>>

\* The loop blocks in its select.
EndRound ==
  /\ Alive /\ round.pc = "next" /\ round.todo = {}
  /\ round' = At("select")
  /\ UNCHANGED <<backend, listed, up, watched, since, ticker, process,
                 unasked>>

\* The select receives a tick, although ctx.Done() may be ready as well.
ReceiveTick ==
  /\ Alive /\ round.pc = "select" /\ ticker.full
  /\ ticker' = [ticker EXCEPT !.full = FALSE]
  /\ round' = At("load")
  /\ UNCHANGED <<backend, listed, up, watched, since, process, unasked>>

\* The select finds ctx.Done() ready, and the ticker is stopped.
Quit ==
  /\ Alive /\ round.pc = "select" /\ Done
  /\ round' = At("gone")
  /\ ticker' = [left |-> Interval, full |-> FALSE]
  /\ UNCHANGED <<backend, listed, up, watched, since, process, unasked>>

CheckHealth ==
  LoadSnapshot \/ StartProbe \/ EndProbe \/ EndRound \/ ReceiveTick \/ Quit

-----------------------------------------------------------------------------
(* Discovery *)

\* discoverOnce stores what Discover has returned. States of backends that are
\* new or have a new URL are made, and the round may hold the old ones. With a
\* cancelled context Discover is an error, so that only an answer that was
\* there before the signal is stored after it.
UpdateBackends ==
  /\ Running \/ process.late
  /\ \E eps \in SUBSET Backends : \E moved \in SUBSET (eps \cap listed) :
       LET renewed == (eps \ listed) \cup (listed \ eps) \cup moved
       IN  /\ backend' = [b \in Backends |->
                IF b \in renewed THEN NewState ELSE backend[b]]
           /\ unasked' = [b \in Backends |->
                IF b \in renewed THEN 0 ELSE unasked[b]]
           /\ round' = [round EXCEPT
                !.stale = @ \cup (renewed \cap (round.todo \cup {round.at}))]
           /\ since' = IF watched \in renewed THEN 0 ELSE since
           /\ listed' = eps
  /\ process' = [process EXCEPT !.late = FALSE]
  /\ UNCHANGED <<up, watched, ticker>>

-----------------------------------------------------------------------------
(* The process *)

\* A request that was open when the signal came is served.
Finish ==
  /\ process.open > 0
  /\ process' = [process EXCEPT !.open = @ - 1]
  /\ UNCHANGED <<backend, listed, up, watched, since, ticker, round, unasked>>

\* SIGINT or SIGTERM: ctx is cancelled, with it the probe in flight, and main
\* enters srv.Shutdown, which closes the listener and waits for the requests
\* that are open. An answer that has arrived may still be read.
Signal ==
  /\ Running
  /\ \E open \in 0..MaxOpen, late \in BOOLEAN :
       process' = [process EXCEPT !.phase = "stopping", !.open = open,
                                  !.late = late]
  /\ \/ /\ round.pc = "probe"
        /\ round' = [round EXCEPT !.left = 0, !.ok = FALSE, !.asked = FALSE]
     \/ /\ round.pc # "probe" \/ round.left = 0
        /\ UNCHANGED round
  /\ since' = 0
  /\ UNCHANGED <<backend, listed, up, watched, ticker, unasked>>

\* The process ends: goroutines and memory are gone.
End ==
  /\ process' = [Started EXCEPT !.phase = "exited"]
  /\ backend' = [b \in Backends |-> NewState]
  /\ unasked' = [b \in Backends |-> 0]
  /\ listed' = {}
  /\ since' = 0
  /\ ticker' = [left |-> Interval, full |-> FALSE]
  /\ round' = At("gone")
  /\ UNCHANGED <<up, watched>>

\* ListenAndServe fails: os.Exit(1), whatever else goes on.
ListenFails == Running /\ End

\* Mutant: Shutdown gets a context without a deadline.
ExitWhenServed ==
  /\ process.phase = "stopping"
  /\ process.open = 0
  /\ End

\* Shutdown returns when every request is served, or at its deadline, and main
\* after it.
Exit ==
  /\ process.phase = "stopping"
  /\ process.open = 0 \/ process.grace = 0
  /\ End

-----------------------------------------------------------------------------
(* The clock and the backends *)

\* A backend goes down or comes back.
Flip(b) ==
  /\ Alive
  /\ up' = [up EXCEPT ![b] = ~@]
  /\ since' = IF b = watched THEN 0 ELSE since
  /\ UNCHANGED <<backend, listed, watched, ticker, round, process,
                 unasked>>

\* A tick is due. If the channel is full it is dropped.
Tick ==
  /\ Alive /\ ticker.left = 0
  /\ ticker' = [left |-> Interval, full |-> TRUE]
  /\ UNCHANGED <<backend, listed, up, watched, since, round, process,
                 unasked>>

\* Time passes while the health goroutine waits for an answer or in its
\* select, and Shutdown for the requests.
Elapse ==
  /\ Alive /\ ticker.left > 0
  /\ \/ round.pc = "gone"
     \/ round.pc = "probe" /\ round.left > 0
     \/ round.pc = "select" /\ ~ticker.full /\ ~Done
  /\ Running \/ process.grace > 0
  /\ since' = IF Running THEN Least(since + 1, Cap) ELSE 0
  /\ ticker' = IF round.pc = "gone" THEN ticker
               ELSE [ticker EXCEPT !.left = @ - 1]
  /\ round' = IF round.pc = "probe" THEN [round EXCEPT !.left = @ - 1] ELSE round
  /\ process' = IF Running THEN process ELSE [process EXCEPT !.grace = @ - 1]
  /\ UNCHANGED <<backend, listed, up, watched, unasked>>

Next ==
  \/ CheckHealth
  \/ UpdateBackends
  \/ Signal \/ Finish \/ ListenFails \/ Exit
  \/ Tick \/ Elapse
  \/ \E b \in Backends : Flip(b)

Spec == Init /\ [][Next]_vars

\* The clock does not stop, and the goroutines of a process that lives run.
FairSpec ==
  Spec /\ WF_vars(CheckHealth) /\ WF_vars(Tick) /\ WF_vars(Elapse)
       /\ WF_vars(Exit)
-----------------------------------------------------------------------------
(* Properties *)

\* Every variable has the shape the code gives it.
TypeOK ==
  /\ backend \in [Backends -> [Healthy : BOOLEAN, Failures : 0..Threshold]]
  /\ listed \in SUBSET Backends
  /\ up \in [Backends -> BOOLEAN]
  /\ watched \in Backends
  /\ since \in 0..Cap
  /\ ticker \in [left : 0..Interval, full : BOOLEAN]
  /\ round \in [pc : {"load", "next", "probe", "select", "gone"},
                todo : SUBSET Backends, stale : SUBSET Backends, at : 0..N,
                ok : BOOLEAN, asked : BOOLEAN, left : 0..ProbeTimeout]
  /\ process \in [phase : {"running", "stopping", "exited"},
                  grace : 0..GracePeriod, open : 0..MaxOpen,
                  late : BOOLEAN]
  /\ unasked \in [Backends -> 0..(MaxUnasked + 1)]

\* A backend that is down is no longer selected after DetectionBound, however
\* long the probes of the other backends take, however many ticks they cost
\* and whatever discovery does with the others (README "Backend health polling
\* interval", "Consecutive failures before marking a backend unhealthy").
DetectionBounded ==
  Running /\ watched \in listed /\ ~up[watched] /\ since > DetectionBound
    => ~backend[watched].Healthy

\* A backend that is listed and answers ok within the timeout that applies, the
\* shorter of the configured one and the client's own, is selected after
\* RecoveryBound, also when a round is under way while it is listed.
RecoveryBounded ==
  Running /\ watched \in listed /\ up[watched] /\ since > RecoveryBound
    => backend[watched].Healthy

\* The context that a signal cancels is the parent of the probes': every probe
\* from then on fails without asking, and counts as a failed check. No state
\* gets more than three failures that way before the loop sees ctx.Done(), so
\* requests in their grace period keep the backends that have passed a check
\* since, if the threshold is larger than that.
ShutdownFailuresBounded == \A b \in Backends : unasked[b] <= MaxUnasked

\* Requests that hang, probes that hang and a full ticker do not keep the
\* process from ending after a signal.
SignalEndsProcess == process.phase = "stopping" ~> process.phase = "exited"
=============================================================================
