----------------------------- MODULE Readiness -----------------------------
(***************************************************************************)
(* GET /readyz (NewHandler in internal/api/handler.go, Router.Ready in     *)
(* internal/router/router.go): the backends of the current snapshot are    *)
(* probed one after the other, all within one budget of 2 seconds, until   *)
(* one of them answers. The Healthy flags of the states are not looked at. *)
(* Discovery cannot disturb the walk: the list it loaded is never changed. *)
(***************************************************************************)
EXTENDS Integers, SequencesExt

CONSTANT Budget \* the deadline of the request's context, in time units

ASSUME BudgetAssumption == Budget \in Nat \ {0}

\* How a backend treats a probe: after a delay it answers below 300 (ok), or
\* with another status or not at all. A delay of Budget or more is never seen.
Behaviour == [delay : 0..Budget, ok : BOOLEAN]

\* Mutant: every probe has a deadline of its own.
AskOwnDeadline(walk, backend) ==
  IF walk.ready THEN walk
  ELSE [ready |-> backend.ok /\ backend.delay < walk.left, left |-> Budget]

\* One probe. An answer below 300 in time ends the walk; anything else costs
\* its delay, and past the deadline every probe fails at once.
Ask(walk, backend) ==
  IF walk.ready THEN walk
  ELSE [ready |-> backend.ok /\ backend.delay < walk.left,
        left  |-> IF backend.delay < walk.left
                  THEN walk.left - backend.delay ELSE 0]

\* TRUE: 200. FALSE: 503.
Ready(list) ==
  FoldLeft(Ask, [ready |-> FALSE, left |-> Budget], list).ready
=============================================================================
