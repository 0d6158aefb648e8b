----------------------------- MODULE Selection -----------------------------
(***************************************************************************)
(* The choice of the cache-aware policy as a function                      *)
(* (internal/router/cache_aware.go), on a snapshot whose states nobody     *)
(* changes meanwhile. BackendPool has the same two passes interleaved with *)
(* the other goroutines and leaves the scores open.                        *)
(*                                                                         *)
(* Scores count half points, so that LATENCY_WEIGHT is a whole number.     *)
(***************************************************************************)
EXTENDS Integers, SequencesExt

CONSTANTS
  IDs,   \* backend IDs
  Loads  \* what a score can depend on: sets of Inflight and the two averages

ASSUME LoadsAssumption ==
  Loads \subseteq [Inflight : Nat, LatencyEWMA : Nat, ErrorEWMA : 0..1]

State == [ID : IDs, Healthy : BOOLEAN, Load : Loads]

PREFIX_MATCH_WEIGHT == 300
INFLIGHT_WEIGHT == 20
LATENCY_WEIGHT == 3
ERROR_WEIGHT == 100

scoreBackend(state, warmth) ==
  PREFIX_MATCH_WEIGHT * warmth
    - INFLIGHT_WEIGHT * state.Load.Inflight
    - LATENCY_WEIGHT * state.Load.LatencyEWMA
    - ERROR_WEIGHT * state.Load.ErrorEWMA

\* Mutant: the best score is not updated with the selection.
ConsiderStale(list, best, i, warmth) ==
  LET score == scoreBackend(list[i], warmth)
  IN  IF list[i].Healthy /\ (best.at = 0 \/ score > best.score)
      THEN [best EXCEPT !.at = i] ELSE best

\* A selectable state replaces the best one so far if it scores higher; the
\* first one scores higher than -Inf. A position of 0 is nil.
Consider(list, best, i, warmth) ==
  LET score == scoreBackend(list[i], warmth)
  IN  IF list[i].Healthy /\ (best.at = 0 \/ score > best.score)
      THEN [at |-> i, score |-> score] ELSE best

\* Mutant: the scan always starts with the first state.
TurnsFromFirst(list, start) == [k \in DOMAIN list |-> k]

\* The positions of the list from start on, all the way round.
Turns(list, start) ==
  [k \in DOMAIN list |-> ((start + k - 1) % Len(list)) + 1]

loadAwareFallback(list, start) ==
  FoldLeft(LAMBDA best, i : Consider(list, best, i, 0),
           [at |-> 0, score |-> 0], Turns(list, start))

\* The last state with the ID, or nil.
ByID(list, id) == Max({0} \cup {i \in DOMAIN list : list[i].ID = id})

\* The candidates come in the map's order. The result is a position, or nil
\* for ErrNoHealthyBackends.
cacheAwareSelect(list, start, warmth, candidates) ==
  LET try(best, id) ==
        IF ByID(list, id) = 0 THEN best
        ELSE Consider(list, best, ByID(list, id), warmth[id])
  IN  FoldLeft(try, loadAwareFallback(list, start), candidates).at
=============================================================================
