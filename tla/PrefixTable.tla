---------------------------- MODULE PrefixTable ----------------------------
(***************************************************************************)
(* What the matcher promises of its metadata: a table of the time each     *)
(* backend last served each prefix. A time is replaced only by a later     *)
(* one, and it is forgotten only once it is older than the maximum age.    *)
(***************************************************************************)
EXTENDS Integers

CONSTANTS
  Prints,      \* prefix hashes
  BackendIDs,
  MaxAge,      \* the age from which metadata may be forgotten
  Start,       \* the time the router starts; time 0 is the Unix epoch
  MaxTime      \* bound of the clock

VARIABLES
  seen,        \* when the backend last served the prefix; 0: never
  clock

Never == 0

TableInit ==
  /\ seen = [p \in Prints |-> [b \in BackendIDs |-> Never]]
  /\ clock = Start

Record(p, b) ==
  /\ \E t \in Start..clock :
       /\ t >= seen[p][b]
       /\ seen' = [seen EXCEPT ![p][b] = t]
  /\ UNCHANGED clock

Forget(p, b) ==
  /\ clock - seen[p][b] > MaxAge
  /\ seen' = [seen EXCEPT ![p][b] = Never]
  /\ UNCHANGED clock

Pass == clock < MaxTime /\ clock' = clock + 1 /\ UNCHANGED seen

TableNext ==
  \/ \E p \in Prints, b \in BackendIDs : Record(p, b) \/ Forget(p, b)
  \/ Pass

TableSpec == TableInit /\ [][TableNext]_<<seen, clock>>
=============================================================================
