---------------------------- MODULE MCAlgorithms ----------------------------
(* Every input of up to three elements. Two slices, and two endpoints in all,
   are enough for every interaction of them. *)
EXTENDS Algorithms

CONSTANTS a, b, x, y

MCLoads ==
  {[Inflight |-> 0, LatencyEWMA |-> 0, ErrorEWMA |-> 0],
   [Inflight |-> 2, LatencyEWMA |-> 0, ErrorEWMA |-> 0],
   [Inflight |-> 0, LatencyEWMA |-> 100, ErrorEWMA |-> 1]}

http == [Name |-> "http", Port |-> "8000"]
admin == [Name |-> "admin", Port |-> "9000"]

MCPortLists ==
  {<<>>, <<admin, http>>, <<admin>>, <<[http EXCEPT !.Port = "nil"], admin>>}

Status(t, s, r) == [Terminating |-> t, Serving |-> s, Ready |-> r]

\* Ready, not ready, nothing known, and the two ways to terminate.
MCStatuses ==
  {Status("false", "true", "true"), Status("nil", "nil", "false"),
   Status("nil", "nil", "nil"), Status("true", "true", "false"),
   Status("true", "nil", "nil"), Status("false", "false", "true")}

MCContents ==
  LET bytes == Letters \cup {Space}
  IN  {<<>>} \cup {<<c>> : c \in bytes} \cup (bytes \X bytes)

\* One word, and two texts of two that begin with it.
MCPrompts == {<<x>>, <<x, Space, x>>, <<x, Space, y>>}

\* A call can read the clock before the one in front of it has.
MCDelays == -1..2

\* Only the sign matters.
MCQuantities == -1..1

\* Up to three tokens, slashes wherever they can be.
MCPaths == BoundedSeq({"/", "text"}, 3)

\* Never, and shorter or longer than the waits between calls.
MCTTLs == {-1, 1, 2}

\* Slow and fast prefills, a cap that cuts everything or nothing, no decoding.
MCLatencies ==
  {[base |-> s, cold |-> c, warm |-> w, decode |-> d, maxSleep |-> m] :
     s \in {-1, 1}, c \in {2}, w \in {0, 2}, d \in {0, 1}, m \in {-1, 3, 5, 20}}
=============================================================================
