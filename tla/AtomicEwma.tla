----------------------------- MODULE AtomicEwma -----------------------------
(***************************************************************************)
(* What an exponentially weighted average shared by many goroutines        *)
(* promises: every call of Observe blends its sample into the average      *)
(* exactly once, at one moment between its call and its return.            *)
(***************************************************************************)
CONSTANTS Observers, Samples, Blended(_, _), Zero, NoSample

VARIABLES average, calling

AtomicInit == average = Zero /\ calling = [o \in Observers |-> NoSample]

Call(o) ==
  /\ calling[o] = NoSample
  /\ \E v \in Samples : calling' = [calling EXCEPT ![o] = v]
  /\ UNCHANGED average

TakeEffect(o) ==
  /\ calling[o] # NoSample
  /\ average' = Blended(average, calling[o])
  /\ calling' = [calling EXCEPT ![o] = NoSample]

AtomicNext == \E o \in Observers : Call(o) \/ TakeEffect(o)

AtomicSpec == AtomicInit /\ [][AtomicNext]_<<average, calling>>
=============================================================================
