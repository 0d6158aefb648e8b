-------------------------------- MODULE Ewma --------------------------------
(***************************************************************************)
(* ewma.Value (internal/ewma/ewma.go): one atomic word that Observe        *)
(* updates with a compare-and-swap loop. Every backend has two of them,    *)
(* for latency and errors, and every request goroutine that returns from a *)
(* forward observes both. Get is a single load.                            *)
(*                                                                         *)
(* Numbers are in fixed point with Scale units to 1.0, rounded down.       *)
(***************************************************************************)
EXTENDS Integers

CONSTANTS
  Observers,   \* goroutines that call Observe
  Samples,     \* the values they observe
  Top,         \* no sample is larger
  Scale,       \* 1.0
  Weight,      \* alpha, as given to NewWithAlpha
  NoSample     \* an observer that is not in Observe

ASSUME ScaleAssumption  == Scale \in Nat /\ Scale >= 20
ASSUME TopAssumption    == Top \in Nat /\ Samples \subseteq 0..Top
ASSUME WeightAssumption == Weight \in Int
ASSUME NoSampleAssumption == NoSample \notin Samples

VARIABLES
  bits,  \* the word
  obs    \* the local state of each observer

vars == <<bits, obs>>

\* DefaultAlpha is 0.05.
DefaultAlpha == Scale \div 20

\* NewWithAlpha: an alpha that is not in (0, 1] is replaced by the default.
alpha == IF Weight <= 0 \/ Weight > Scale THEN DefaultAlpha ELSE Weight

\* Mutant: the old value keeps its full weight.
BlendSum(old, value) == (old * Scale + value * alpha) \div Scale

Blend(old, value) == (old * (Scale - alpha) + value * alpha) \div Scale

Idle == [pc |-> "idle", value |-> NoSample, old |-> 0, next |-> 0]

\* About to load the word.
Entered(v) == [pc |-> "load", value |-> v, old |-> 0, next |-> 0]

Init == bits = 0 /\ obs = [o \in Observers |-> Idle]

\* Observe is called.
Start(o) ==
  /\ obs[o].pc = "idle"
  /\ \E v \in Samples : obs' = [obs EXCEPT ![o] = Entered(v)]
  /\ UNCHANGED bits

\* The word is loaded and the next average computed from it.
Load(o) ==
  /\ obs[o].pc = "load"
  /\ obs' = [obs EXCEPT ![o].pc = "swap", ![o].old = bits,
                        ![o].next = Blend(bits, obs[o].value)]
  /\ UNCHANGED bits

\* Mutant: the word is stored, not compared and swapped.
SwapBlindly(o) ==
  /\ obs[o].pc = "swap"
  /\ bits' = obs[o].next
  /\ obs' = [obs EXCEPT ![o] = Idle]

\* CompareAndSwap: the word still holds old, and Observe returns.
Swap(o) ==
  /\ obs[o].pc = "swap"
  /\ bits = obs[o].old
  /\ bits' = obs[o].next
  /\ obs' = [obs EXCEPT ![o] = Idle]

\* Mutant: the swap is tried again without another load.
RetryStale(o) ==
  /\ obs[o].pc = "swap"
  /\ bits # obs[o].old
  /\ UNCHANGED vars

\* CompareAndSwap fails and the loop goes round.
Retry(o) ==
  /\ obs[o].pc = "swap"
  /\ bits # obs[o].old
  /\ obs' = [obs EXCEPT ![o] = Entered(obs[o].value)]
  /\ UNCHANGED bits

Observe(o) == Load(o) \/ Swap(o) \/ Retry(o)

Next == \E o \in Observers : Start(o) \/ Observe(o)

Spec == Init /\ [][Next]_vars

\* Goroutines are scheduled; nobody has to call Observe.
FairSpec == Spec /\ \A o \in Observers : WF_vars(Observe(o))
-----------------------------------------------------------------------------
(* Properties *)

Observer ==
  [pc : {"idle", "load", "swap"}, value : Samples \cup {NoSample},
   old : 0..Top, next : 0..Top]

\* The variables have the shape the code gives them and the average lies
\* between 0 and the largest sample: the error term of a score stays within
\* its weight however many errors there are.
TypeOK ==
  /\ bits \in 0..Top
  /\ obs \in [Observers -> Observer]

Atomic == INSTANCE AtomicEwma
  WITH Blended <- Blend, Zero <- 0,
       average <- bits, calling <- [o \in Observers |-> obs[o].value]

\* Every Observe takes effect exactly once, although any number of them
\* overlap and the word may change and change back between load and swap.
ImplementsAtomic == Atomic!AtomicSpec

\* The loop is free of locks: as long as somebody is in Observe, calls
\* complete. One that is overtaken was overtaken by another that completed.
LockFree ==
  \/ <>[](\A o \in Observers : obs[o].pc = "idle")
  \/ []<><<\E o \in Observers : Swap(o)>>_vars
=============================================================================
