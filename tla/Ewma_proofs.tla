---------------------------- MODULE Ewma_proofs ----------------------------
(***************************************************************************)
(* Proofs about Ewma for every set of observers and samples and every      *)
(* alpha: the average stays within the range of the samples, and the loop  *)
(* of loads and swaps implements an atomic update.                         *)
(***************************************************************************)
EXTENDS Ewma, TLAPS

LEMMA AlphaType == alpha \in 1..Scale
<1>1. CASE Weight <= 0 \/ Weight > Scale
  <2>1. Scale \div 20 \in 1..Scale
    BY ScaleAssumption
  <2> QED
    BY <1>1, <2>1 DEF alpha, DefaultAlpha
<1>2. CASE ~(Weight <= 0 \/ Weight > Scale)
  BY <1>2, WeightAssumption, ScaleAssumption DEF alpha
<1> QED
  BY <1>1, <1>2

\* Weights that are not negative and add up to Scale cannot leave the range.
LEMMA BlendBounded ==
  ASSUME NEW old \in 0..Top, NEW value \in 0..Top
  PROVE  Blend(old, value) \in 0..Top
<1>0. PICK a \in 1..Scale : a = alpha
  BY AlphaType
<1> DEFINE x == old * (Scale - a)
           y == value * a
<1>1. Scale \in Nat \ {0} /\ Top \in Nat /\ Scale - a \in Nat /\ a \in Nat
  BY ScaleAssumption, TopAssumption
<1>2. x \in Nat /\ x <= Top * (Scale - a)
  BY <1>1
<1>3. y \in Nat /\ y <= Top * a
  BY <1>1
<1>4. Top * (Scale - a) + Top * a = Top * Scale
  BY <1>1
<1>5. x + y \in Nat /\ x + y <= Top * Scale
  <2> HIDE DEF x, y
  <2>1. Top * (Scale - a) \in Nat /\ Top * a \in Nat /\ Top * Scale \in Nat
    BY <1>1
  <2> QED
    BY <1>2, <1>3, <1>4, <2>1
<1>6. \A z \in Nat : z <= Top * Scale => z \div Scale \in 0..Top
  BY <1>1
<1> QED
  BY <1>0, <1>5, <1>6 DEF Blend

-----------------------------------------------------------------------------
\* An observer about to swap has computed its average from the word it will
\* compare; one that is in Observe has a sample.
NextFromOld ==
  \A o \in Observers :
    /\ obs[o].pc = "idle" => obs[o].value = NoSample
    /\ obs[o].pc # "idle" => obs[o].value \in Samples
    /\ obs[o].pc = "swap" => obs[o].next = Blend(obs[o].old, obs[o].value)

IInv == TypeOK /\ NextFromOld

LEMMA InitInv == Init => IInv
BY TopAssumption DEF Init, IInv, TypeOK, NextFromOld, Observer, Idle

LEMMA NextInv == IInv /\ [Next]_vars => IInv'
<1> SUFFICES ASSUME IInv, [Next]_vars
             PROVE  IInv'
  OBVIOUS
<1> USE TopAssumption DEF IInv, TypeOK, NextFromOld, Observer, Idle, Entered
<1>1. ASSUME NEW o \in Observers, Start(o)
      PROVE  IInv'
  <2>2. PICK v \in Samples : obs' = [obs EXCEPT ![o] = Entered(v)]
    BY <1>1 DEF Start
  <2>3. TypeOK'
    BY <1>1, <2>2 DEF Start
  <2>4. NextFromOld'
    BY <1>1, <2>2 DEF Start
  <2> QED
    BY <2>3, <2>4
<1>2. ASSUME NEW o \in Observers, Load(o)
      PROVE  IInv'
  <2>1. obs[o].value \in 0..Top /\ bits \in 0..Top
    BY <1>2 DEF Load
  <2>2. Blend(bits, obs[o].value) \in 0..Top
    BY <2>1, BlendBounded
  <2> QED
    BY <1>2, <2>1, <2>2 DEF Load
<1>3. ASSUME NEW o \in Observers, Swap(o)
      PROVE  IInv'
  BY <1>3 DEF Swap
<1>4. ASSUME NEW o \in Observers, Retry(o)
      PROVE  IInv'
  <2>1. obs' = [obs EXCEPT ![o] = Entered(obs[o].value)]
    BY <1>4 DEF Retry
  <2>2. obs[o].value \in Samples
    BY <1>4 DEF Retry
  <2>3. TypeOK'
    BY <1>4, <2>1, <2>2 DEF Retry
  <2>4. NextFromOld'
    BY <1>4, <2>1, <2>2 DEF Retry
  <2> QED
    BY <2>3, <2>4
<1>5. CASE UNCHANGED vars
  BY <1>5 DEF vars
<1> QED
  BY <1>1, <1>2, <1>3, <1>4, <1>5 DEF Next, Observe

\* The average never leaves the range of the samples.
THEOREM EwmaTypeCorrect == Spec => []TypeOK
<1>1. IInv => TypeOK
  BY DEF IInv
<1> QED
  BY <1>1, InitInv, NextInv, PTL DEF Spec

-----------------------------------------------------------------------------
(* The refinement *)

Calling == [o \in Observers |-> obs[o].value]

\* Start is a call, a swap that succeeds is the moment the call takes effect,
\* and a load or a failed swap is nothing the caller of Get could see.
LEMMA StepSimulates ==
  ASSUME IInv, [Next]_vars
  PROVE  [Atomic!AtomicNext]_<<bits, Calling>>
<1> USE DEF IInv, TypeOK, NextFromOld, Observer, Idle, Entered, Calling
<1>1. ASSUME NEW o \in Observers, Start(o)
      PROVE  Atomic!Call(o)
  <2>1. PICK v \in Samples : obs' = [obs EXCEPT ![o] = Entered(v)]
    BY <1>1 DEF Start
  <2>2. obs[o].value = NoSample /\ UNCHANGED bits
    BY <1>1 DEF Start
  <2>3. Calling' = [Calling EXCEPT ![o] = v]
    BY <2>1
  <2> QED
    BY <2>2, <2>3 DEF Atomic!Call
<1>2. ASSUME NEW o \in Observers, Load(o)
      PROVE  UNCHANGED <<bits, Calling>>
  BY <1>2 DEF Load
<1>3. ASSUME NEW o \in Observers, Swap(o)
      PROVE  Atomic!TakeEffect(o)
  BY <1>3, NoSampleAssumption DEF Swap, Atomic!TakeEffect
<1>4. ASSUME NEW o \in Observers, Retry(o)
      PROVE  UNCHANGED <<bits, Calling>>
  BY <1>4 DEF Retry
<1>5. CASE UNCHANGED vars
  BY <1>5 DEF vars
<1> QED
  BY <1>1, <1>2, <1>3, <1>4, <1>5 DEF Next, Observe, Atomic!AtomicNext

\* The compare-and-swap loop implements the atomic average: no sample is lost
\* or counted twice, for any number of observers.
THEOREM EwmaImplementsAtomic == Spec => ImplementsAtomic
<1>1. Init => Atomic!AtomicInit
  BY DEF Init, Idle, Atomic!AtomicInit
<1>2. IInv /\ [Next]_vars => [Atomic!AtomicNext]_<<bits, Calling>>
  BY StepSimulates
<1> QED
  BY <1>1, <1>2, InitInv, NextInv, PTL
     DEF Spec, ImplementsAtomic, Atomic!AtomicSpec, Calling
=============================================================================
