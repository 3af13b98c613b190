-------------------------- MODULE AsyncQueueProofs --------------------------
(***************************************************************************)
(* Proofs about AsyncQueue, for any sets of items and consumers and any    *)
(* number of calls.                                                        *)
(***************************************************************************)
EXTENDS AsyncQueue, SequenceTheorems, TLAPS

\* The inductive invariant: the typing plus the three safety properties. They
\* need each other: push may bypass the items array only because nobody waits
\* while it holds a value.
IInv == TypeOK /\ NoLostWakeup /\ ExactlyOnceInOrder /\ DoneMeansDrained

USE DEF ToSet

\* Moving the head of the right operand to the end of the left one changes
\* nothing of the whole.
LEMMA MoveHead ==
  ASSUME NEW S, NEW s \in Seq(S), NEW t \in Seq(S), t # <<>>
  PROVE  Append(s, Head(t)) \o Tail(t) = s \o t
<1>1. /\ Head(t) \in S
      /\ Tail(t) \in Seq(S)
      /\ Append(s, Head(t)) \o Tail(t) \in Seq(S)
      /\ s \o t \in Seq(S)
  OBVIOUS
<1>2. Len(Append(s, Head(t)) \o Tail(t)) = Len(s \o t)
  BY <1>1
<1>3. \A i \in 1..Len(s \o t) : (Append(s, Head(t)) \o Tail(t))[i] = (s \o t)[i]
  BY <1>1
<1>4. QED
  BY <1>1, <1>2, <1>3, SeqEqual

\* Nothing is queued and nobody has been told anything at the start.
LEMMA InitHolds == Init => IInv
<1> SUFFICES ASSUME Init
             PROVE  IInv
  OBVIOUS
<1>1. TypeOK
  <2>1. <<>> \in Seq(Items) /\ <<>> \in Seq(Consumers)
    BY EmptySeq
  <2>2. 0 \in 0..MaxPush
    BY MaxPushAssumption
  <2>3. QED
    BY <2>1, <2>2 DEF Init, TypeOK
<1>2. accepted = delivered \o items
  BY <1>1, ConcatEmptySeq DEF Init, TypeOK
<1>3. QED
  BY <1>1, <1>2 DEF Init, IInv, NoLostWakeup, ExactlyOnceInOrder, DoneMeansDrained

\* Every call of push, close and next keeps the inductive invariant.
LEMMA StepHolds == IInv /\ [Next]_vars => IInv'
<1> SUFFICES ASSUME IInv, [Next]_vars
             PROVE  IInv'
  OBVIOUS
<1> USE MaxPushAssumption DEF IInv, TypeOK, NoLostWakeup, ExactlyOnceInOrder, DoneMeansDrained
<1>1. ASSUME NEW x \in Items, push(x)
      PROVE  IInv'
  <2>1. CASE PushDropped(x)
    BY <1>1, <2>1 DEF push, PushDropped
  <2>2. CASE PushToWaiter(x)
    <3>1. items = <<>> /\ items' = <<>>
      BY <2>2 DEF PushToWaiter
    <3>2. accepted' = delivered' \o items'
      BY <2>2, <3>1 DEF PushToWaiter
    <3>3. TypeOK'
      BY <1>1, <2>2 DEF push, PushToWaiter
    <3>4. QED
      BY <2>2, <3>1, <3>2, <3>3 DEF PushToWaiter
  <2>3. CASE PushToItems(x)
    <3>1. Append(delivered \o items, x) = delivered \o Append(items, x)
      <4>1. /\ Append(delivered \o items, x) \in Seq(Items)
            /\ delivered \o Append(items, x) \in Seq(Items)
        OBVIOUS
      <4>2. Len(Append(delivered \o items, x)) = Len(delivered \o Append(items, x))
        OBVIOUS
      <4>3. \A i \in 1..Len(Append(delivered \o items, x)) :
              Append(delivered \o items, x)[i] = (delivered \o Append(items, x))[i]
        OBVIOUS
      <4>4. QED
        BY <4>1, <4>2, <4>3, SeqEqual
    <3>2. accepted' = delivered' \o items'
      <4>1. accepted' = Append(delivered \o items, x)
        BY <2>3 DEF PushToItems
      <4>2. delivered' \o items' = delivered \o Append(items, x)
        BY <2>3 DEF PushToItems
      <4>3. QED
        BY <3>1, <4>1, <4>2
    <3>3. TypeOK'
      BY <1>1, <2>3 DEF push, PushToItems
    <3>4. QED
      BY <2>3, <3>2, <3>3 DEF PushToItems
  <2>4. QED
    BY <1>1, <2>1, <2>2, <2>3 DEF push
<1>2. ASSUME close
      PROVE  IInv'
  <2>1. ToSet(waiters) \subseteq Consumers
    OBVIOUS
  <2>2. ended' # {} => items = <<>>
    BY <1>2 DEF close
  <2>3. QED
    BY <1>2, <2>1, <2>2 DEF close
<1>3. ASSUME NEW c \in Consumers, next(c)
      PROVE  IInv'
  <2>1. CASE NextTakes(c)
    <3>1. accepted' = delivered' \o items'
      BY <1>3, <2>1, MoveHead DEF next, NextTakes
    <3>2. TypeOK'
      BY <1>3, <2>1 DEF next, NextTakes
    <3>3. QED
      BY <1>3, <2>1, <3>1, <3>2 DEF next, NextTakes
  <2>2. CASE NextEnds(c)
    BY <1>3, <2>2 DEF next, NextEnds
  <2>3. CASE NextWaits(c)
    <3>1. ended = {}
      BY <2>3 DEF NextWaits
    <3>2. QED
      BY <1>3, <2>3, <3>1 DEF next, NextWaits
  <2>4. QED
    BY <1>3, <2>1, <2>2, <2>3 DEF next
<1>4. CASE UNCHANGED vars
  BY <1>4 DEF vars
<1>5. QED
  BY <1>1, <1>2, <1>3, <1>4 DEF Next

\* The inductive invariant holds in every reachable state.
THEOREM QueueInvariant == Spec => []IInv
  BY InitHolds, StepHolds, PTL DEF Spec

\* push loses no wake-up, loses or repeats no value, and done is said only
\* when the queue is drained, whatever the number of consumers and calls.
THEOREM QueueIsSafe == Spec => [](NoLostWakeup /\ ExactlyOnceInOrder /\ DoneMeansDrained)
<1>1. IInv => NoLostWakeup /\ ExactlyOnceInOrder /\ DoneMeansDrained
  BY DEF IInv
<1>2. QED
  BY <1>1, QueueInvariant, PTL

\* What push accepted is what next has delivered and still will, in that order:
\* the hand-over to a waiting consumer never overtakes a queued value.
THEOREM NothingIsLostOrReordered == Spec => []ExactlyOnceInOrder
<1>1. IInv => ExactlyOnceInOrder
  BY DEF IInv
<1>2. QED
  BY <1>1, QueueInvariant, PTL

\* Every call of push, close and next is a step of the abstract channel or
\* leaves its state alone: a consumer that starts to wait takes nothing.
LEMMA StepSimulation == IInv /\ [Next]_vars => [Channel!Next]_(Channel!vars)
<1> SUFFICES ASSUME IInv, [Next]_vars
             PROVE  [Channel!Next]_(Channel!vars)
  OBVIOUS
<1> USE DEF IInv, TypeOK, NoLostWakeup, ExactlyOnceInOrder, DoneMeansDrained, Channel!vars
<1>0. Len(accepted) = Len(delivered) + Len(items) /\ Len(delivered) \in Nat
  OBVIOUS
<1>1. ASSUME NEW x \in Items, push(x)
      PROVE  [Channel!Next]_(Channel!vars)
  <2>1. CASE PushDropped(x)
    BY <2>1 DEF PushDropped
  <2>2. CASE PushToWaiter(x)
    <3>1. Len(delivered) = Len(accepted) /\ Len(delivered') = Len(delivered) + 1
      BY <2>2, <1>0 DEF PushToWaiter
    <3>2. Channel!HandOver(x)
      BY <2>2, <3>1 DEF PushToWaiter, Channel!HandOver
    <3>3. QED
      BY <3>2 DEF Channel!Next
  <2>3. CASE PushToItems(x)
    <3>1. Channel!Send(x)
      BY <2>3 DEF PushToItems, Channel!Send
    <3>2. QED
      BY <3>1 DEF Channel!Next
  <2>4. QED
    BY <1>1, <2>1, <2>2, <2>3 DEF push
<1>2. ASSUME close
      PROVE  [Channel!Next]_(Channel!vars)
  <2>1. ToSet(waiters) \subseteq Consumers
    OBVIOUS
  <2>2. waiters = <<>> => ToSet(waiters) = {}
    OBVIOUS
  <2>3. ToSet(waiters) # {} => Len(delivered) = Len(accepted)
    BY <2>2, <1>0
  <2>4. Channel!Shut(ToSet(waiters))
    BY <1>2, <2>3 DEF close, Channel!Shut
  <2>5. QED
    BY <2>1, <2>4 DEF Channel!Next
<1>3. ASSUME NEW c \in Consumers, next(c)
      PROVE  [Channel!Next]_(Channel!vars)
  <2>1. CASE NextTakes(c)
    <3>1. Len(delivered) < Len(accepted) /\ Len(delivered') = Len(delivered) + 1
      BY <2>1, <1>0 DEF NextTakes
    <3>2. Channel!Take
      BY <1>3, <2>1, <3>1 DEF next, NextTakes, Channel!Take
    <3>3. QED
      BY <3>2 DEF Channel!Next
  <2>2. CASE NextEnds(c)
    <3>1. Len(delivered) = Len(accepted)
      BY <2>2, <1>0 DEF NextEnds
    <3>2. Channel!Finish(c)
      BY <1>3, <2>2, <3>1 DEF next, NextEnds, Channel!Finish
    <3>3. QED
      BY <3>2 DEF Channel!Next
  <2>3. CASE NextWaits(c)
    BY <1>3, <2>3 DEF next, NextWaits
  <2>4. QED
    BY <1>3, <2>1, <2>2, <2>3 DEF next
<1>4. CASE UNCHANGED vars
  BY <1>4 DEF vars
<1>5. QED
  BY <1>1, <1>2, <1>3, <1>4 DEF Next

\* AsyncQueue implements the abstract first-in first-out channel.
THEOREM QueueImplementsChannel == Spec => ImplementsChannel
<1>1. Init => Channel!Init
  BY EmptySeq DEF Init, Channel!Init
<1>2. QED
  BY <1>1, StepSimulation, QueueInvariant, PTL DEF Spec, ImplementsChannel, Channel!Spec
=============================================================================
