----------------------------- MODULE AsyncQueue -----------------------------
(***************************************************************************)
(* The queue every streaming path of the TypeScript hub is built on        *)
(* (src/ts/shared/async-queue.ts): the reply's text segments on their way  *)
(* to TTS, the audio of one TTS context, the deltas of one worker request. *)
(* A producer calls push and close; consumers call next and may be left    *)
(* waiting on a promise that a later push or close resolves. Operators     *)
(* marked "mutant" are slips of the definition that follows them; the      *)
(* specification does not use them.                                        *)
(***************************************************************************)
EXTENDS Naturals, Sequences, SequencesExt

CONSTANTS
  Items,      (* the values a producer may push                            *)
  Consumers,  (* the loops that call next, each with one call at a time    *)
  MaxPush     (* bound: calls of push in a behaviour                       *)

ASSUME MaxPushAssumption == MaxPush \in Nat

VARIABLES
  items,      (* values pushed and not yet handed to anyone                *)
  waiters,    (* consumers whose next() is an unresolved promise, in order *)
  closed,
  pushes,     (* number of calls of push so far                            *)
  accepted,   (* history: values that push did not drop                    *)
  delivered,  (* history: values handed to consumers, in order             *)
  ended       (* consumers whose next() answered done                      *)

vars == <<items, waiters, closed, pushes, accepted, delivered, ended>>

Init ==
  /\ items = <<>>
  /\ waiters = <<>>
  /\ closed = FALSE
  /\ pushes = 0
  /\ accepted = <<>>
  /\ delivered = <<>>
  /\ ended = {}

PushDespiteClose(x) ==                                              \* mutant
  /\ closed
  /\ items' = Append(items, x)
  /\ accepted' = Append(accepted, x)
  /\ UNCHANGED <<waiters, closed, delivered, ended>>

\* push on a closed queue: the value is dropped without a trace.
PushDropped(x) ==
  /\ closed
  /\ UNCHANGED <<items, waiters, closed, accepted, delivered, ended>>

\* push while a consumer waits: the oldest waiter gets the value directly.
PushToWaiter(x) ==
  /\ ~closed
  /\ waiters # <<>>
  /\ waiters' = Tail(waiters)
  /\ accepted' = Append(accepted, x)
  /\ delivered' = Append(delivered, x)
  /\ UNCHANGED <<items, closed, ended>>

PushToItems(x) ==
  /\ ~closed
  /\ waiters = <<>>
  /\ items' = Append(items, x)
  /\ accepted' = Append(accepted, x)
  /\ UNCHANGED <<waiters, closed, delivered, ended>>

push(x) ==
  /\ pushes < MaxPush
  /\ pushes' = pushes + 1
  /\ PushDropped(x) \/ PushToWaiter(x) \/ PushToItems(x)

CloseForgetsWaiters ==                                              \* mutant
  /\ ~closed
  /\ closed' = TRUE
  /\ UNCHANGED <<items, waiters, pushes, accepted, delivered, ended>>

\* close tells every waiter that the queue is done; closing twice is a no-op.
close ==
  /\ ~closed
  /\ closed' = TRUE
  /\ ended' = ended \union ToSet(waiters)
  /\ waiters' = <<>>
  /\ UNCHANGED <<items, pushes, accepted, delivered>>

\* A consumer's for-await loop calls next again only after the last answer,
\* and never after an answer of done.
MayCall(c) == c \notin ToSet(waiters) /\ c \notin ended

NextTakesNewest(c) ==                                               \* mutant
  /\ items # <<>>
  /\ delivered' = Append(delivered, Last(items))
  /\ items' = Front(items)
  /\ UNCHANGED <<waiters, ended>>

NextTakes(c) ==
  /\ items # <<>>
  /\ delivered' = Append(delivered, Head(items))
  /\ items' = Tail(items)
  /\ UNCHANGED <<waiters, ended>>

NextEnds(c) ==
  /\ items = <<>>
  /\ closed
  /\ ended' = ended \union {c}
  /\ UNCHANGED <<items, waiters, delivered>>

NextWaits(c) ==
  /\ items = <<>>
  /\ ~closed
  /\ waiters' = Append(waiters, c)
  /\ UNCHANGED <<items, delivered, ended>>

next(c) ==
  /\ MayCall(c)
  /\ NextTakes(c) \/ NextEnds(c) \/ NextWaits(c)
  /\ UNCHANGED <<closed, pushes, accepted>>

Next ==
  \/ \E x \in Items : push(x)
  \/ close
  \/ \E c \in Consumers : next(c)

(***************************************************************************)
(* The consumers are for-await loops, so each keeps calling next. Nothing  *)
(* is assumed of the producer: whether it ever closes the queue is up to   *)
(* the code that owns it.                                                  *)
(***************************************************************************)
Spec == Init /\ [][Next]_vars
FairSpec == Spec /\ \A c \in Consumers : WF_vars(next(c))

-----------------------------------------------------------------------------
TypeOK ==
  /\ items \in Seq(Items)
  /\ waiters \in Seq(Consumers)
  /\ closed \in BOOLEAN
  /\ pushes \in 0..MaxPush
  /\ accepted \in Seq(Items)
  /\ delivered \in Seq(Items)
  /\ ended \subseteq Consumers

\* No wake-up is lost: nobody waits while a value is queued or after close.
NoLostWakeup == waiters # <<>> => items = <<>> /\ ~closed

\* No value is lost, duplicated or reordered between push and next, whichever
\* of the two paths (direct hand-over or the items array) each one takes.
ExactlyOnceInOrder == accepted = delivered \o items

\* A consumer is told done only when nothing it should still get is queued.
DoneMeansDrained == ended # {} => closed /\ items = <<>>

\* Once the producer has closed the queue every consumer loop ends.
LoopsEnd == closed ~> (ended = Consumers)

-----------------------------------------------------------------------------
Channel == INSTANCE FifoChannel
             WITH sent <- accepted, taken <- Len(delivered),
                  shut <- closed, finished <- ended

\* The queue implements the abstract channel: push is Send or HandOver, next
\* is Take or Finish, close is Shut of the waiters.
ImplementsChannel == Channel!Spec
=============================================================================
