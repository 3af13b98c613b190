---------------------------- MODULE FifoChannel -----------------------------
(***************************************************************************)
(* What a user of AsyncQueue relies on: a channel that remembers the       *)
(* values sent, hands each one out once and in order, accepts nothing      *)
(* after it is shut, and reports the end only when everything was taken.   *)
(***************************************************************************)
EXTENDS Naturals, Sequences

CONSTANTS Items, Consumers

VARIABLES sent, taken, shut, finished

vars == <<sent, taken, shut, finished>>

Init == sent = <<>> /\ taken = 0 /\ shut = FALSE /\ finished = {}

Send(x) == ~shut /\ sent' = Append(sent, x) /\ UNCHANGED <<taken, shut, finished>>

Take == taken < Len(sent) /\ taken' = taken + 1 /\ UNCHANGED <<sent, shut, finished>>

\* A value sent to someone who is already waiting is taken at once.
HandOver(x) ==
  /\ ~shut
  /\ taken = Len(sent)
  /\ sent' = Append(sent, x)
  /\ taken' = taken + 1
  /\ UNCHANGED <<shut, finished>>

\* Shutting may at once release any number of idle consumers, and only when
\* nothing is left to take.
Shut(released) ==
  /\ ~shut
  /\ shut' = TRUE
  /\ released # {} => taken = Len(sent)
  /\ finished' = finished \union released
  /\ UNCHANGED <<sent, taken>>

Finish(c) ==
  /\ shut
  /\ taken = Len(sent)
  /\ finished' = finished \union {c}
  /\ UNCHANGED <<sent, taken, shut>>

Next ==
  \/ \E x \in Items : Send(x) \/ HandOver(x)
  \/ Take
  \/ \E released \in SUBSET Consumers : Shut(released)
  \/ \E c \in Consumers : Finish(c)

Spec == Init /\ [][Next]_vars
=============================================================================
