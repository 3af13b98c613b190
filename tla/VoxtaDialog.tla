---------------------------- MODULE VoxtaDialog ----------------------------
(***************************************************************************)
(* What the client of a Voxta connection is promised to hear: each of its  *)
(* requests is answered by one complete exchange before the next one is, a *)
(* reply is opened once and ends with its message, with a cancellation or  *)
(* with an error, and after a hang-up there is silence.                    *)
(***************************************************************************)
CONSTANT Conns

VARIABLES
  heard,  (* the last burst each client got      *)
  line    (* its connection: new, open, closed   *)

Openings == {"answer", "userMessage"}
ReplyGoesOn == {"replyChunk", "replyEnd", "replyCancelled", "error"}

\* What may be heard next: an answer is a whole exchange with its completion,
\* a text that was said is echoed and replied to.
Follows ==
  [nothing |-> Openings, answer |-> Openings,
   userMessage |-> {"replyStart"},
   replyStart |-> ReplyGoesOn, replyChunk |-> ReplyGoesOn,
   replyEnd |-> Openings, replyCancelled |-> Openings, error |-> Openings]

Init ==
  /\ heard = [c \in Conns |-> "nothing"]
  /\ line = [c \in Conns |-> "new"]

PickUp(c) ==
  /\ line[c] = "new"
  /\ line' = [line EXCEPT ![c] = "open"]
  /\ UNCHANGED heard

Hear(c) ==
  /\ line[c] = "open"
  /\ \E burst \in Follows[heard[c]] : heard' = [heard EXCEPT ![c] = burst]
  /\ UNCHANGED line

HangUp(c) ==
  /\ line[c] = "open"
  /\ line' = [line EXCEPT ![c] = "closed"]
  /\ UNCHANGED heard

Next == \E c \in Conns : PickUp(c) \/ Hear(c) \/ HangUp(c)

Spec == Init /\ [][Next]_<<heard, line>>
=============================================================================
